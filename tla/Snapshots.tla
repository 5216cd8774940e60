----------------------------- MODULE Snapshots -----------------------------
(***************************************************************************)
(* The snapshots in the restic repositories: how backup.py adds them, how  *)
(* prune.py removes them and what cli.py finds in them.                    *)
(*                                                                         *)
(* A snapshot of this system is not a picture of a directory: it holds     *)
(* only the files that were marked when the run started, because restic is *)
(* given a list of files.  What can be restored is therefore spread over   *)
(* many snapshots.  That runs exclude each other and that no marker is     *)
(* lost on the way is the subject of module Backup; here a run on one      *)
(* repository is a step.                                                   *)
(*                                                                         *)
(* restic and MinIO are external: "backup --files-from" makes a snapshot   *)
(* of the listed files, "forget --keep-within" groups snapshots by host    *)
(* and list of paths and keeps what is recent relative to the newest one   *)
(* of the group, "restore latest" takes the newest snapshot of all.        *)
(*                                                                         *)
(* A path is the sequence of its names.                                    *)
(***************************************************************************)
EXTENDS Naturals, Sequences

CONSTANTS
    File,               \* The files, as paths
    Base,               \* backup.base_path
    Depth,              \* backup.repo_depth
    Node,               \* The nodes that run backups
    KeepDays,           \* prune.keep_days
    MaxTime,            \* Bound on the clock
    Unreadable          \* Bound on the files restic fails to read

ASSUME SnapshotsAssumption ==
    /\ File \subseteq Seq(STRING)
    /\ Base \in Seq(STRING)
    /\ Depth \in Nat \ {0}
    /\ KeepDays \in Nat \ {0}         \* "0d" is no policy: restic forgets nothing
    /\ MaxTime \in Nat
    /\ Unreadable \in Nat

VARIABLES
    exists,             \* Files that exist
    marked,             \* Files with a marker in "pending"
    repos,              \* Repositories that were initialised
    snaps,              \* The snapshots
    now,                \* The clock, in days
    taken,              \* All snapshots ever taken (history)
    unreadable          \* Files restic may still fail to read

vars == <<exists, marked, repos, snaps, now, taken, unreadable>>

Init ==
    /\ exists = {}
    /\ marked = {}
    /\ repos = {}
    /\ snaps = {}
    /\ now = 1
    /\ taken = {}
    /\ unreadable = Unreadable

-----------------------------------------------------------------------------
(***************************************************************************)
(* Paths, repositories and the objects of the bucket.                      *)
(***************************************************************************)

\* path == d or path lies below d.
Under(path, d) == Len(d) <= Len(path) /\ SubSeq(path, 1, Len(d)) = d

NoRepo == <<>>

\* get_repo_id of cli.py and of backup.py: the first Depth names below Base.
GetRepoId(path) ==
    IF Under(path, Base) /\ Len(path) >= Len(Base) + Depth
      THEN SubSeq(path, Len(Base) + 1, Len(Base) + Depth)
      ELSE NoRepo

Last(o) == o[Len(o)]
Front(o) == SubSeq(o, 1, Len(o) - 1)

\* What restic keeps in the bucket for the repositories.
Objects == {Append(r, "config") : r \in repos}
      \cup {Append(Append(s.repo, "snapshots"), "id") : s \in snaps}

\* Mutant: split at the first "/config" instead of the last.
ListReposFirst ==
    {LET ends == {k \in DOMAIN o \ {1} : o[k] = "config"}
     IN  SubSeq(o, 1, (CHOOSE k \in ends : \A l \in ends : k <= l) - 1)
       : o \in {x \in Objects : Last(x) = "config" /\ Len(x) > 1}}

\* list_repos: the objects that end in "/config", without that ending.
ListRepos == {Front(o) : o \in {x \in Objects : Last(x) = "config" /\ Len(x) > 1}}

Of(r) == {s \in snaps : s.repo = r}

\* The newest snapshot of a set that is not empty.
Newest(S) == CHOOSE s \in S : \A t \in S : t.time <= s.time

\* 0 stands for the empty string that status shows.
LastTime(S) == IF S = {} THEN 0 ELSE Newest(S).time

-----------------------------------------------------------------------------
(***************************************************************************)
(* The files and the markers of their events.                              *)
(***************************************************************************)
Modify(f) ==
    /\ exists' = exists \cup {f}
    /\ marked' = marked \cup {f}
    /\ UNCHANGED <<repos, snaps, now, taken, unreadable>>

Delete(f) ==
    /\ f \in exists
    /\ exists' = exists \ {f}
    /\ UNCHANGED <<marked, repos, snaps, now, taken, unreadable>>

Day ==
    /\ now < MaxTime
    /\ now' = now + 1
    /\ UNCHANGED <<exists, marked, repos, snaps, taken, unreadable>>

-----------------------------------------------------------------------------
(***************************************************************************)
(* backup_repo for the marked files of repository r on node n, when it     *)
(* returns without an error.  The timer starts one run a day.              *)
(***************************************************************************)
Snapshot(n, r, P, T) == [time |-> now, repo |-> r, host |-> n, paths |-> P, tree |-> T]

\* Mutant: the paths are not grouped by repository.
MarkedOfAll(r) == marked

MarkedOf(r) == {f \in marked : GetRepoId(f) = r}

BackupRepo(n, r) ==
    LET P == MarkedOf(r) \cap exists IN
    /\ MarkedOf(r) # {}
    /\ \A s \in Of(r) : s.time < now
    /\ repos' = repos \cup {r}
    /\ marked' = marked \ MarkedOf(r)
    /\ \/ /\ P = {}                     \* all of them are deleted
          /\ UNCHANGED <<snaps, taken, unreadable>>
       \/ \E U \in SUBSET P :           \* U cannot be read: return code 3
             /\ U # P
             /\ IF U = {} THEN UNCHANGED unreadable
                          ELSE unreadable > 0 /\ unreadable' = unreadable - 1
             /\ snaps' = snaps \cup {Snapshot(n, r, P, P \ U)}
             /\ taken' = taken \cup {Snapshot(n, r, P, P \ U)}
    /\ UNCHANGED <<exists, now>>

\* restic fails three times: the repository is there, and the markers stay.
BackupFails(r) ==
    /\ MarkedOf(r) \cap exists # {}
    /\ repos' = repos \cup {r}
    /\ UNCHANGED <<exists, marked, snaps, now, taken, unreadable>>

-----------------------------------------------------------------------------
(***************************************************************************)
(* prune_all_repos on one repository; a repository on which restic fails   *)
(* is left as it is.                                                       *)
(***************************************************************************)
SameGroup(s, t) == s.repo = t.repo /\ s.host = t.host /\ s.paths = t.paths

\* Mutant: --group-by host.
ForgottenByHost(r) ==
    {s \in Of(r) : \E t \in Of(r) : s.host = t.host /\ t.time >= s.time + KeepDays}

\* Mutant: --keep-last 1 instead of --keep-within.
ForgottenButLast(r) ==
    {s \in Of(r) : \E t \in Of(r) : SameGroup(s, t) /\ t.time > s.time}

\* restic forget --keep-within=<KeepDays>d keeps what is later than KeepDays days
\* before the newest snapshot of the group: at that very time is too old.
Forgotten(r) ==
    {s \in Of(r) : \E t \in Of(r) : SameGroup(s, t) /\ t.time >= s.time + KeepDays}

PruneRepo(r) ==
    /\ r \in ListRepos
    /\ snaps' = snaps \ Forgotten(r)
    /\ UNCHANGED <<exists, marked, repos, now, taken, unreadable>>

-----------------------------------------------------------------------------
(***************************************************************************)
(* The commands of cli.py.  They change nothing: what they print or        *)
(* restore is a function of the snapshots.                                 *)
(***************************************************************************)

\* cmd_status -v: every repository with the time of its newest snapshot.
CmdStatus == [r \in ListRepos |-> LastTime(Of(r))]

\* cmd_snapshots --path: what can be given to restore -s.
CmdSnapshots(path) == {s.time : s \in Of(GetRepoId(path))}

Latest == 0

\* The snapshot that restic takes: the newest, or the one with the given id.
Selected(r, id) ==
    {s \in Of(r) : IF id = Latest THEN s = Newest(Of(r)) ELSE s.time = id}

\* cmd_restore: restic returns 0, and the command prints "Done", once the
\* snapshot is found, whatever --include matches in it.
CmdRestore(path, id) ==
    LET S == Selected(GetRepoId(path), id)
    IN  [done |-> S # {}, files |-> {f \in UNION {s.tree : s \in S} : Under(f, path)}]

-----------------------------------------------------------------------------
RepoId == {GetRepoId(f) : f \in File} \ {NoRepo}

Next ==
    \/ \E f \in File : Modify(f) \/ Delete(f)
    \/ Day
    \/ \E n \in Node, r \in RepoId : BackupRepo(n, r)
    \/ \E r \in RepoId : BackupFails(r) \/ PruneRepo(r)

Spec == Init /\ [][Next]_vars

-----------------------------------------------------------------------------
(***************************************************************************)
(* Properties.                                                             *)
(***************************************************************************)
SnapshotType ==
    [time : Nat, repo : RepoId, host : Node, paths : SUBSET File, tree : SUBSET File]

\* The variables have their types; a snapshot holds files of its own
\* repository, and nothing that it does not list.
TypeOK ==
    /\ exists \in SUBSET File
    /\ marked \in SUBSET File
    /\ repos \in SUBSET RepoId
    /\ snaps \in SUBSET SnapshotType
    /\ taken \in SUBSET SnapshotType
    /\ \A s \in taken : /\ s.tree \subseteq s.paths
                       /\ \A f \in s.paths : GetRepoId(f) = s.repo
    /\ now \in Nat
    /\ unreadable \in Nat

\* However old it is, the newest snapshot that lists a file, if restic could
\* read the file, survives every prune, and the commands find it: "snapshots"
\* lists it for the file's path and "restore -s" gets the file out of it.  That
\* goes for a file that was deleted as well: its last copy is never cleaned up
\* after keep_days, which is what docs/TDD.md:317 expects of prune.
NewestKept ==
    \A s \in taken : \A f \in s.tree :
        (\A t \in taken : f \in t.paths => t.time <= s.time) =>
            s.time \in CmdSnapshots(f) /\ f \in CmdRestore(f, s.time).files

\* "keep_days": no snapshot younger than KeepDays days is removed.
RecentKept == \A s \in taken : s.time + KeepDays > now => s \in snaps

\* status shows every repository that was initialised, whatever its names are,
\* with the time of the last snapshot taken, which no prune has removed.
StatusTrue == CmdStatus = [r \in repos |-> LastTime({s \in taken : s.repo = r})]

\* "Done. Check: {target}{path}": a restore without -s that reports success
\* has restored the file if a snapshot that is kept holds it.
RestoreFinds ==
    \A s \in snaps : \A f \in s.tree :
        CmdRestore(f, Latest).done => f \in CmdRestore(f, Latest).files

=============================================================================
