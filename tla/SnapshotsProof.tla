--------------------------- MODULE SnapshotsProof ---------------------------
(***************************************************************************)
(* What prune leaves behind, for any files, depth, retention and nodes.    *)
(*                                                                         *)
(* The inductive invariant says why a snapshot may be gone: a later one of *)
(* the same list of paths was taken (Superseded).  That one may be removed *)
(* as well, but only for a still later one, so the newest of a list stays; *)
(* HasNewest names the newest of a repository without induction on sets.   *)
(* The last section is about restores without -s.                          *)
(***************************************************************************)
EXTENDS Snapshots, TLAPS

Recorded ==
    snaps \subseteq taken /\ now # 0 /\ \A s \in taken : s.time \in 1..now

Superseded ==
    \A s \in taken \ snaps : \E t \in taken :
        t.repo = s.repo /\ t.paths = s.paths /\ t.time >= s.time + KeepDays

HasNewest ==
    \A s \in taken : \E m \in taken :
        m.repo = s.repo /\ \A t \in taken : t.repo = s.repo => t.time <= m.time

IInv == TypeOK /\ Recorded /\ Superseded /\ HasNewest

LEMMA InitIInv == Init => IInv
  BY SnapshotsAssumption DEF Init, IInv, TypeOK, Recorded, Superseded, HasNewest

\* A backup adds one snapshot, newer than all others of its repository.
LEMMA BackupIInv ==
  ASSUME IInv, NEW n \in Node, NEW r \in RepoId, BackupRepo(n, r) PROVE IInv'
<1> DEFINE P == MarkedOf(r) \cap exists
<1> USE DEF IInv
<1>1. CASE UNCHANGED <<snaps, taken, unreadable>>
  BY <1>1 DEF BackupRepo, TypeOK, Recorded, Superseded, HasNewest
<1>2. ASSUME NEW U \in SUBSET P,
             IF U = {} THEN UNCHANGED unreadable
                       ELSE unreadable > 0 /\ unreadable' = unreadable - 1,
             snaps' = snaps \cup {Snapshot(n, r, P, P \ U)},
             taken' = taken \cup {Snapshot(n, r, P, P \ U)}
      PROVE IInv'
  <2> DEFINE new == Snapshot(n, r, P, P \ U)
  <2>1. /\ new \in SnapshotType /\ new.tree \subseteq new.paths
        /\ \A f \in new.paths : GetRepoId(f) = new.repo
        /\ new.time = now /\ new.repo = r
    BY DEF TypeOK, Snapshot, SnapshotType, MarkedOf
  <2>0. /\ snaps' = snaps \cup {new} /\ taken' = taken \cup {new}
        /\ repos' = repos \cup {r} /\ marked' \subseteq marked
        /\ unreadable' \in Nat /\ UNCHANGED <<exists, now>>
    BY <1>2 DEF BackupRepo, TypeOK
  <2> HIDE DEF new
  <2>2. TypeOK'
    BY <2>0, <2>1 DEF TypeOK
  <2>3. Recorded'
    BY <2>0, <2>1 DEF TypeOK, Recorded
  <2>4. Superseded'
    BY <2>0 DEF Superseded
  <2>5. HasNewest'
    <3> SUFFICES ASSUME NEW s \in taken'
                 PROVE \E m \in taken' : /\ m.repo = s.repo
                          /\ \A t \in taken' : t.repo = s.repo => t.time <= m.time
      BY DEF HasNewest
    <3>1. taken' = taken \cup {new} /\ now \in Nat
      BY <2>0 DEF TypeOK
    <3>2. CASE s.repo = r
      <4> \A t \in taken' : t.time <= new.time
        BY <2>1, <3>1 DEF Recorded
      <4> QED  BY <2>1, <3>1, <3>2
    <3>3. CASE s.repo # r
      BY <2>1, <3>1, <3>3 DEF HasNewest
    <3> QED  BY <3>2, <3>3
  <2> QED  BY <2>2, <2>3, <2>4, <2>5
<1> QED  BY <1>1, <1>2 DEF BackupRepo

\* A prune removes only what something later supersedes.
LEMMA PruneIInv == ASSUME IInv, NEW r \in RepoId, PruneRepo(r) PROVE IInv'
<1> USE DEF IInv, PruneRepo
<1>1. TypeOK' /\ Recorded' /\ HasNewest'
  BY DEF TypeOK, Recorded, HasNewest
<1>2. Superseded'
  BY DEF Superseded, Recorded, Forgotten, Of, SameGroup
<1> QED  BY <1>1, <1>2

LEMMA StepIInv == IInv /\ [Next]_vars => IInv'
<1> SUFFICES ASSUME IInv, [Next]_vars PROVE IInv'
  OBVIOUS
<1>1. ASSUME NEW f \in File, Modify(f) \/ Delete(f) PROVE IInv'
  BY <1>1 DEF IInv, Modify, Delete, TypeOK, Recorded, Superseded, HasNewest
<1>2. CASE Day
  <2> TypeOK' /\ Superseded' /\ HasNewest'
    BY <1>2 DEF IInv, Day, TypeOK, Superseded, HasNewest
  <2> Recorded'
    BY <1>2 DEF IInv, Day, TypeOK, Recorded
  <2> QED  BY DEF IInv
<1>3. ASSUME NEW r \in RepoId, BackupFails(r) PROVE IInv'
  BY <1>3 DEF IInv, BackupFails, TypeOK, Recorded, Superseded, HasNewest
<1>4. CASE UNCHANGED vars
  BY <1>4 DEF IInv, vars, TypeOK, Recorded, Superseded, HasNewest
<1> QED  BY <1>1, <1>2, <1>3, <1>4, BackupIInv, PruneIInv DEF Next

LEMMA Inductive == Spec => []IInv
<1> QED  BY InitIInv, StepIInv, PTL DEF Spec

\* The variables keep their types, and a snapshot holds nothing but listed
\* files of its own repository.
THEOREM TypeCorrect == Spec => []TypeOK
<1> QED  BY Inductive, PTL DEF IInv

\* A file can always be restored from the newest snapshot that lists it.
THEOREM NewestStays == Spec => []NewestKept
<1>1. IInv => NewestKept
  <2> SUFFICES ASSUME IInv, NEW s \in taken, NEW f \in s.tree,
                      \A t \in taken : f \in t.paths => t.time <= s.time
               PROVE  s.time \in CmdSnapshots(f) /\ f \in CmdRestore(f, s.time).files
    BY DEF NewestKept
  <2>1. /\ f \in s.paths /\ f \in File /\ f \in Seq(STRING)
        /\ s.repo = GetRepoId(f) /\ s.time \in Nat /\ s.time # Latest
    BY SnapshotsAssumption DEF IInv, TypeOK, SnapshotType, Recorded, Latest
  <2>2. s \in Of(GetRepoId(f))
    BY <2>1, SnapshotsAssumption DEF IInv, Superseded, Recorded, Of
  <2>3. Under(f, f)
    BY <2>1 DEF Under
  <2> QED  BY <2>1, <2>2, <2>3 DEF CmdSnapshots, CmdRestore, Selected
<1> QED  BY <1>1, Inductive, PTL

\* Retention holds: what is less than KeepDays old is there.
THEOREM RecentStays == Spec => []RecentKept
<1>1. IInv => RecentKept
  BY SnapshotsAssumption DEF IInv, RecentKept, Superseded, Recorded, TypeOK
<1> QED  BY <1>1, Inductive, PTL

\* Every repository is found among the objects of the bucket, and no other.
LEMMA ListReposExact ==
  ASSUME IInv PROVE ListRepos = repos
<1>1. ASSUME NEW r \in RepoId PROVE r \in Seq(STRING) /\ Len(r) > 0
  <2>1. PICK f \in File : r = GetRepoId(f) /\ r # NoRepo
    BY DEF RepoId
  <2>2. /\ f \in Seq(STRING) /\ r = SubSeq(f, Len(Base) + 1, Len(Base) + Depth)
        /\ Len(f) >= Len(Base) + Depth
    BY <2>1, SnapshotsAssumption DEF GetRepoId
  <2> QED  BY <2>2, SnapshotsAssumption
<1>2. ASSUME NEW r \in RepoId
      PROVE /\ Last(Append(r, "config")) = "config" /\ Front(Append(r, "config")) = r
            /\ Len(Append(r, "config")) > 1
            /\ Last(Append(Append(r, "snapshots"), "id")) # "config"
  BY <1>1 DEF Last, Front
<1> DEFINE Config(r) == Append(r, "config")
<1>3. repos \subseteq RepoId /\ \A s \in snaps : s.repo \in RepoId
  BY DEF IInv, TypeOK, SnapshotType
<1>4. ASSUME NEW x \in Objects, Last(x) = "config" PROVE \E r \in repos : x = Config(r)
  BY <1>2, <1>3, <1>4 DEF Objects
<1>5. ASSUME NEW r \in repos
      PROVE /\ Config(r) \in Objects /\ Last(Config(r)) = "config" /\ Len(Config(r)) > 1
            /\ Front(Config(r)) = r
  BY <1>2, <1>3 DEF Objects
<1> HIDE DEF Config
<1> QED  BY <1>4, <1>5, Zenon DEF ListRepos

\* status tells the truth about every repository.
THEOREM StatusIsTrue == Spec => []StatusTrue
<1>1. ASSUME IInv PROVE StatusTrue
  <2> SUFFICES ASSUME NEW r \in repos
               PROVE  LastTime(Of(r)) = LastTime({s \in taken : s.repo = r})
    BY <1>1, ListReposExact DEF StatusTrue, CmdStatus
  <2> DEFINE T == {s \in taken : s.repo = r}
  <2>0. Of(r) \subseteq T /\ \A s \in T : s.time \in Nat /\ s.time # 0
    BY <1>1 DEF IInv, Of, Recorded
  <2>1. CASE T = {}
    BY <2>0, <2>1
  <2>2. CASE T # {}
    <3>1. PICK m \in T : \A t \in T : t.time <= m.time
      BY <1>1, <2>2 DEF IInv, HasNewest
    <3>2. m \in Of(r)
      BY <1>1, <3>1, <2>0, SnapshotsAssumption DEF IInv, Superseded, Of
    <3>3. Newest(T) \in T /\ \A t \in T : t.time <= Newest(T).time
      BY <3>1 DEF Newest
    <3>4. Newest(Of(r)) \in Of(r) /\ \A t \in Of(r) : t.time <= Newest(Of(r)).time
      BY <3>1, <3>2, <2>0 DEF Newest
    <3>5. Newest(T).time = m.time /\ Newest(Of(r)).time = m.time
      <4> HIDE DEF T
      <4> QED  BY <3>1, <3>2, <3>3, <3>4, <2>0
    <3> QED  BY <3>2, <3>5 DEF LastTime
  <2> QED  BY <2>1, <2>2
<1> QED  BY <1>1, Inductive, PTL

-----------------------------------------------------------------------------
(***************************************************************************)
(* What a restore without -s finds.  RestoreFinds fails when the newest    *)
(* snapshot of the repository lacks the file; it fails for no other        *)
(* reason, although prune removes snapshots in between.                    *)
(***************************************************************************)

\* A repository gets one snapshot a day at most.
OneADay == \A s, t \in taken : s.repo = t.repo /\ s.time = t.time => s = t

\* s is the last snapshot of its repository ever taken.
IsLast(s) == \A t \in taken : t.repo = s.repo => t.time <= s.time

\* The last snapshot of a repository has every file that a kept one has.
LastIsWhole == \A s \in snaps : \A m \in taken :
                   m.repo = s.repo /\ IsLast(m) => s.tree \subseteq m.tree

\* The last snapshot of a repository is restored from.
LastRestored == \A m \in taken : IsLast(m) => \A f \in m.tree :
                    CmdRestore(f, Latest).done /\ f \in CmdRestore(f, Latest).files

LEMMA OneADayStep == IInv /\ OneADay /\ [Next]_vars => OneADay'
<1> SUFFICES ASSUME IInv, OneADay, [Next]_vars PROVE OneADay'
  OBVIOUS
<1>1. ASSUME UNCHANGED taken PROVE OneADay'
  BY <1>1 DEF OneADay
<1>2. ASSUME NEW n \in Node, NEW r \in RepoId, BackupRepo(n, r) PROVE OneADay'
  <2>1. ASSUME NEW P, NEW T, taken' = taken \cup {Snapshot(n, r, P, T)} PROVE OneADay'
    <3> DEFINE new == Snapshot(n, r, P, T)
    <3>1. new.time = now /\ new.repo = r
      BY DEF Snapshot
    <3>2. \A s \in taken : s.repo = r => s.time # now
      <4> SUFFICES ASSUME NEW s \in taken, s.repo = r, s.time = now PROVE FALSE
        OBVIOUS
      <4>1. s \in snaps
        BY SnapshotsAssumption DEF IInv, Superseded, Recorded, TypeOK
      <4> QED  BY <1>2, <4>1 DEF BackupRepo, Of, IInv, TypeOK
    <3> HIDE DEF new
    <3> QED  BY <2>1, <3>1, <3>2 DEF OneADay, new
  <2> QED  BY <1>1, <1>2, <2>1, Zenon DEF BackupRepo
<1>3. ASSUME NEW f \in File, Modify(f) \/ Delete(f) PROVE OneADay'
  BY <1>1, <1>3 DEF Modify, Delete
<1>4. ASSUME NEW r \in RepoId, BackupFails(r) \/ PruneRepo(r) PROVE OneADay'
  BY <1>1, <1>4 DEF BackupFails, PruneRepo
<1>5. CASE Day \/ UNCHANGED vars
  BY <1>1, <1>5 DEF Day, vars
<1> QED  BY <1>2, <1>3, <1>4, <1>5, Zenon DEF Next

\* restic's latest snapshot is the last one taken: no prune removes it, and no
\* other has its time.
LEMMA LatestIsLast ==
  ASSUME IInv, OneADay, NEW m \in taken, IsLast(m)
  PROVE  Selected(m.repo, Latest) = {m}
<1> DEFINE r == m.repo
<1>1. m \in Of(r)
  BY SnapshotsAssumption DEF IInv, Superseded, Recorded, IsLast, Of
<1>2. \A t \in Of(r) : t \in taken /\ t.repo = r /\ t.time \in Nat /\ t.time <= m.time
  BY DEF IInv, Recorded, Of, IsLast
<1>3. Newest(Of(r)) \in Of(r) /\ m.time <= Newest(Of(r)).time
  <2>1. \E s \in Of(r) : \A t \in Of(r) : t.time <= s.time
    BY <1>1, <1>2
  <2> QED  BY <1>1, <2>1 DEF Newest
<1> HIDE DEF r
<1>4. Newest(Of(r)).time = m.time
  BY <1>1, <1>2, <1>3
<1>5. Newest(Of(r)) = m
  BY <1>1, <1>2, <1>3, <1>4 DEF OneADay
<1>6. Selected(r, Latest) = {m}
  BY <1>1, <1>5 DEF Selected
<1> QED  BY <1>6 DEF r

\* cmd_restore without -s succeeds and restores the file if the last snapshot
\* taken of its repository holds it, whatever was pruned.
THEOREM LastIsRestored == Spec => []LastRestored
<1>1. Init => OneADay
  BY DEF Init, OneADay
<1>2. IInv /\ OneADay => LastRestored
  <2> SUFFICES ASSUME IInv, OneADay, NEW m \in taken, IsLast(m), NEW f \in m.tree
               PROVE  CmdRestore(f, Latest).done /\ f \in CmdRestore(f, Latest).files
    BY DEF LastRestored
  <2>1. f \in Seq(STRING) /\ m.repo = GetRepoId(f)
    BY SnapshotsAssumption DEF IInv, TypeOK, SnapshotType
  <2>2. Selected(GetRepoId(f), Latest) = {m}
    BY <2>1, LatestIsLast
  <2>3. Under(f, f)
    BY <2>1 DEF Under
  <2> QED  BY <2>2, <2>3 DEF CmdRestore
<1> QED  BY <1>1, <1>2, OneADayStep, Inductive, PTL DEF Spec

\* A restore without -s that reports success has restored the file, as long as
\* the last snapshot of every repository holds what the kept ones hold: the
\* markers of a run that are fewer than the files of the repository are the
\* only reason for a success without the file.
THEOREM RestoreFindsIfWhole == Spec => [](LastIsWhole => RestoreFinds)
<1>1. IInv /\ LastRestored => (LastIsWhole => RestoreFinds)
  <2> SUFFICES ASSUME IInv, LastRestored, LastIsWhole, NEW s \in snaps, NEW f \in s.tree
               PROVE  f \in CmdRestore(f, Latest).files
    BY DEF RestoreFinds
  <2>1. PICK m \in taken : m.repo = s.repo /\ IsLast(m)
    BY DEF IInv, Recorded, HasNewest, IsLast
  <2>2. f \in m.tree
    BY <2>1 DEF LastIsWhole
  <2> QED  BY <2>1, <2>2 DEF LastRestored
<1> QED  BY <1>1, LastIsRestored, Inductive, PTL

=============================================================================
