------------------------------- MODULE Backup -------------------------------
(***************************************************************************)
(* backup-run and backup-prune (backup/backup.py, backup/prune.py): runs   *)
(* on several nodes that share the Redis lock "backup:lock" and the hashes *)
(* "pending" (written by the consumers) and "processing".                  *)
(*                                                                         *)
(* A backup run takes the lock, moves "pending" to "processing" (or        *)
(* resumes a "processing" that a dead run left), distributes the paths     *)
(* over repositories, runs restic for each repository in a thread pool,    *)
(* puts the paths of failed repositories back into "pending", deletes      *)
(* "processing" and releases the lock.  Every Redis call is a step of its  *)
(* own and may fail before or after it took effect; the process may be     *)
(* killed between any two steps.                                           *)
(*                                                                         *)
(* Redis, restic with its store, the file system and the consumers' writes *)
(* are external and modelled as the code uses them.                        *)
(***************************************************************************)
EXTENDS Markers, FiniteSets

CONSTANTS
    Node,               \* Backup runs (one per node or terminal)
    Pruner,             \* Prune runs
    Free,               \* The lock key does not exist
    Repo,               \* Repositories
    NoRepo,             \* get_repo_id returned None
    RepoOf,             \* get_repo_id, for every path
    Workers,            \* backup.workers
    MaxRetries,         \* max_retries of backup_repo
    Overrun,            \* A run may outlive LOCK_TTL (nothing kills it first)
    Budget              \* Bound on changes and on faults of each kind

Fault == {"change", "redis", "restic", "partial", "kill"}
Runner == Node \cup Pruner

ASSUME BackupAssumption ==
    /\ IsFiniteSet(Path)
    /\ Free \notin Runner
    /\ Node \cap Pruner = {}
    /\ NoRepo \notin Repo
    /\ RepoOf \in [Path -> Repo \cup {NoRepo}]
    /\ Workers \in Nat \ {0}
    /\ MaxRetries \in Nat \ {0}
    /\ Overrun \in BOOLEAN
    /\ Budget \in [Fault -> Nat]

VARIABLES
    \* Redis
    pending,            \* Keys of the hash "pending"
    processing,         \* Keys of the hash "processing"
    lock,               \* Value of "backup:lock"
    last_run,           \* The hash "backup:last_run"
    \* The runs
    pc,                 \* Where in run_backup (or prune's main) a run is
    tasks,              \* tasks[n]: the paths of the dictionary tasks
    job,                \* job[n][r]: the future of repository r
    existing,           \* existing[n]: paths the workers found and go on with
    attempt,            \* attempt[n][r]: number of the restic call
    total,              \* total[n]: the counters of the run
    \* The file system and what restic stored
    present,            \* Paths that exist
    dirty,              \* Paths whose current content is in no snapshot
    unread,             \* Dirty paths restic skipped (code 3) since they changed
    budget              \* Changes and faults that may still happen

redis == <<pending, processing, lock, last_run>>
run == <<tasks, job, existing, attempt, total>>
files == <<present, dirty, unread>>
vars == <<pending, processing, lock, last_run, pc, tasks, job, existing,
          attempt, total, present, dirty, unread, budget>>

RunPC == {"check", "rename", "hscan", "pool", "restore", "delete", "record",
          "release"}
JobState == {"none", "queued", "init", "restic", "done", "failed"}
Counters == [backed_up : Nat, skipped : Nat, errors : Nat]
Zero == [backed_up |-> 0, skipped |-> 0, errors |-> 0]

Init ==
    /\ pending = {}
    /\ processing = {}
    /\ lock = Free
    /\ last_run = Zero
    /\ pc = [n \in Runner |-> "idle"]
    /\ tasks = [n \in Node |-> {}]
    /\ job = [n \in Node |-> [r \in Repo |-> "none"]]
    /\ existing = [n \in Node |-> {}]
    /\ attempt = [n \in Node |-> [r \in Repo |-> 0]]
    /\ total = [n \in Node |-> Zero]
    /\ present \in SUBSET Path
    /\ dirty = {}
    /\ unread = {}
    /\ budget = Budget

Spend(f) == /\ budget[f] > 0
            /\ budget' = [budget EXCEPT ![f] = @ - 1]

Goto(n, l) == pc' = [pc EXCEPT ![n] = l]

At(n, l) == pc[n] = l

\* The process of n ends: its memory is gone.
Exit(n) ==
    /\ Goto(n, "idle")
    /\ tasks' = [m \in Node |-> IF m = n THEN {} ELSE tasks[m]]
    /\ job' = [m \in Node |-> IF m = n THEN [r \in Repo |-> "none"] ELSE job[m]]
    /\ existing' = [m \in Node |-> IF m = n THEN {} ELSE existing[m]]
    /\ attempt' = [m \in Node |-> IF m = n THEN [r \in Repo |-> 0] ELSE attempt[m]]
    /\ total' = [m \in Node |-> IF m = n THEN Zero ELSE total[m]]

-----------------------------------------------------------------------------
(***************************************************************************)
(* The file system, with the marker its event leaves in "pending".         *)
(***************************************************************************)

\* A file is created or modified.
Modify(p) ==
    /\ Spend("change")
    /\ pending' = pending \cup {p}
    /\ present' = present \cup {p}
    /\ dirty' = dirty \cup {p}
    /\ unread' = unread \ {p}
    /\ UNCHANGED <<processing, lock, last_run, pc, run>>

\* A file is renamed, over another one perhaps.
Rename(p, q) ==
    /\ Spend("change")
    /\ p # q
    /\ p \in present
    /\ pending' = (pending \ {p}) \cup {q}
    /\ present' = (present \ {p}) \cup {q}
    /\ dirty' = (dirty \ {p}) \cup {q}
    /\ unread' = unread \ {p, q}
    /\ UNCHANGED <<processing, lock, last_run, pc, run>>

\* A file is deleted: nothing is left to back up, and no marker is touched.
Delete(p) ==
    /\ Spend("change")
    /\ p \in present
    /\ present' = present \ {p}
    /\ dirty' = dirty \ {p}
    /\ unread' = unread \ {p}
    /\ UNCHANGED <<redis, pc, run>>

-----------------------------------------------------------------------------
(***************************************************************************)
(* The lock.                                                               *)
(***************************************************************************)

\* Mutant: SET without NX.
CanAlwaysAcquire == TRUE

\* SET backup:lock NX EX
CanAcquire == lock = Free

AcquireLock(n) ==
    /\ At(n, "idle")
    /\ CanAcquire
    /\ lock' = n
    /\ Goto(n, IF n \in Node THEN "check" ELSE "prune")
    /\ UNCHANGED <<pending, processing, last_run, run, files, budget>>

\* The key was set but the answer is lost: the run ends with an exception
\* outside of its try block and the key stays.
AcquireLost(n) ==
    /\ At(n, "idle")
    /\ CanAcquire
    /\ Spend("redis")
    /\ lock' = n
    /\ UNCHANGED <<pending, processing, last_run, pc, run, files>>

\* DEL backup:lock, whoever holds it; the run is over.
ReleaseLock(n) ==
    /\ At(n, "release")
    /\ lock' = Free
    /\ Exit(n)
    /\ UNCHANGED <<pending, processing, last_run, files, budget>>

\* Mutant: SET without EX.
NeverExpires(n) == FALSE

\* A lock whose run is gone expires.  A run that systemd started is killed
\* after TimeoutStartSec, which is not longer than the lock's time to live; a
\* run started by hand is not, and its lock expires under it.
MayExpire(n) == Overrun \/ At(n, "idle")

Expire ==
    /\ \E n \in Runner : lock = n /\ MayExpire(n)
    /\ lock' = Free
    /\ UNCHANGED <<pending, processing, last_run, pc, run, files, budget>>

-----------------------------------------------------------------------------
(***************************************************************************)
(* _run_backup_inner up to the thread pool.                                *)
(***************************************************************************)

\* EXISTS processing
CheckProcessing(n) ==
    /\ At(n, "check")
    /\ Goto(n, IF processing # {} THEN "hscan" ELSE "rename")
    /\ UNCHANGED <<redis, run, files, budget>>

\* RENAME pending processing, which replaces a "processing" that exists.
Swap == /\ processing' = pending
        /\ pending' = {}

RenamePending(n) ==
    /\ At(n, "rename")
    /\ \/ /\ pending # {}
          /\ Swap
          /\ Goto(n, "hscan")
       \/ /\ pending = {}               \* ResponseError: nothing to do
          /\ Goto(n, "release")
          /\ UNCHANGED <<pending, processing>>
    /\ UNCHANGED <<lock, last_run, run, files, budget>>

\* The paths of P that belong to some repository, and those of repository r.
Mapped(P) == {p \in P : RepoOf[p] # NoRepo}
Of(P, r) == {p \in P : RepoOf[p] = r}

\* HSCAN and the distribution over repositories.
Hscan(n) ==
    /\ At(n, "hscan")
    /\ tasks' = [tasks EXCEPT ![n] = Mapped(processing)]
    /\ job' = [job EXCEPT ![n] =
                  [r \in Repo |-> IF Of(processing, r) # {} THEN "queued" ELSE "none"]]
    /\ Goto(n, "pool")
    /\ UNCHANGED <<redis, existing, attempt, total, files, budget>>

-----------------------------------------------------------------------------
(***************************************************************************)
(* backup_repo, one job of the thread pool.                                *)
(***************************************************************************)
Busy(n) == {r \in Repo : job[n][r] \in {"init", "restic"}}

SetJob(n, r, s) == job' = [job EXCEPT ![n][r] = s]

\* Mutant: the errors of a repository replace those counted before.
CountLast(n, b, s, e) ==
    total' = [total EXCEPT ![n] = [backed_up |-> @.backed_up + b,
                                   skipped   |-> @.skipped + s,
                                   errors    |-> e]]

\* The main thread adds the result of a job to its counters.
Count(n, b, s, e) ==
    total' = [total EXCEPT ![n] = [backed_up |-> @.backed_up + b,
                                   skipped   |-> @.skipped + s,
                                   errors    |-> @.errors + e]]

\* A worker takes the job and asks for the repository.
Submit(n, r) ==
    /\ At(n, "pool")
    /\ job[n][r] = "queued"
    /\ Cardinality(Busy(n)) < Workers
    /\ SetJob(n, r, "init")
    /\ UNCHANGED <<redis, pc, tasks, existing, attempt, total, files, budget>>

\* RepoManager.ensure fails: neither "cat config" nor "init" succeeded.
EnsureFail(n, r) ==
    /\ job[n][r] = "init"
    /\ Spend("restic")
    /\ SetJob(n, r, "failed")
    /\ Count(n, 0, 0, Cardinality(Of(tasks[n], r)))
    /\ UNCHANGED <<redis, pc, tasks, existing, attempt, files>>

\* What the filter keeps of the paths P.
Existing(P) == P \cap present

\* The repository exists or was made; the files that exist are selected.
EnsureFilter(n, r) ==
    /\ job[n][r] = "init"
    /\ LET e == Existing(Of(tasks[n], r)) IN
       /\ existing' = [existing EXCEPT ![n] = @ \cup e]
       /\ attempt' = [attempt EXCEPT ![n][r] = 1]
       /\ SetJob(n, r, IF e = {} THEN "done" ELSE "restic")
       /\ IF e = {} THEN Count(n, 0, Cardinality(Of(tasks[n], r)), 0)
                    ELSE UNCHANGED total
    /\ UNCHANGED <<redis, pc, tasks, files, budget>>

\* restic stored the files R of repository r and the job returns.
Stored(n, r, R) ==
    /\ job[n][r] = "restic"
    /\ SetJob(n, r, "done")
    /\ Count(n, Cardinality(Of(existing[n], r)),
                Cardinality(Of(tasks[n], r) \ existing[n]), 0)
    /\ dirty' = dirty \ R
    /\ unread' = (unread \cup (Of(existing[n], r) \cap dirty)) \ R
    /\ UNCHANGED <<redis, pc, tasks, existing, attempt, present>>

\* The selected files of repository r that still exist.
Left(n, r) == Of(existing[n], r) \cap present

\* Return code 0: every file was read.
ResticOk(n, r) ==
    /\ Left(n, r) = Of(existing[n], r)
    /\ Stored(n, r, Left(n, r))
    /\ UNCHANGED budget

\* Return code 3, a success as well: some files are gone since they were
\* selected, or restic could not read them.
ResticPartial(n, r) ==
    /\ Left(n, r) # {}
    /\ \/ /\ Left(n, r) # Of(existing[n], r)
          /\ Stored(n, r, Left(n, r))
          /\ UNCHANGED budget
       \/ /\ \E R \in SUBSET Left(n, r) : R # Left(n, r) /\ Stored(n, r, R)
          /\ Spend("partial")

\* Mutant: one call too many.
MayRetryOnceMore(n, r) == attempt[n][r] <= MaxRetries

\* The loop over the attempts has another turn.
MayRetry(n, r) == attempt[n][r] < MaxRetries

\* Any other return code, which is certain when no file is left: sleep and
\* try again, or give up.
ResticFail(n, r) ==
    /\ job[n][r] = "restic"
    /\ \/ Left(n, r) = {} /\ UNCHANGED budget
       \/ Left(n, r) # {} /\ Spend("restic")
    /\ \/ /\ MayRetry(n, r)
          /\ attempt' = [attempt EXCEPT ![n][r] = @ + 1]
          /\ UNCHANGED <<job, total>>
       \/ /\ ~MayRetry(n, r)
          /\ SetJob(n, r, "failed")
          /\ Count(n, 0, Cardinality(Of(tasks[n], r) \ existing[n]),
                         Cardinality(Of(existing[n], r)))
          /\ UNCHANGED attempt
    /\ UNCHANGED <<redis, pc, tasks, existing, files>>

\* restic exceeds its timeout (or the worker raises): no retry, the exception
\* reaches the main thread, which counts the whole repository as failed.
ResticTimeout(n, r) ==
    /\ job[n][r] = "restic"
    /\ Spend("restic")
    /\ SetJob(n, r, "failed")
    /\ Count(n, 0, 0, Cardinality(Of(tasks[n], r)))
    /\ UNCHANGED <<redis, pc, tasks, existing, attempt, files>>

-----------------------------------------------------------------------------
(***************************************************************************)
(* The rest of _run_backup_inner.                                          *)
(***************************************************************************)
Finished(n) == \A r \in Repo : job[n][r] \in {"none", "done", "failed"}

\* The paths of failed_repos.
FailedPaths(n) == {p \in tasks[n] : job[n][RepoOf[p]] = "failed"}

\* The pool is done.
Join(n) ==
    /\ At(n, "pool")
    /\ Finished(n)
    /\ Goto(n, IF FailedPaths(n) # {} THEN "restore" ELSE "delete")
    /\ UNCHANGED <<redis, run, files, budget>>

\* Mutant: the paths of failed repositories are forgotten.
PutBackNothing(n) == UNCHANGED pending

\* HSET pending path "retry", for every path of a failed repository.
PutBack(n) == pending' = pending \cup FailedPaths(n)

Restore(n) ==
    /\ At(n, "restore")
    /\ PutBack(n)
    /\ Goto(n, "delete")
    /\ UNCHANGED <<processing, lock, last_run, run, files, budget>>

\* DEL processing
DeleteProcessing(n) ==
    /\ At(n, "delete")
    /\ processing' = {}
    /\ Goto(n, "record")
    /\ UNCHANGED <<pending, lock, last_run, run, files, budget>>

\* Mutant: the paths of failed repositories are put back once more at the end.
RecordAndPutBack(n) ==
    /\ At(n, "record")
    /\ last_run' = total[n]
    /\ PutBack(n)
    /\ Goto(n, "release")
    /\ UNCHANGED <<processing, lock, run, files, budget>>

\* HSET backup:last_run
RecordRun(n) ==
    /\ At(n, "record")
    /\ last_run' = total[n]
    /\ Goto(n, "release")
    /\ UNCHANGED <<pending, processing, lock, run, files, budget>>

-----------------------------------------------------------------------------
(***************************************************************************)
(* A Redis call raises.  The exception leaves _run_backup_inner and the    *)
(* finally clause releases the lock; the call may have taken effect.       *)
(***************************************************************************)
RedisFail(n) ==
    /\ pc[n] \in {"check", "rename", "hscan", "restore", "delete", "record"}
    /\ Spend("redis")
    /\ Goto(n, "release")
    /\ \/ UNCHANGED <<pending, processing, last_run>>
       \/ /\ At(n, "rename") /\ pending # {}
          /\ Swap
          /\ UNCHANGED last_run
       \/ /\ At(n, "restore")
          /\ PutBack(n)
          /\ UNCHANGED <<processing, last_run>>
       \/ /\ At(n, "delete")
          /\ processing' = {}
          /\ UNCHANGED <<pending, last_run>>
       \/ /\ At(n, "record")
          /\ last_run' = total[n]
          /\ UNCHANGED <<pending, processing>>
    /\ UNCHANGED <<lock, run, files>>

\* The DEL of the lock raises: the lock stays until it expires.
ReleaseFail(n) ==
    /\ At(n, "release")
    /\ Spend("redis")
    /\ Exit(n)
    /\ UNCHANGED <<redis, files>>

\* The process is killed (a signal, the systemd timeout, a power failure).
Kill(n) ==
    /\ ~At(n, "idle")
    /\ Spend("kill")
    /\ Exit(n)
    /\ UNCHANGED <<redis, files>>

\* prune.py: restic forget --prune for every repository, then the finally
\* clause.
Prune(n) ==
    /\ At(n, "prune")
    /\ Goto(n, "release")
    /\ UNCHANGED <<redis, run, files, budget>>

-----------------------------------------------------------------------------
Job(n, r) ==
    \/ Submit(n, r)
    \/ EnsureFail(n, r)
    \/ EnsureFilter(n, r)
    \/ ResticOk(n, r)
    \/ ResticPartial(n, r)
    \/ ResticFail(n, r)
    \/ ResticTimeout(n, r)

BackupStep(n) ==
    \/ CheckProcessing(n)
    \/ RenamePending(n)
    \/ Hscan(n)
    \/ \E r \in Repo : Job(n, r)
    \/ Join(n)
    \/ Restore(n)
    \/ DeleteProcessing(n)
    \/ RecordRun(n)
    \/ RedisFail(n)

LockStep(n) ==
    \/ AcquireLock(n)
    \/ AcquireLost(n)
    \/ ReleaseLock(n)
    \/ ReleaseFail(n)
    \/ Kill(n)

Change ==
    \/ \E p \in Path : Modify(p)
    \/ \E p, q \in Path : Rename(p, q)
    \/ \E p \in Path : Delete(p)

Next ==
    \/ Change
    \/ \E n \in Runner : LockStep(n)
    \/ \E n \in Node : BackupStep(n)
    \/ \E n \in Pruner : Prune(n)
    \/ Expire

Spec == Init /\ [][Next]_vars

(***************************************************************************)
(* A run that holds the lock goes on, expired keys disappear, and the      *)
(* timer starts backup runs again and again: a prune run, which is weekly  *)
(* and no longer than the lock lives, cannot keep them out for ever.       *)
(***************************************************************************)
Fairness ==
    /\ \A n \in Node : WF_vars(BackupStep(n)) /\ WF_vars(ReleaseLock(n))
    /\ \A n \in Pruner : WF_vars(Prune(n)) /\ WF_vars(ReleaseLock(n))
    /\ WF_vars(Expire)
    /\ SF_vars(\E n \in Node : AcquireLock(n))

FairSpec == Spec /\ Fairness

-----------------------------------------------------------------------------
(***************************************************************************)
(* Properties.                                                             *)
(***************************************************************************)
RedisTypeOK ==
    /\ pending \in SUBSET Path
    /\ processing \in SUBSET Path
    /\ lock \in Runner \cup {Free}
    /\ last_run \in Counters

RunTypeOK ==
    /\ pc \in [Runner -> RunPC \cup {"idle", "prune"}]
    /\ tasks \in [Node -> SUBSET Path]
    /\ job \in [Node -> [Repo -> JobState]]
    /\ existing \in [Node -> SUBSET Path]
    /\ attempt \in [Node -> [Repo -> 0..MaxRetries]]
    /\ total \in [Node -> Counters]

FilesTypeOK ==
    /\ present \in SUBSET Path
    /\ dirty \in SUBSET present
    /\ unread \in SUBSET dirty
    /\ budget \in [Fault -> Nat]

\* The variables have their types; restic is never called more than
\* max_retries times for a repository.
TypeOK == RedisTypeOK /\ RunTypeOK /\ FilesTypeOK

\* A run between acquire_lock and the end of release_lock.
InRun(n) == ~At(n, "idle")

\* "동시 실행을 방지합니다": at most one backup or prune run is active on all
\* nodes, whatever runs are killed and whatever answers of Redis are lost.
MutualExclusion ==
    \A m, n \in Runner : InRun(m) /\ InRun(n) => m = n

\* A changed file of a repository keeps a marker in "pending" or "processing"
\* until restic has stored it or reported that it could not read it, in spite
\* of runs that are killed, fail in Redis or restic, and are resumed.
NoLostMarker ==
    \A p \in dirty : \/ p \in pending \cup processing \cup unread
                     \/ RepoOf[p] = NoRepo

\* The counters a run records add up to the paths it had to back up, each
\* counted once, whatever mix of results its repositories had.
Accounting ==
    \A n \in Node : At(n, "record") =>
        total[n].backed_up + total[n].skipped + total[n].errors = Cardinality(tasks[n])

\* A changed file of a repository is stored in the end, or restic reports it
\* as unreadable, or it is gone: a killed run is resumed, a failed repository
\* is retried by a later run, an abandoned lock expires.
EventuallyStored ==
    \A p \in Path : RepoOf[p] # NoRepo =>
        (p \in dirty ~> (p \notin dirty \/ p \in unread))

(***************************************************************************)
(* The abstract specification: the two hashes are one set of markers.      *)
(***************************************************************************)
Service == INSTANCE BackupService WITH
               marked   <- pending \cup processing,
               Unmapped <- {p \in Path : RepoOf[p] = NoRepo}

\* The runs keep the promise of BackupService: moving the markers between the
\* hashes, failing, retrying, dying and resuming never drops the marker of a
\* file that still needs it, never brings back a marker that is gone, and never
\* stores a file no marker asks for.
ImplementsService == Service!Spec

=============================================================================
