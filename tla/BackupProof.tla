---------------------------- MODULE BackupProof ----------------------------
(***************************************************************************)
(* For any number of runs, repositories, paths and faults: the types of    *)
(* Backup, the counters of a run and, if no run outlives the lock it       *)
(* holds, mutual exclusion of the runs and the safety of the markers.      *)
(***************************************************************************)
EXTENDS Backup, FiniteSetTheorems, TLAPS

-----------------------------------------------------------------------------
\* A set of paths has a size.
LEMMA PathCount ==
    ASSUME NEW S \in SUBSET Path
    PROVE  Cardinality(S) \in Nat
  BY BackupAssumption, FS_Subset, FS_CardinalityType

\* Adding the result of a job keeps the counters counters.
LEMMA CountType ==
    ASSUME RunTypeOK, NEW n \in Node, NEW b \in Nat, NEW s \in Nat, NEW e \in Nat,
           Count(n, b, s, e)
    PROVE  total' \in [Node -> Counters]
<1>1. /\ total[n].backed_up + b \in Nat
      /\ total[n].skipped + s \in Nat
      /\ total[n].errors + e \in Nat
  BY DEF RunTypeOK, Counters
<1>. QED  BY <1>1 DEF Count, RunTypeOK, Counters

\* Every step keeps the types of what is in Redis.
LEMMA RedisTypeStep ==
    ASSUME TypeOK, [Next]_vars
    PROVE  RedisTypeOK'
<1>. USE DEF TypeOK, RedisTypeOK
<1>1. ASSUME Change PROVE RedisTypeOK'
  BY <1>1 DEF Change, Modify, Rename, Delete, redis
<1>2. ASSUME NEW n \in Runner, LockStep(n) PROVE RedisTypeOK'
  BY <1>2 DEF LockStep, AcquireLock, AcquireLost, ReleaseLock, ReleaseFail, Kill, redis
<1>3. ASSUME NEW n \in Node, BackupStep(n) PROVE RedisTypeOK'
  <2>1. CASE \E r \in Repo : Job(n, r)
    BY <2>1 DEF Job, Submit, EnsureFail, EnsureFilter, ResticOk, ResticPartial,
                Stored, ResticFail, MayRetry, ResticTimeout, redis
  <2>2. FailedPaths(n) \in SUBSET Path /\ total[n] \in Counters
    BY DEF FailedPaths, RunTypeOK
  <2>3. CASE CheckProcessing(n) \/ Hscan(n) \/ Join(n)
    BY <2>3 DEF CheckProcessing, Hscan, Join, redis
  <2>4. CASE RenamePending(n) \/ Restore(n) \/ DeleteProcessing(n) \/ RecordRun(n)
    BY <2>2, <2>4 DEF RenamePending, Swap, Restore, PutBack, DeleteProcessing, RecordRun
  <2>5. CASE RedisFail(n)
    BY <2>2, <2>5 DEF RedisFail, Swap, PutBack
  <2>. QED  BY <1>3, <2>1, <2>3, <2>4, <2>5 DEF BackupStep
<1>4. ASSUME NEW n \in Pruner, Prune(n) PROVE RedisTypeOK'
  BY <1>4 DEF Prune, redis
<1>5. ASSUME Expire PROVE RedisTypeOK'
  BY <1>5 DEF Expire
<1>6. ASSUME UNCHANGED vars PROVE RedisTypeOK'
  BY <1>6 DEF vars
<1>. QED  BY <1>1, <1>2, <1>3, <1>4, <1>5, <1>6 DEF Next

\* Every step keeps the types of the file system.
LEMMA FilesTypeStep ==
    ASSUME TypeOK, [Next]_vars
    PROVE  FilesTypeOK'
<1>. USE BackupAssumption DEF TypeOK, FilesTypeOK, Fault, Spend
<1>1. ASSUME Change PROVE FilesTypeOK'
  BY <1>1 DEF Change, Modify, Rename, Delete
<1>2. ASSUME NEW n \in Runner, LockStep(n) PROVE FilesTypeOK'
  BY <1>2 DEF LockStep, AcquireLock, AcquireLost, ReleaseLock, ReleaseFail, Kill, files
<1>3. ASSUME NEW n \in Node, BackupStep(n) PROVE FilesTypeOK'
  <2>1. ASSUME NEW r \in Repo, Job(n, r) PROVE FilesTypeOK'
    <3>1. CASE Submit(n, r) \/ EnsureFilter(n, r)
      BY <3>1 DEF Submit, EnsureFilter, files
    <3>2. CASE EnsureFail(n, r) \/ ResticFail(n, r) \/ ResticTimeout(n, r)
      BY <3>2 DEF EnsureFail, ResticFail, MayRetry, ResticTimeout, files
    <3>3. ASSUME NEW R, Stored(n, r, R), budget' \in [Fault -> Nat] PROVE FilesTypeOK'
      BY <3>3 DEF Stored
    <3>4. CASE ResticOk(n, r)
      BY <3>3, <3>4 DEF ResticOk
    <3>5. CASE ResticPartial(n, r)
      <4>1. budget' \in [Fault -> Nat] /\ \E R : Stored(n, r, R)
        BY <3>5 DEF ResticPartial
      <4>. QED  BY <3>3, <4>1
    <3>. QED  BY <2>1, <3>1, <3>2, <3>4, <3>5 DEF Job
  <2>2. CASE \/ CheckProcessing(n) \/ RenamePending(n) \/ Hscan(n) \/ Join(n)
             \/ Restore(n) \/ DeleteProcessing(n) \/ RecordRun(n)
    BY <2>2 DEF CheckProcessing, RenamePending, Hscan, Join, Restore,
                DeleteProcessing, RecordRun, files
  <2>3. CASE RedisFail(n)
    BY <2>3 DEF RedisFail, files
  <2>. QED  BY <1>3, <2>1, <2>2, <2>3 DEF BackupStep
<1>4. ASSUME NEW n \in Pruner, Prune(n) PROVE FilesTypeOK'
  BY <1>4 DEF Prune, files
<1>5. ASSUME Expire PROVE FilesTypeOK'
  BY <1>5 DEF Expire, files
<1>6. ASSUME UNCHANGED vars PROVE FilesTypeOK'
  BY <1>6 DEF vars
<1>. QED  BY <1>1, <1>2, <1>3, <1>4, <1>5, <1>6 DEF Next

\* Every step keeps the types of the runs.
LEMMA RunTypeStep ==
    ASSUME TypeOK, [Next]_vars
    PROVE  RunTypeOK'
<1>. USE BackupAssumption DEF TypeOK, RunTypeOK, RunPC, JobState, Runner, Goto
<1>1. ASSUME Change PROVE RunTypeOK'
  BY <1>1 DEF Change, Modify, Rename, Delete, run
<1>2. ASSUME NEW n \in Runner, LockStep(n) PROVE RunTypeOK'
  <2>1. CASE AcquireLock(n) \/ AcquireLost(n)
    BY <2>1 DEF AcquireLock, AcquireLost, run
  <2>2. CASE ReleaseLock(n) \/ ReleaseFail(n) \/ Kill(n)
    <3>1. Exit(n)
      BY <2>2 DEF ReleaseLock, ReleaseFail, Kill
    <3>2. Zero \in Counters
      BY DEF Zero, Counters
    <3>. QED  BY <3>1, <3>2 DEF Exit
  <2>. QED  BY <1>2, <2>1, <2>2 DEF LockStep
<1>3. ASSUME NEW n \in Node, BackupStep(n) PROVE RunTypeOK'
  <2>1. ASSUME NEW r \in Repo, Job(n, r) PROVE RunTypeOK'
    <3>. USE <2>1 DEF SetJob
    <3>a. /\ Of(tasks[n], r) \in SUBSET Path /\ Of(existing[n], r) \in SUBSET Path
          /\ Of(tasks[n], r) \ existing[n] \in SUBSET Path
      BY DEF Of
    <3>b. /\ Cardinality(Of(tasks[n], r)) \in Nat
          /\ Cardinality(Of(existing[n], r)) \in Nat
          /\ Cardinality(Of(tasks[n], r) \ existing[n]) \in Nat
      BY <3>a, PathCount
    <3>1. CASE Submit(n, r)
      BY <3>1 DEF Submit
    <3>2. CASE EnsureFail(n, r) \/ ResticTimeout(n, r)
      <4>1. total' \in [Node -> Counters]
        BY <3>2, <3>b, CountType DEF EnsureFail, ResticTimeout
      <4>2. /\ job' = [job EXCEPT ![n][r] = "failed"]
            /\ UNCHANGED <<pc, tasks, existing, attempt>>
        BY <3>2 DEF EnsureFail, ResticTimeout
      <4>. QED  BY <4>1, <4>2
    <3>3. CASE EnsureFilter(n, r)
      <4>1. total' \in [Node -> Counters]
        BY <3>3, <3>b, CountType DEF EnsureFilter
      <4>2. existing' \in [Node -> SUBSET Path]
        BY <3>3, <3>a DEF EnsureFilter, Existing
      <4>3. attempt' \in [Node -> [Repo -> 0..MaxRetries]]
        BY <3>3 DEF EnsureFilter
      <4>. QED  BY <3>3, <4>1, <4>2, <4>3 DEF EnsureFilter
    <3>4. CASE ResticOk(n, r) \/ ResticPartial(n, r)
      <4>1. PICK R : Stored(n, r, R)
        BY <3>4 DEF ResticOk, ResticPartial
      <4>2. total' \in [Node -> Counters]
        BY <4>1, <3>b, CountType DEF Stored
      <4>. QED  BY <4>1, <4>2 DEF Stored
    <3>5. CASE ResticFail(n, r)
      <4>1. total' \in [Node -> Counters]
        BY <3>5, <3>b, CountType DEF ResticFail, MayRetry
      <4>2. /\ \/ /\ attempt[n][r] < MaxRetries
                  /\ attempt' = [attempt EXCEPT ![n][r] = @ + 1]
               \/ attempt' = attempt
            /\ job' = [job EXCEPT ![n][r] = "failed"] \/ job' = job
            /\ UNCHANGED <<pc, tasks, existing>>
        BY <3>5 DEF ResticFail, MayRetry
      <4>3. attempt' \in [Node -> [Repo -> 0..MaxRetries]]
        <5>1. attempt[n] \in [Repo -> 0..MaxRetries] /\ attempt[n][r] \in 0..MaxRetries
          OBVIOUS
        <5>2. attempt[n][r] < MaxRetries => attempt[n][r] + 1 \in 0..MaxRetries
          BY <5>1
        <5>3. CASE /\ attempt[n][r] < MaxRetries
                   /\ attempt' = [attempt EXCEPT ![n][r] = @ + 1]
          BY <5>1, <5>2, <5>3
        <5>4. CASE attempt' = attempt
          BY <5>4
        <5>. QED  BY <4>2, <5>3, <5>4
      <4>4. job' \in [Node -> [Repo -> JobState]]
        <5>1. CASE job' = [job EXCEPT ![n][r] = "failed"]
          BY <5>1
        <5>2. CASE job' = job
          BY <5>2
        <5>. QED  BY <4>2, <5>1, <5>2
      <4>. QED  BY <4>1, <4>2, <4>3, <4>4
    <3>. QED  BY <2>1, <3>1, <3>2, <3>3, <3>4, <3>5 DEF Job
  <2>2. CASE CheckProcessing(n) \/ RenamePending(n)
    BY <2>2 DEF CheckProcessing, RenamePending, run
  <2>3. CASE Hscan(n)
    BY <2>3 DEF Hscan, Mapped, RedisTypeOK
  <2>4. CASE Join(n) \/ Restore(n) \/ DeleteProcessing(n) \/ RecordRun(n) \/ RedisFail(n)
    BY <2>4 DEF Join, Restore, DeleteProcessing, RecordRun, RedisFail, run
  <2>. QED  BY <1>3, <2>1, <2>2, <2>3, <2>4 DEF BackupStep
<1>4. ASSUME NEW n \in Pruner, Prune(n) PROVE RunTypeOK'
  BY <1>4 DEF Prune, run
<1>5. ASSUME Expire PROVE RunTypeOK'
  BY <1>5 DEF Expire, run
<1>6. ASSUME UNCHANGED vars PROVE RunTypeOK'
  BY <1>6 DEF vars
<1>. QED  BY <1>1, <1>2, <1>3, <1>4, <1>5, <1>6 DEF Next

\* The types hold, and restic is called at most max_retries times for a
\* repository in a run (backup_repo).
THEOREM TypeCorrect == Spec => []TypeOK
<1>1. Init => TypeOK
  <2>. SUFFICES ASSUME Init PROVE TypeOK
    OBVIOUS
  <2>. USE BackupAssumption DEF Init
  <2>1. Zero \in Counters  BY DEF Zero, Counters
  <2>2. RedisTypeOK  BY <2>1 DEF RedisTypeOK
  <2>3. RunTypeOK  BY <2>1 DEF RunTypeOK, JobState
  <2>4. FilesTypeOK  BY DEF FilesTypeOK
  <2>. QED  BY <2>2, <2>3, <2>4 DEF TypeOK
<1>2. TypeOK /\ [Next]_vars => TypeOK'
  BY RedisTypeStep, RunTypeStep, FilesTypeStep DEF TypeOK
<1>. QED  BY <1>1, <1>2, PTL DEF Spec

-----------------------------------------------------------------------------
(***************************************************************************)
(* Mutual exclusion, if no run outlives its lock.                          *)
(***************************************************************************)

\* Whoever runs holds the lock.
LockHeld == \A n \in Runner : InRun(n) => lock = n

\* Every step keeps LockHeld: the unconditional DEL of release_lock deletes the
\* lock of the run itself, and only the lock of a dead run expires.
LEMMA LockHeldStep ==
    ASSUME ~Overrun, TypeOK, LockHeld, [Next]_vars
    PROVE  LockHeld'
<1>. USE BackupAssumption DEF TypeOK, RedisTypeOK, RunTypeOK, LockHeld, InRun, At, Goto
<1>1. ASSUME Change PROVE LockHeld'
  BY <1>1 DEF Change, Modify, Rename, Delete, redis
<1>2. ASSUME NEW n \in Runner, LockStep(n) PROVE LockHeld'
  BY <1>2 DEF LockStep, AcquireLock, AcquireLost, CanAcquire, ReleaseLock, ReleaseFail,
              Kill, Exit, redis
<1>3. ASSUME NEW n \in Node, BackupStep(n) PROVE LockHeld'
  <2>1. CASE \E r \in Repo : Job(n, r)
    <3>1. pc' = pc /\ lock' = lock
      BY <2>1 DEF Job, Submit, EnsureFail, EnsureFilter, ResticOk, ResticPartial,
                  Stored, ResticFail, MayRetry, ResticTimeout, redis
    <3>. QED  BY <3>1
  <2>2. CASE \/ CheckProcessing(n) \/ RenamePending(n) \/ Hscan(n) \/ Join(n)
             \/ Restore(n) \/ DeleteProcessing(n) \/ RecordRun(n) \/ RedisFail(n)
    <3>1. /\ pc[n] # "idle" /\ lock' = lock
          /\ \E l \in RunPC : pc' = [pc EXCEPT ![n] = l]
      BY <2>2 DEF CheckProcessing, RenamePending, Hscan, Join, Restore,
                  DeleteProcessing, RecordRun, RedisFail, redis, RunPC
    <3>. QED  BY <3>1 DEF Runner
  <2>. QED  BY <1>3, <2>1, <2>2 DEF BackupStep
<1>4. ASSUME NEW n \in Pruner, Prune(n) PROVE LockHeld'
  BY <1>4 DEF Prune, redis, Runner
<1>5. ASSUME Expire PROVE LockHeld'
  <2>1. PICK n \in Runner : lock = n /\ pc[n] = "idle"
    BY <1>5 DEF Expire, MayExpire
  <2>2. pc' = pc
    BY <1>5 DEF Expire
  <2>. QED  BY <2>1, <2>2
<1>6. ASSUME UNCHANGED vars PROVE LockHeld'
  BY <1>6 DEF vars
<1>. QED  BY <1>1, <1>2, <1>3, <1>4, <1>5, <1>6 DEF Next

\* If every run is killed before its lock expires, as the systemd units see to
\* (TimeoutStartSec), no two backup or prune runs are active at once.
THEOREM RunsExclude ==
    ASSUME ~Overrun
    PROVE  Spec => []MutualExclusion
<1>1. Init => LockHeld
  BY DEF Init, LockHeld, InRun, At
<1>2. TypeOK /\ LockHeld /\ [Next]_vars => LockHeld'
  BY LockHeldStep
<1>3. LockHeld => MutualExclusion
  BY DEF LockHeld, MutualExclusion
<1>. QED  BY <1>1, <1>2, <1>3, TypeCorrect, PTL DEF Spec

-----------------------------------------------------------------------------
(***************************************************************************)
(* No marker is lost, if no run outlives its lock.  Deleting "processing"  *)
(* is safe because of what the jobs of the run have established (JobsSafe) *)
(* about every path in it (Covered); moving "pending" over it is safe      *)
(* because it is empty then (SwapEmpty) and no other run has jobs whose    *)
(* paths were put back into "pending" (Memory).                            *)
(***************************************************************************)
Working == {"pool", "restore", "delete"}

\* Only a run past HSCAN has tasks, and only a run in the pool has open jobs.
Memory ==
    \A n \in Node :
        /\ pc[n] \notin Working \cup {"record", "release"} => tasks[n] = {}
        /\ pc[n] # "pool" => Finished(n)

SwapEmpty == \A n \in Node : pc[n] = "rename" => processing = {}

\* A run has a job for every path of "processing" that has a repository.
Covered ==
    \A n \in Node : pc[n] \in Working =>
        /\ Mapped(processing) \subseteq tasks[n]
        /\ \A p \in tasks[n] : RepoOf[p] \in Repo /\ job[n][RepoOf[p]] # "none"

Safe(p) == p \in pending \cup unread

\* Path p of run n, if it is still dirty, has a marker apart from the one in
\* "processing": its job has returned, or it did not exist when its job
\* looked, or the failed jobs' paths have been put back.
JobSafe(n, p) ==
    \/ Safe(p)
    \/ /\ job[n][RepoOf[p]] # "done"
       /\ job[n][RepoOf[p]] = "restic" => p \in existing[n]
       /\ pc[n] # "delete"

JobsSafe == \A n \in Node : \A p \in tasks[n] \cap dirty : JobSafe(n, p)

Inv == TypeOK /\ LockHeld /\ Memory /\ SwapEmpty /\ Covered /\ JobsSafe /\ NoLostMarker

\* While one run is active the others are idle and have no tasks.
LEMMA Alone ==
    ASSUME Inv, NEW n \in Node, InRun(n), NEW m \in Node, m # n
    PROVE  pc[m] = "idle" /\ tasks[m] = {}
<1>1. n \in Runner /\ m \in Runner
  BY DEF Runner
<1>2. ~InRun(m)
  BY <1>1 DEF Inv, LockHeld
<1>3. pc[m] = "idle"
  BY <1>2 DEF InRun, At
<1>. QED  BY <1>3 DEF Inv, Memory, Working

\* A job step belongs to a run in the pool.
LEMMA JobInPool ==
    ASSUME Inv, NEW n \in Node, NEW r \in Repo, Job(n, r)
    PROVE  pc[n] = "pool"
<1>1. At(n, "pool") \/ job[n][r] \in {"init", "restic"}
  BY DEF Job, Submit, EnsureFail, EnsureFilter, ResticOk, ResticPartial, Stored,
         ResticFail, MayRetry, ResticTimeout
<1>. QED  BY <1>1 DEF Inv, Memory, Finished, At

\* A change of the file system keeps the markers of the paths that stay dirty
\* and sets one for the path it makes dirty.
LEMMA ChangeMarks ==
    ASSUME Inv, Change, NEW p \in dirty'
    PROVE  \/ p \in pending'
           \/ p \in dirty /\ (p \in pending => p \in pending')
                          /\ (p \in unread => p \in unread')
<1>1. ASSUME NEW q \in Path, Modify(q) \/ Delete(q)
      PROVE  \/ p \in pending'
             \/ p \in dirty /\ (p \in pending => p \in pending')
                            /\ (p \in unread => p \in unread')
  BY <1>1 DEF Modify, Delete, redis
<1>2. ASSUME NEW q \in Path, NEW s \in Path, Rename(q, s)
      PROVE  \/ p \in pending'
             \/ p \in dirty /\ (p \in pending => p \in pending')
                            /\ (p \in unread => p \in unread')
  BY <1>2 DEF Rename
<1>. QED  BY <1>1, <1>2 DEF Change

\* What a step of the file system preserves.
LEMMA ChangeStep ==
    ASSUME Inv, Change
    PROVE  Memory' /\ SwapEmpty' /\ Covered' /\ JobsSafe' /\ NoLostMarker'
<1>1. UNCHANGED <<processing, lock, pc, tasks, job, existing>>
  BY DEF Change, Modify, Rename, Delete, redis, run
<1>2. Memory' /\ SwapEmpty' /\ Covered'
  BY <1>1 DEF Inv, Memory, SwapEmpty, Covered, Finished, Mapped
<1>3. JobsSafe'
  <2>. SUFFICES ASSUME NEW n \in Node, NEW p \in tasks'[n], p \in dirty'
                PROVE  JobSafe(n, p)'
    BY DEF JobsSafe
  <2>1. CASE p \in pending'
    BY <2>1 DEF JobSafe, Safe
  <2>2. CASE p \in dirty /\ (p \in pending => p \in pending') /\ (p \in unread => p \in unread')
    <3>1. JobSafe(n, p)
      BY <1>1, <2>2 DEF Inv, JobsSafe
    <3>. QED  BY <1>1, <2>2, <3>1 DEF JobSafe, Safe
  <2>. QED  BY <2>1, <2>2, ChangeMarks
<1>4. NoLostMarker'
  BY <1>1, ChangeMarks DEF Inv, NoLostMarker
<1>. QED  BY <1>2, <1>3, <1>4

\* What a step on the lock, a kill and the prune step preserve: markers do not
\* change, and a run that ends forgets its tasks.
LEMMA LockMarkStep ==
    ASSUME Inv,
           \/ \E n \in Runner : LockStep(n)
           \/ \E n \in Pruner : Prune(n)
           \/ Expire
           \/ UNCHANGED vars
    PROVE  Memory' /\ SwapEmpty' /\ Covered' /\ JobsSafe' /\ NoLostMarker'
<1>1. UNCHANGED <<pending, processing, dirty, unread>>
  BY DEF LockStep, AcquireLock, AcquireLost, ReleaseLock, ReleaseFail, Kill, Prune,
         Expire, redis, files, vars
<1>2. NoLostMarker'
  BY <1>1 DEF Inv, NoLostMarker
<1>. DEFINE Keeps(m) == UNCHANGED <<tasks[m], job[m], existing[m]>>
<1>3. ASSUME NEW m \in Node
      PROVE  \/ Keeps(m) /\ pc'[m] = pc[m]
             \/ Keeps(m) /\ pc[m] = "idle" /\ pc'[m] = "check"
             \/ pc'[m] = "idle" /\ tasks'[m] = {} /\ job'[m] = [r \in Repo |-> "none"]
  <2>1. ASSUME NEW n \in Runner, LockStep(n)
        PROVE  \/ Keeps(m) /\ pc'[m] = pc[m]
               \/ Keeps(m) /\ pc[m] = "idle" /\ pc'[m] = "check"
               \/ pc'[m] = "idle" /\ tasks'[m] = {} /\ job'[m] = [r \in Repo |-> "none"]
    <3>1. CASE AcquireLock(n) \/ AcquireLost(n)
      <4>1. Keeps(m)
        BY <3>1 DEF AcquireLock, AcquireLost, run
      <4>2. /\ pc[n] = "idle"
            /\ \/ pc' = [pc EXCEPT ![n] = IF n \in Node THEN "check" ELSE "prune"]
               \/ pc' = pc
        BY <3>1 DEF AcquireLock, AcquireLost, Goto, At
      <4>3. pc \in [Runner -> RunPC \cup {"idle", "prune"}] /\ m \in Runner
        BY DEF Inv, TypeOK, RunTypeOK, Runner
      <4>4. pc'[m] = pc[m] \/ (pc[m] = "idle" /\ pc'[m] = "check")
        BY <4>2, <4>3
      <4>. QED  BY <4>1, <4>4
    <3>2. CASE ReleaseLock(n) \/ ReleaseFail(n) \/ Kill(n)
      <4>1. Exit(n)
        BY <3>2 DEF ReleaseLock, ReleaseFail, Kill
      <4>. QED  BY <4>1 DEF Exit, Goto, Inv, TypeOK, RunTypeOK
    <3>. QED  BY <2>1, <3>1, <3>2 DEF LockStep
  <2>2. ASSUME NEW n \in Pruner, Prune(n)
        PROVE  Keeps(m) /\ pc'[m] = pc[m]
    BY <2>2, BackupAssumption DEF Prune, Goto, run, Inv, TypeOK, RunTypeOK, Runner
  <2>3. ASSUME Expire \/ UNCHANGED vars
        PROVE  Keeps(m) /\ pc'[m] = pc[m]
    BY <2>3 DEF Expire, run, vars
  <2>. QED  BY <2>1, <2>2, <2>3
<1>4. Memory'
  BY <1>3 DEF Inv, Memory, Finished, Working
<1>5. SwapEmpty'
  BY <1>1, <1>3 DEF Inv, SwapEmpty
<1>6. Covered'
  BY <1>1, <1>3 DEF Inv, Covered, Mapped, Working
<1>7. JobsSafe'
  <2>. SUFFICES ASSUME NEW m \in Node, NEW p \in tasks'[m], p \in dirty'
                PROVE  JobSafe(m, p)'
    BY DEF JobsSafe
  <2>1. Keeps(m) /\ (pc'[m] = pc[m] \/ pc'[m] = "check")
    BY <1>3
  <2>2. JobSafe(m, p)
    BY <1>1, <2>1 DEF Inv, JobsSafe
  <2>. QED  BY <1>1, <2>1, <2>2 DEF JobSafe, Safe
<1>. QED  BY <1>2, <1>4, <1>5, <1>6, <1>7

\* What a job step preserves.
LEMMA JobStep ==
    ASSUME Inv, NEW n \in Node, NEW r \in Repo, Job(n, r)
    PROVE  Memory' /\ SwapEmpty' /\ Covered' /\ JobsSafe' /\ NoLostMarker'
<1>1. pc[n] = "pool"
  BY JobInPool
<1>2. UNCHANGED <<pending, processing, pc, tasks>>
  BY DEF Job, Submit, EnsureFail, EnsureFilter, ResticOk, ResticPartial, Stored,
         ResticFail, MayRetry, ResticTimeout, redis
<1>3. ASSUME NEW m \in Node, m # n
      PROVE  pc[m] = "idle" /\ tasks[m] = {} /\ job'[m] = job[m]
  <2>1. pc[m] = "idle" /\ tasks[m] = {}
    BY <1>1, <1>3, Alone DEF InRun, At
  <2>2. \/ job' = job
        \/ \E s \in JobState : job' = [job EXCEPT ![n][r] = s]
    BY DEF Job, Submit, EnsureFail, EnsureFilter, ResticOk, ResticPartial, Stored,
           ResticFail, MayRetry, ResticTimeout, SetJob, JobState
  <2>. QED  BY <1>3, <2>1, <2>2 DEF Inv, TypeOK, RunTypeOK
<1>4. Memory'
  BY <1>1, <1>2, <1>3 DEF Inv, Memory, Finished, Working
<1>5. SwapEmpty'
  BY <1>2 DEF Inv, SwapEmpty
<1>6. \A q \in Repo : job'[n][q] = job[n][q] \/ (q = r /\ job'[n][q] # "none")
  <2>1. \/ job' = job
        \/ \E s \in JobState \ {"none"} : job' = [job EXCEPT ![n][r] = s]
    BY DEF Job, Submit, EnsureFail, EnsureFilter, ResticOk, ResticPartial, Stored,
           ResticFail, MayRetry, ResticTimeout, SetJob, JobState
  <2>. QED  BY <2>1 DEF Inv, TypeOK, RunTypeOK
<1>7. Covered'
  <2>. SUFFICES ASSUME NEW m \in Node, pc'[m] \in Working
                PROVE  /\ Mapped(processing') \subseteq tasks'[m]
                       /\ \A p \in tasks'[m] : /\ RepoOf[p] \in Repo
                                               /\ job'[m][RepoOf[p]] # "none"
    BY DEF Covered, Mapped
  <2>1. m = n
    BY <1>2, <1>3 DEF Working
  <2>. QED  BY <1>2, <1>6, <2>1 DEF Inv, Covered
<1>8. \A p \in dirty' : p \in dirty /\ (p \in unread => p \in unread')
  <2>1. ASSUME NEW R, Stored(n, r, R)
        PROVE  \A p \in dirty' : p \in dirty /\ (p \in unread => p \in unread')
    BY <2>1 DEF Stored
  <2>2. (\E R : Stored(n, r, R)) \/ UNCHANGED files
    BY DEF Job, Submit, EnsureFail, EnsureFilter, ResticOk, ResticPartial,
           ResticFail, MayRetry, ResticTimeout
  <2>. QED  BY <2>1, <2>2 DEF files
<1>9. NoLostMarker'
  BY <1>2, <1>8 DEF Inv, NoLostMarker
<1>10. JobsSafe'
  <2>. SUFFICES ASSUME NEW m \in Node, NEW p \in tasks'[m], p \in dirty'
                PROVE  JobSafe(m, p)'
    BY DEF JobsSafe
  <2>1. m = n /\ p \in tasks[n] /\ p \in dirty /\ RepoOf[p] \in Repo /\ p \in Path
    BY <1>1, <1>2, <1>3, <1>8 DEF Inv, Covered, Working, TypeOK, RunTypeOK
  <2>2. JobSafe(n, p)
    BY <2>1 DEF Inv, JobsSafe
  <2>3. CASE Safe(p)
    BY <1>2, <1>8, <2>3 DEF Safe, JobSafe
  <2>4. CASE ~Safe(p)
    <3>1. /\ job[n][RepoOf[p]] # "done"
          /\ job[n][RepoOf[p]] = "restic" => p \in existing[n]
          /\ pc'[n] # "delete"
      BY <1>1, <1>2, <2>2, <2>4 DEF JobSafe
    <3>2. job \in [Node -> [Repo -> JobState]] /\ existing \in [Node -> SUBSET Path]
      BY DEF Inv, TypeOK, RunTypeOK
    <3>3. CASE Submit(n, r)
      BY <2>1, <3>1, <3>2, <3>3 DEF Submit, SetJob, JobSafe
    <3>4. CASE EnsureFail(n, r) \/ ResticTimeout(n, r)
      <4>1. job' = [job EXCEPT ![n][r] = "failed"] /\ existing' = existing
        BY <3>4 DEF EnsureFail, ResticTimeout, SetJob
      <4>. QED  BY <2>1, <3>1, <3>2, <4>1 DEF JobSafe
    <3>5. CASE EnsureFilter(n, r)
      <4>. DEFINE e == Existing(Of(tasks[n], r))
      <4>1. /\ existing' = [existing EXCEPT ![n] = @ \cup e]
            /\ job' = [job EXCEPT ![n][r] = IF e = {} THEN "done" ELSE "restic"]
        BY <3>5 DEF EnsureFilter, SetJob
      <4>2. p \in present
        BY <2>1 DEF Inv, TypeOK, FilesTypeOK
      <4>3. RepoOf[p] = r => p \in e
        BY <2>1, <4>2 DEF Existing, Of
      <4>. HIDE DEF e
      <4>4. /\ existing[n] \subseteq existing'[n] /\ e \subseteq existing'[n]
            /\ job'[n][r] = IF e = {} THEN "done" ELSE "restic"
            /\ \A q \in Repo \ {r} : job'[n][q] = job[n][q]
        BY <3>2, <4>1
      <4>. QED  BY <2>1, <3>1, <4>3, <4>4 DEF JobSafe
    <3>6. ASSUME NEW R, Stored(n, r, R)
          PROVE  JobSafe(n, p)'
      <4>1. /\ job[n][r] = "restic"
            /\ job' = [job EXCEPT ![n][r] = "done"]
            /\ existing' = existing
            /\ dirty' = dirty \ R
            /\ unread' = (unread \cup (Of(existing[n], r) \cap dirty)) \ R
        BY <3>6 DEF Stored, SetJob
      <4>2. CASE RepoOf[p] = r
        <5>1. p \in Of(existing[n], r)
          BY <3>1, <4>1, <4>2 DEF Of
        <5>2. p \in unread'
          BY <2>1, <4>1, <5>1
        <5>. QED  BY <5>2 DEF JobSafe, Safe
      <4>3. CASE RepoOf[p] # r
        <5>1. job'[n][RepoOf[p]] = job[n][RepoOf[p]]
          BY <2>1, <3>2, <4>1, <4>3
        <5>. QED  BY <3>1, <4>1, <5>1 DEF JobSafe
      <4>. QED  BY <4>2, <4>3
    <3>7. CASE ResticOk(n, r) \/ ResticPartial(n, r)
      <4>1. \E R : Stored(n, r, R)
        BY <3>7 DEF ResticOk, ResticPartial
      <4>. QED  BY <2>1, <3>6, <4>1
    <3>8. CASE ResticFail(n, r)
      <4>1. /\ job' = [job EXCEPT ![n][r] = "failed"] \/ job' = job
            /\ existing' = existing
        BY <3>8 DEF ResticFail, MayRetry, SetJob
      <4>2. \/ job'[n][RepoOf[p]] = job[n][RepoOf[p]]
            \/ job'[n][RepoOf[p]] = "failed"
        BY <2>1, <3>2, <4>1
      <4>. QED  BY <2>1, <3>1, <4>1, <4>2 DEF JobSafe
    <3>. QED  BY <2>1, <3>3, <3>4, <3>5, <3>7, <3>8 DEF Job
  <2>. QED  BY <2>3, <2>4
<1>. QED  BY <1>4, <1>5, <1>7, <1>9, <1>10

\* Deleting "processing" loses nothing when the run is at that step.
LEMMA DeleteSafe ==
    ASSUME Inv, NEW n \in Node, pc[n] = "delete"
    PROVE  \A p \in dirty : Safe(p) \/ RepoOf[p] = NoRepo
<1>. SUFFICES ASSUME NEW p \in dirty, RepoOf[p] # NoRepo PROVE Safe(p)
  OBVIOUS
<1>1. CASE p \in processing
  <2>1. p \in tasks[n]
    BY <1>1 DEF Inv, Covered, Working, Mapped
  <2>2. JobSafe(n, p)
    BY <2>1 DEF Inv, JobsSafe
  <2>. QED  BY <2>2 DEF JobSafe
<1>2. CASE p \notin processing
  BY <1>2 DEF Inv, NoLostMarker, Safe
<1>. QED  BY <1>1, <1>2

\* What a step of a run outside of the pool preserves.
LEMMA RunStep ==
    ASSUME Inv, NEW n \in Node,
           \/ CheckProcessing(n) \/ RenamePending(n) \/ Hscan(n) \/ Join(n)
           \/ Restore(n) \/ DeleteProcessing(n) \/ RecordRun(n) \/ RedisFail(n)
    PROVE  Memory' /\ SwapEmpty' /\ Covered' /\ JobsSafe' /\ NoLostMarker'
<1>. USE DEF At, Goto
<1>0. /\ pc \in [Runner -> RunPC \cup {"idle", "prune"}] /\ n \in Runner
      /\ tasks \in [Node -> SUBSET Path] /\ job \in [Node -> [Repo -> JobState]]
  BY DEF Inv, TypeOK, RunTypeOK, Runner
<1>1. /\ pc[n] # "idle"
      /\ UNCHANGED <<dirty, unread, existing>>
      /\ \E l \in RunPC : pc' = [pc EXCEPT ![n] = l]
  BY DEF CheckProcessing, RenamePending, Hscan, Join, Restore, DeleteProcessing,
         RecordRun, RedisFail, files, run, RunPC
<1>2. ASSUME NEW m \in Node, m # n
      PROVE  /\ pc'[m] = "idle" /\ tasks'[m] = {} /\ job'[m] = job[m] /\ Finished(m)
  <2>1. pc[m] = "idle" /\ tasks[m] = {}
    BY <1>1, <1>2, Alone DEF InRun
  <2>2. /\ tasks' = tasks \/ \E T : tasks' = [tasks EXCEPT ![n] = T]
        /\ job' = job \/ \E T : job' = [job EXCEPT ![n] = T]
    BY DEF CheckProcessing, RenamePending, Hscan, Join, Restore, DeleteProcessing,
           RecordRun, RedisFail, run
  <2>3. pc'[m] = pc[m] /\ tasks'[m] = tasks[m] /\ job'[m] = job[m]
    BY <1>0, <1>1, <1>2, <2>2 DEF Runner
  <2>. QED  BY <2>1, <2>3 DEF Inv, Memory
\* It is enough to look at the run that takes the step.
<1>3. ASSUME pc'[n] \notin Working \cup {"record", "release"} => tasks'[n] = {},
             pc'[n] # "pool" => Finished(n)'
      PROVE  Memory'
  BY <1>2, <1>3 DEF Memory, Finished, Working
<1>4. ASSUME pc'[n] = "rename" => processing' = {}
      PROVE  SwapEmpty'
  BY <1>2, <1>4 DEF SwapEmpty
<1>5. ASSUME pc'[n] \in Working =>
                /\ Mapped(processing') \subseteq tasks'[n]
                /\ \A p \in tasks'[n] : RepoOf[p] \in Repo /\ job'[n][RepoOf[p]] # "none"
      PROVE  Covered'
  <2>. SUFFICES ASSUME NEW m \in Node, pc'[m] \in Working
                PROVE  /\ Mapped(processing') \subseteq tasks'[m]
                       /\ \A p \in tasks'[m] : /\ RepoOf[p] \in Repo
                                               /\ job'[m][RepoOf[p]] # "none"
    BY DEF Covered, Mapped
  <2>1. m = n
    BY <1>2 DEF Working
  <2>. QED  BY <1>5, <2>1
<1>6. ASSUME \A p \in tasks'[n] \cap dirty : JobSafe(n, p)'
      PROVE  JobsSafe'
  <2>. SUFFICES ASSUME NEW m \in Node, NEW p \in tasks'[m], p \in dirty'
                PROVE  JobSafe(m, p)'
    BY DEF JobsSafe
  <2>1. m = n /\ p \in tasks'[n] \cap dirty
    BY <1>1, <1>2
  <2>. QED  BY <1>6, <2>1
<1>7. CASE CheckProcessing(n)
  <2>1. /\ pc[n] = "check" /\ pc' = [pc EXCEPT ![n] = IF processing # {} THEN "hscan" ELSE "rename"]
        /\ UNCHANGED <<pending, processing, tasks, job>>
    BY <1>7 DEF CheckProcessing, redis, run
  <2>2. tasks[n] = {} /\ Finished(n)
    BY <2>1 DEF Inv, Memory, Working
  <2>3. pc'[n] = IF processing # {} THEN "hscan" ELSE "rename"
    BY <1>0, <2>1
  <2>4. Memory'  BY <1>3, <2>1, <2>2 DEF Finished
  <2>5. SwapEmpty'  BY <1>4, <2>1, <2>3
  <2>6. Covered'  BY <1>5, <2>3 DEF Working
  <2>7. JobsSafe'  BY <1>6, <2>1, <2>2
  <2>8. NoLostMarker'  BY <1>1, <2>1 DEF Inv, NoLostMarker
  <2>. QED  BY <2>4, <2>5, <2>6, <2>7, <2>8
<1>8. ASSUME pc[n] = "rename", Swap, UNCHANGED <<tasks, job>>, pc'[n] \in {"hscan", "release"}
      PROVE  Memory' /\ SwapEmpty' /\ Covered' /\ JobsSafe' /\ NoLostMarker'
  <2>1. tasks[n] = {} /\ Finished(n) /\ processing = {}
    BY <1>8 DEF Inv, Memory, SwapEmpty, Working
  <2>2. Memory'  BY <1>3, <1>8, <2>1 DEF Finished
  <2>3. SwapEmpty'  BY <1>4, <1>8
  <2>4. Covered'  BY <1>5, <1>8 DEF Working
  <2>5. JobsSafe'  BY <1>6, <1>8, <2>1
  <2>6. NoLostMarker'  BY <1>1, <1>8, <2>1 DEF Inv, NoLostMarker, Swap
  <2>. QED  BY <2>2, <2>3, <2>4, <2>5, <2>6
\* The run goes to release without touching the hashes.
<1>9. ASSUME UNCHANGED <<pending, processing, tasks, job>>, pc'[n] = "release", pc[n] # "pool"
      PROVE  Memory' /\ SwapEmpty' /\ Covered' /\ JobsSafe' /\ NoLostMarker'
  <2>1. Finished(n)
    BY <1>9 DEF Inv, Memory
  <2>2. Memory'  BY <1>3, <1>9, <2>1 DEF Finished
  <2>3. SwapEmpty'  BY <1>4, <1>9
  <2>4. Covered'  BY <1>5, <1>9 DEF Working
  <2>5. JobsSafe'
    BY <1>1, <1>6, <1>9 DEF Inv, JobsSafe, JobSafe, Safe
  <2>6. NoLostMarker'  BY <1>1, <1>9 DEF Inv, NoLostMarker
  <2>. QED  BY <2>2, <2>3, <2>4, <2>5, <2>6
<1>10. CASE RenamePending(n)
  <2>1. pc[n] = "rename" /\ UNCHANGED <<tasks, job>>
    BY <1>10 DEF RenamePending, run
  <2>2. \/ Swap /\ pc'[n] = "hscan"
        \/ pc'[n] = "release" /\ UNCHANGED <<pending, processing>>
    BY <1>0, <1>10 DEF RenamePending
  <2>. QED  BY <1>8, <1>9, <2>1, <2>2
<1>11. CASE Hscan(n)
  <2>1. /\ pc[n] = "hscan" /\ pc'[n] = "pool"
        /\ tasks'[n] = Mapped(processing)
        /\ job'[n] = [r \in Repo |-> IF Of(processing, r) # {} THEN "queued" ELSE "none"]
        /\ UNCHANGED <<pending, processing>>
    BY <1>0, <1>11 DEF Hscan, redis
  <2>2. processing \in SUBSET Path
    BY DEF Inv, TypeOK, RedisTypeOK
  <2>3. \A p \in tasks'[n] : RepoOf[p] \in Repo /\ job'[n][RepoOf[p]] = "queued"
    BY <2>1, <2>2, BackupAssumption DEF Mapped, Of
  <2>4. Memory'  BY <1>3, <2>1 DEF Working
  <2>5. SwapEmpty'  BY <1>4, <2>1
  <2>6. Covered'  BY <1>5, <2>1, <2>3 DEF Mapped
  <2>7. JobsSafe'  BY <1>6, <2>1, <2>3 DEF JobSafe
  <2>8. NoLostMarker'  BY <1>1, <2>1 DEF Inv, NoLostMarker
  <2>. QED  BY <2>4, <2>5, <2>6, <2>7, <2>8
<1>12. CASE Join(n)
  <2>1. /\ pc[n] = "pool" /\ Finished(n)
        /\ pc'[n] = IF FailedPaths(n) # {} THEN "restore" ELSE "delete"
        /\ UNCHANGED <<pending, processing, tasks, job>>
    BY <1>0, <1>12 DEF Join, redis, run
  <2>2. \A p \in tasks[n] : RepoOf[p] \in Repo /\ job[n][RepoOf[p]] # "none"
    BY <2>1 DEF Inv, Covered, Working
  <2>3. Memory'  BY <1>3, <2>1 DEF Finished, Working
  <2>4. SwapEmpty'  BY <1>4, <2>1
  <2>5. Covered'  BY <1>5, <2>1, <2>2 DEF Inv, Covered, Working, Mapped
  <2>6. ASSUME NEW p \in tasks[n] \cap dirty
        PROVE  JobSafe(n, p)'
    <3>1. JobSafe(n, p)
      BY DEF Inv, JobsSafe
    <3>2. job[n][RepoOf[p]] \in {"done", "failed"}
      BY <2>1, <2>2 DEF Finished
    <3>3. pc'[n] = "delete" => job[n][RepoOf[p]] # "failed"
      BY <2>1 DEF FailedPaths
    <3>. QED  BY <1>1, <2>1, <3>1, <3>2, <3>3 DEF JobSafe, Safe
  <2>7. JobsSafe'  BY <1>6, <2>1, <2>6
  <2>8. NoLostMarker'  BY <1>1, <2>1 DEF Inv, NoLostMarker
  <2>. QED  BY <2>3, <2>4, <2>5, <2>7, <2>8
\* The paths of the failed jobs come back.
<1>13. ASSUME pc[n] = "restore", PutBack(n), pc'[n] \in {"delete", "release"},
              UNCHANGED <<processing, tasks, job>>
       PROVE  Memory' /\ SwapEmpty' /\ Covered' /\ JobsSafe' /\ NoLostMarker'
  <2>1. /\ Finished(n)
        /\ \A p \in tasks[n] : RepoOf[p] \in Repo /\ job[n][RepoOf[p]] # "none"
    BY <1>13 DEF Inv, Memory, Covered, Working
  <2>2. Memory'  BY <1>3, <1>13, <2>1 DEF Finished, Working
  <2>3. SwapEmpty'  BY <1>4, <1>13
  <2>4. Covered'  BY <1>5, <1>13, <2>1 DEF Inv, Covered, Working, Mapped
  <2>5. ASSUME NEW p \in tasks[n] \cap dirty
        PROVE  JobSafe(n, p)'
    <3>1. JobSafe(n, p)
      BY DEF Inv, JobsSafe
    <3>2. job[n][RepoOf[p]] \in {"done", "failed"}
      BY <2>1 DEF Finished
    <3>3. job[n][RepoOf[p]] = "failed" => p \in pending'
      BY <1>13 DEF PutBack, FailedPaths
    <3>. QED  BY <1>1, <1>13, <3>1, <3>2, <3>3 DEF JobSafe, Safe, PutBack
  <2>6. JobsSafe'  BY <1>6, <1>13, <2>5
  <2>7. NoLostMarker'  BY <1>1, <1>13 DEF Inv, NoLostMarker, PutBack
  <2>. QED  BY <2>2, <2>3, <2>4, <2>6, <2>7
<1>14. CASE Restore(n)
  <2>1. /\ pc[n] = "restore" /\ PutBack(n) /\ pc'[n] = "delete"
        /\ UNCHANGED <<processing, tasks, job>>
    BY <1>0, <1>14 DEF Restore, run
  <2>. QED  BY <1>13, <2>1
<1>15. ASSUME pc[n] = "delete", processing' = {}, pc'[n] \in {"record", "release"},
              UNCHANGED <<pending, tasks, job>>
       PROVE  Memory' /\ SwapEmpty' /\ Covered' /\ JobsSafe' /\ NoLostMarker'
  <2>1. Finished(n)
    BY <1>15 DEF Inv, Memory
  <2>2. Memory'  BY <1>3, <1>15, <2>1 DEF Finished, Working
  <2>3. SwapEmpty'  BY <1>4, <1>15
  <2>4. Covered'  BY <1>5, <1>15 DEF Working
  <2>5. JobsSafe'  BY <1>1, <1>6, <1>15 DEF Inv, JobsSafe, JobSafe, Safe
  <2>6. NoLostMarker'  BY <1>1, <1>15, DeleteSafe DEF NoLostMarker, Safe
  <2>. QED  BY <2>2, <2>3, <2>4, <2>5, <2>6
<1>16. CASE DeleteProcessing(n)
  <2>1. /\ pc[n] = "delete" /\ processing' = {} /\ pc'[n] = "record"
        /\ UNCHANGED <<pending, tasks, job>>
    BY <1>0, <1>16 DEF DeleteProcessing, run
  <2>. QED  BY <1>15, <2>1
<1>17. CASE RecordRun(n)
  <2>1. /\ UNCHANGED <<pending, processing, tasks, job>>
        /\ pc'[n] = "release" /\ pc[n] # "pool"
    BY <1>0, <1>17 DEF RecordRun, run
  <2>. QED  BY <1>9, <2>1
<1>18. CASE RedisFail(n)
  <2>1. pc'[n] = "release" /\ pc[n] # "pool" /\ UNCHANGED <<tasks, job>>
    BY <1>0, <1>18 DEF RedisFail, run
  <2>2. \/ UNCHANGED <<pending, processing>>
        \/ pc[n] = "rename" /\ Swap
        \/ pc[n] = "restore" /\ PutBack(n) /\ UNCHANGED processing
        \/ pc[n] = "delete" /\ processing' = {} /\ UNCHANGED pending
    BY <1>18 DEF RedisFail
  <2>. QED  BY <1>8, <1>9, <1>13, <1>15, <2>1, <2>2
<1>. QED  BY <1>7, <1>10, <1>11, <1>12, <1>14, <1>16, <1>17, <1>18

\* If no run outlives its lock, the invariant holds in every state.
LEMMA InvHolds ==
    ASSUME ~Overrun
    PROVE  Spec => []Inv
<1>1. Init => LockHeld /\ Memory /\ SwapEmpty /\ Covered /\ JobsSafe /\ NoLostMarker
  BY DEF Init, LockHeld, InRun, At, Memory, Finished, SwapEmpty, Covered, JobsSafe,
         NoLostMarker, Working, Runner
<1>2. Inv /\ TypeOK' /\ [Next]_vars => Inv'
  <2>. SUFFICES ASSUME Inv, TypeOK', [Next]_vars PROVE Inv'
    OBVIOUS
  <2>1. LockHeld'
    BY LockHeldStep DEF Inv
  <2>2. Memory' /\ SwapEmpty' /\ Covered' /\ JobsSafe' /\ NoLostMarker'
    BY ChangeStep, LockMarkStep, JobStep, RunStep DEF Next, BackupStep
  <2>. QED  BY <2>1, <2>2 DEF Inv
<1>3. TypeOK /\ LockHeld /\ Memory /\ SwapEmpty /\ Covered /\ JobsSafe /\ NoLostMarker => Inv
  BY DEF Inv
<1>. QED  BY <1>1, <1>2, <1>3, TypeCorrect, PTL DEF Spec

\* If no run outlives its lock, a changed file of a repository keeps a marker
\* until restic stored it or reported it (code 3), whatever calls fail and
\* whatever runs are killed and resumed.
THEOREM MarkersSafe ==
    ASSUME ~Overrun
    PROVE  Spec => []NoLostMarker
<1>1. Inv => NoLostMarker
  BY DEF Inv
<1>. QED  BY <1>1, InvHolds, PTL

-----------------------------------------------------------------------------
(***************************************************************************)
(* The counters of a run add up, with or without Overrun: a job adds the   *)
(* paths of its repository once, when it is done or has failed.            *)
(***************************************************************************)

\* The paths of run n whose job has returned.
Counted(n) == {p \in tasks[n] : job[n][RepoOf[p]] \in {"done", "failed"}}

Sum(c) == c.backed_up + c.skipped + c.errors

\* Before HSCAN a run has no tasks and has counted nothing; from then on every
\* path of its tasks has a job, and its counters are those of the jobs that
\* have returned.
RunCounts(n) ==
    /\ pc[n] \notin Working \cup {"record", "release"} =>
           tasks[n] = {} /\ existing[n] = {} /\ total[n] = Zero
    /\ pc[n] # "pool" => Finished(n)
    /\ existing[n] \subseteq tasks[n]
    /\ pc[n] \in Working \cup {"record"} =>
           /\ \A p \in tasks[n] : RepoOf[p] \in Repo /\ job[n][RepoOf[p]] # "none"
           /\ Sum(total[n]) = Cardinality(Counted(n))

CountsKept == \A n \in Node : RunCounts(n)

\* The paths of a repository that exist and those that do not are all of them.
LEMMA SplitCount ==
    ASSUME NEW T \in SUBSET Path, NEW E \in SUBSET T, NEW r \in Repo
    PROVE  Cardinality(Of(E, r)) + Cardinality(Of(T, r) \ E) = Cardinality(Of(T, r))
<1>1. IsFiniteSet(Of(T, r))
  BY BackupAssumption, FS_Subset DEF Of
<1>2. /\ Of(E, r) = Of(T, r) \cap E
      /\ Of(T, r) \ E \in SUBSET Path
      /\ Of(T, r) \cap E \in SUBSET Path
      /\ Of(T, r) \in SUBSET Path
  BY DEF Of
<1>3. Cardinality(Of(T, r) \ E) = Cardinality(Of(T, r)) - Cardinality(Of(T, r) \cap E)
  BY <1>1, FS_Difference
<1>. QED  BY <1>2, <1>3, PathCount

\* Adding a result to the counters adds it to their sum.
LEMMA CountSum ==
    ASSUME RunTypeOK, NEW n \in Node, NEW b \in Nat, NEW s \in Nat, NEW e \in Nat,
           Count(n, b, s, e)
    PROVE  Sum(total'[n]) = Sum(total[n]) + b + s + e
<1>1. total'[n] = [backed_up |-> total[n].backed_up + b, skipped |-> total[n].skipped + s,
                   errors |-> total[n].errors + e]
  BY DEF Count, RunTypeOK
<1>2. total[n].backed_up \in Nat /\ total[n].skipped \in Nat /\ total[n].errors \in Nat
  BY DEF RunTypeOK, Counters
<1>. QED  BY <1>1, <1>2 DEF Sum

\* When the job of repository r returns and its paths are added, the counters
\* are those of the returned jobs again.
LEMMA JobCounted ==
    ASSUME TypeOK, NEW n \in Node, NEW r \in Repo, RunCounts(n), pc[n] = "pool",
           job[n][r] \notin {"done", "failed"},
           NEW s \in {"done", "failed"},
           SetJob(n, r, s), tasks' = tasks,
           NEW x \in Nat, NEW y \in Nat, NEW z \in Nat,
           x + y + z = Cardinality(Of(tasks[n], r)),
           Count(n, x, y, z)
    PROVE  Sum(total'[n]) = Cardinality(Counted(n)')
<1>1. job \in [Node -> [Repo -> JobState]] /\ tasks[n] \in SUBSET Path /\ RunTypeOK
  BY DEF TypeOK, RunTypeOK
<1>2. \A p \in tasks[n] : RepoOf[p] \in Repo
  BY DEF RunCounts, Working
<1>3. /\ job'[n][r] = s
      /\ \A q \in Repo \ {r} : job'[n][q] = job[n][q]
  BY <1>1 DEF SetJob
<1>4. Counted(n)' = Counted(n) \cup Of(tasks[n], r)
  BY <1>2, <1>3 DEF Counted, Of
<1>5. Counted(n) \cap Of(tasks[n], r) = {}
  BY DEF Counted, Of
<1>6. /\ Counted(n) \in SUBSET Path /\ Of(tasks[n], r) \in SUBSET Path
      /\ IsFiniteSet(Counted(n)) /\ IsFiniteSet(Of(tasks[n], r))
  BY <1>1, BackupAssumption, FS_Subset DEF Counted, Of
<1>7. Cardinality(Counted(n)') = Cardinality(Counted(n)) + Cardinality(Of(tasks[n], r))
  <2>1. /\ Cardinality(Counted(n) \cup Of(tasks[n], r))
             = Cardinality(Counted(n)) + Cardinality(Of(tasks[n], r))
               - Cardinality(Counted(n) \cap Of(tasks[n], r))
    BY <1>6, FS_Union
  <2>2. Cardinality(Counted(n) \cap Of(tasks[n], r)) = 0
    BY <1>5, FS_EmptySet
  <2>. QED  BY <1>4, <1>6, <2>1, <2>2, PathCount
<1>8. Sum(total[n]) = Cardinality(Counted(n))
  BY DEF RunCounts, Working
<1>9. Sum(total'[n]) = Sum(total[n]) + x + y + z
  BY <1>1, CountSum
<1>. QED  BY <1>6, <1>7, <1>8, <1>9, PathCount

\* A step that leaves the memory of run n alone keeps its counters right.
LEMMA CountsFrame ==
    ASSUME NEW n \in Node, RunCounts(n),
           pc'[n] = pc[n], tasks'[n] = tasks[n], job'[n] = job[n],
           existing'[n] = existing[n], total'[n] = total[n]
    PROVE  RunCounts(n)'
<1>1. Counted(n)' = Counted(n)
  BY DEF Counted
<1>2. Finished(n)' <=> Finished(n)
  BY DEF Finished
<1>. QED  BY <1>1, <1>2 DEF RunCounts

\* A step of the pool keeps the counters of its run right.
LEMMA CountsJob ==
    ASSUME TypeOK, TypeOK', NEW n \in Node, NEW r \in Repo, RunCounts(n), Job(n, r)
    PROVE  RunCounts(n)'
<1>. DEFINE T == Of(tasks[n], r)
            E == Of(existing[n], r)
<1>1. /\ job \in [Node -> [Repo -> JobState]] /\ job[n] \in [Repo -> JobState]
      /\ existing \in [Node -> SUBSET Path] /\ RunTypeOK
      /\ tasks[n] \in SUBSET Path /\ existing[n] \in SUBSET tasks[n]
      /\ T \in SUBSET Path /\ E \in SUBSET Path /\ T \ existing[n] \in SUBSET Path
  BY DEF TypeOK, RunTypeOK, RunCounts, Of
<1>2. /\ Cardinality(T) \in Nat /\ Cardinality(E) \in Nat
      /\ Cardinality(T \ existing[n]) \in Nat
      /\ Cardinality(E) + Cardinality(T \ existing[n]) = Cardinality(T)
  BY <1>1, PathCount, SplitCount
<1>3. pc[n] = "pool"
  <2>1. At(n, "pool") \/ job[n][r] \in {"init", "restic"}
    BY DEF Job, Submit, EnsureFail, EnsureFilter, ResticOk, ResticPartial, Stored,
           ResticFail, MayRetry, ResticTimeout
  <2>. QED  BY <2>1 DEF RunCounts, Finished, At
<1>4. /\ pc' = pc /\ tasks' = tasks
      /\ job[n][r] \in {"queued", "init", "restic"}
      /\ job' = job \/ \E s \in JobState \ {"none"} : SetJob(n, r, s)
  BY DEF Job, Submit, EnsureFail, EnsureFilter, ResticOk, ResticPartial, Stored,
         ResticFail, MayRetry, ResticTimeout, JobState
<1>5. \A p \in tasks'[n] : RepoOf[p] \in Repo /\ job'[n][RepoOf[p]] # "none"
  <2>1. \A p \in tasks[n] : RepoOf[p] \in Repo /\ job[n][RepoOf[p]] # "none"
    BY <1>3 DEF RunCounts, Working
  <2>2. \A q \in Repo : job'[n][q] = job[n][q] \/ job'[n][q] # "none"
    BY <1>1, <1>4 DEF SetJob
  <2>. QED  BY <1>4, <2>1, <2>2
<1>6. SUFFICES existing'[n] \subseteq tasks[n] /\ Sum(total'[n]) = Cardinality(Counted(n)')
  BY <1>3, <1>4, <1>5 DEF RunCounts, Working
<1>7. ASSUME total' = total, job' = job \/ \E s \in {"init", "restic"} : SetJob(n, r, s)
      PROVE  Sum(total'[n]) = Cardinality(Counted(n)')
  <2>1. \A q \in Repo : job'[n][q] = job[n][q] \/ (q = r /\ job'[n][q] \in {"init", "restic"})
    BY <1>1, <1>7 DEF SetJob
  <2>2. \A p \in tasks[n] : RepoOf[p] \in Repo
    BY <1>4, <1>5
  <2>3. Counted(n)' = Counted(n)
    BY <1>4, <2>1, <2>2 DEF Counted
  <2>. QED  BY <1>3, <1>7, <2>3 DEF RunCounts, Working
<1>8. CASE Submit(n, r)
  BY <1>1, <1>7, <1>8 DEF Submit
<1>9. CASE EnsureFail(n, r) \/ ResticTimeout(n, r)
  <2>1. /\ SetJob(n, r, "failed") /\ Count(n, 0, 0, Cardinality(T)) /\ existing' = existing
    BY <1>9 DEF EnsureFail, ResticTimeout
  <2>. QED  BY <1>1, <1>2, <1>3, <1>4, <2>1, JobCounted
<1>10. CASE EnsureFilter(n, r)
  <2>. DEFINE e == Existing(T)
  <2>1. /\ existing'[n] = existing[n] \cup e
        /\ e \subseteq tasks[n]
    BY <1>1, <1>10 DEF EnsureFilter, Existing, Of
  <2>2. CASE e = {}
    <3>1. SetJob(n, r, "done") /\ Count(n, 0, Cardinality(T), 0)
      BY <1>10, <2>2 DEF EnsureFilter
    <3>. QED  BY <1>1, <1>2, <1>3, <1>4, <2>1, <3>1, JobCounted
  <2>3. CASE e # {}
    <3>1. SetJob(n, r, "restic") /\ total' = total
      BY <1>10, <2>3 DEF EnsureFilter
    <3>. QED  BY <1>1, <1>7, <2>1, <3>1
  <2>. QED  BY <2>2, <2>3
<1>11. CASE ResticOk(n, r) \/ ResticPartial(n, r)
  <2>1. PICK R : Stored(n, r, R)
    BY <1>11 DEF ResticOk, ResticPartial
  <2>2. /\ SetJob(n, r, "done") /\ existing' = existing
        /\ Count(n, Cardinality(E), Cardinality(T \ existing[n]), 0)
    BY <2>1 DEF Stored
  <2>. QED  BY <1>1, <1>2, <1>3, <1>4, <2>2, JobCounted
<1>12. CASE ResticFail(n, r)
  <2>1. existing' = existing
    BY <1>12 DEF ResticFail
  <2>2. \/ job' = job /\ total' = total
        \/ /\ SetJob(n, r, "failed")
           /\ Count(n, 0, Cardinality(T \ existing[n]), Cardinality(E))
    BY <1>12 DEF ResticFail, MayRetry
  <2>3. CASE job' = job /\ total' = total
    BY <1>1, <1>7, <2>1, <2>3
  <2>4. CASE /\ SetJob(n, r, "failed")
             /\ Count(n, 0, Cardinality(T \ existing[n]), Cardinality(E))
    BY <1>1, <1>2, <1>3, <1>4, <2>1, <2>4, JobCounted
  <2>. QED  BY <2>2, <2>3, <2>4
<1>. QED  BY <1>8, <1>9, <1>10, <1>11, <1>12 DEF Job

\* A step of a run outside of the pool keeps its counters right.
LEMMA CountsRun ==
    ASSUME TypeOK, NEW n \in Node, RunCounts(n),
           \/ CheckProcessing(n) \/ RenamePending(n) \/ Hscan(n) \/ Join(n)
           \/ Restore(n) \/ DeleteProcessing(n) \/ RecordRun(n) \/ RedisFail(n)
    PROVE  RunCounts(n)'
<1>1. /\ pc \in [Runner -> RunPC \cup {"idle", "prune"}] /\ n \in Runner
      /\ tasks \in [Node -> SUBSET Path] /\ job \in [Node -> [Repo -> JobState]]
      /\ processing \in SUBSET Path
  BY DEF TypeOK, RedisTypeOK, RunTypeOK, Runner
<1>2. ASSUME UNCHANGED run,
             \/ pc[n] = "check" /\ pc'[n] \in {"hscan", "rename"}
             \/ pc[n] = "rename" /\ pc'[n] \in {"hscan"}
             \/ pc[n] \in {"pool", "restore", "delete"} /\ Finished(n)
                  /\ pc'[n] \in {"restore", "delete", "record"}
             \/ pc[n] # "pool" /\ pc'[n] = "release"
      PROVE  RunCounts(n)'
  <2>1. Counted(n)' = Counted(n) /\ (Finished(n)' <=> Finished(n))
    BY <1>2 DEF Counted, Finished, run
  <2>2. /\ tasks'[n] = tasks[n] /\ existing'[n] = existing[n] /\ total'[n] = total[n]
        /\ job'[n] = job[n]
    BY <1>2 DEF run
  <2>3. Finished(n)
    BY <1>2 DEF RunCounts
  <2>. QED  BY <1>2, <2>1, <2>2, <2>3 DEF RunCounts, Working
<1>3. CASE CheckProcessing(n)
  BY <1>1, <1>2, <1>3 DEF CheckProcessing, Goto, At
<1>4. CASE RenamePending(n)
  BY <1>1, <1>2, <1>4 DEF RenamePending, Goto, At
<1>5. CASE Hscan(n)
  <2>1. /\ pc[n] = "hscan" /\ pc'[n] = "pool"
        /\ tasks'[n] = Mapped(processing)
        /\ job'[n] = [r \in Repo |-> IF Of(processing, r) # {} THEN "queued" ELSE "none"]
        /\ existing' = existing /\ total' = total
    BY <1>1, <1>5 DEF Hscan, At, Goto
  <2>2. existing[n] = {} /\ total[n] = Zero
    BY <2>1 DEF RunCounts, Working
  <2>3. \A p \in tasks'[n] : RepoOf[p] \in Repo /\ job'[n][RepoOf[p]] = "queued"
    BY <1>1, <2>1, BackupAssumption DEF Mapped, Of
  <2>4. Counted(n)' = {}
    BY <2>3 DEF Counted
  <2>5. Sum(total'[n]) = Cardinality(Counted(n)')
    BY <2>1, <2>2, <2>4, FS_EmptySet DEF Sum, Zero
  <2>. QED  BY <2>1, <2>2, <2>3, <2>5 DEF RunCounts, Working
<1>6. CASE Join(n)
  BY <1>1, <1>2, <1>6 DEF Join, Goto, At
<1>7. CASE Restore(n) \/ DeleteProcessing(n)
  <2>1. Finished(n)
    BY <1>7 DEF Restore, DeleteProcessing, RunCounts, At
  <2>. QED  BY <1>1, <1>2, <1>7, <2>1 DEF Restore, DeleteProcessing, Goto, At
<1>8. CASE RecordRun(n) \/ RedisFail(n)
  BY <1>1, <1>2, <1>8 DEF RecordRun, RedisFail, Goto, At
<1>. QED  BY <1>3, <1>4, <1>5, <1>6, <1>7, <1>8

\* Starting and ending runs keeps the counters right.
LEMMA CountsLock ==
    ASSUME TypeOK, NEW m \in Runner, LockStep(m), NEW n \in Node, RunCounts(n)
    PROVE  RunCounts(n)'
<1>1. pc \in [Runner -> RunPC \cup {"idle", "prune"}] /\ n \in Runner
  BY DEF TypeOK, RunTypeOK, Runner
<1>2. CASE AcquireLost(m)
  BY <1>2, CountsFrame DEF AcquireLost, run
<1>3. CASE AcquireLock(m)
  <2>1. CASE m # n
    BY <1>1, <1>3, <2>1, CountsFrame DEF AcquireLock, Goto, run
  <2>2. CASE m = n
    <3>1. /\ pc[n] = "idle" /\ pc'[n] = "check" /\ tasks' = tasks /\ job' = job
          /\ existing' = existing /\ total' = total
      BY <1>1, <1>3, <2>2 DEF AcquireLock, Goto, At, run
    <3>2. Finished(n)'
      BY <3>1 DEF RunCounts, Finished
    <3>. QED  BY <3>1, <3>2 DEF RunCounts, Working
  <2>. QED  BY <2>1, <2>2
<1>4. CASE ReleaseLock(m) \/ ReleaseFail(m) \/ Kill(m)
  <2>1. Exit(m)
    BY <1>4 DEF ReleaseLock, ReleaseFail, Kill
  <2>2. CASE m # n
    BY <1>1, <2>1, <2>2, CountsFrame DEF Exit, Goto
  <2>3. CASE m = n
    <3>1. /\ pc'[n] = "idle" /\ tasks'[n] = {} /\ existing'[n] = {} /\ total'[n] = Zero
          /\ job'[n] = [r \in Repo |-> "none"]
      BY <1>1, <2>1, <2>3 DEF Exit, Goto
    <3>2. Finished(n)'
      BY <3>1 DEF Finished
    <3>. QED  BY <3>1, <3>2 DEF RunCounts, Working
  <2>. QED  BY <2>2, <2>3
<1>. QED  BY <1>2, <1>3, <1>4 DEF LockStep

\* A step of run m leaves the memory of the other runs alone.
LEMMA OthersKept ==
    ASSUME TypeOK, NEW m \in Node, BackupStep(m), NEW n \in Node, n # m
    PROVE  /\ pc'[n] = pc[n] /\ tasks'[n] = tasks[n] /\ job'[n] = job[n]
           /\ existing'[n] = existing[n] /\ total'[n] = total[n]
<1>1. /\ pc \in [Runner -> RunPC \cup {"idle", "prune"}] /\ n \in Runner
      /\ tasks \in [Node -> SUBSET Path] /\ job \in [Node -> [Repo -> JobState]]
      /\ existing \in [Node -> SUBSET Path] /\ total \in [Node -> Counters]
  BY DEF TypeOK, RunTypeOK, Runner
<1>2. ASSUME NEW r \in Repo, Job(m, r)
      PROVE  /\ pc' = pc /\ tasks' = tasks /\ job'[n] = job[n]
             /\ existing'[n] = existing[n] /\ total'[n] = total[n]
  <2>1. pc' = pc /\ tasks' = tasks
    BY <1>2 DEF Job, Submit, EnsureFail, EnsureFilter, ResticOk, ResticPartial, Stored,
           ResticFail, MayRetry, ResticTimeout
  <2>2. job' = job \/ \E s : SetJob(m, r, s)
    BY <1>2 DEF Job, Submit, EnsureFail, EnsureFilter, ResticOk, ResticPartial, Stored,
           ResticFail, MayRetry, ResticTimeout
  <2>3. existing' = existing \/ \E e : existing' = [existing EXCEPT ![m] = @ \cup e]
    BY <1>2 DEF Job, Submit, EnsureFail, EnsureFilter, ResticOk, ResticPartial, Stored,
           ResticFail, MayRetry, ResticTimeout
  <2>4. total' = total \/ \E b, s, e : Count(m, b, s, e)
    BY <1>2 DEF Job, Submit, EnsureFail, EnsureFilter, ResticOk, ResticPartial, Stored,
           ResticFail, MayRetry, ResticTimeout
  <2>5. job'[n] = job[n]
    BY <1>1, <2>2 DEF SetJob
  <2>6. existing'[n] = existing[n]
    BY <1>1, <2>3
  <2>7. total'[n] = total[n]
    BY <1>1, <2>4 DEF Count
  <2>. QED  BY <2>1, <2>5, <2>6, <2>7
<1>3. CASE Hscan(m)
  BY <1>1, <1>3 DEF Hscan, Goto
<1>4. CASE \/ CheckProcessing(m) \/ RenamePending(m) \/ Join(m) \/ Restore(m)
           \/ DeleteProcessing(m) \/ RecordRun(m) \/ RedisFail(m)
  BY <1>1, <1>4 DEF CheckProcessing, RenamePending, Join, Restore, DeleteProcessing,
                    RecordRun, RedisFail, Goto, run
<1>. QED  BY <1>2, <1>3, <1>4 DEF BackupStep

\* Whatever its repositories return, and even if other runs are active at the
\* same time, a run records each path of its tasks once, as backed up, skipped
\* or failed (the sums of _run_backup_inner).
THEOREM CountsAddUp == Spec => []Accounting
<1>1. Init => CountsKept
  <2>. SUFFICES ASSUME Init, NEW n \in Node PROVE RunCounts(n)
    BY DEF CountsKept
  <2>1. pc[n] = "idle"
    BY DEF Init, Runner
  <2>. QED  BY <2>1 DEF Init, RunCounts, Finished, Working
<1>2. TypeOK /\ TypeOK' /\ CountsKept /\ [Next]_vars => CountsKept'
  <2>. SUFFICES ASSUME TypeOK, TypeOK', CountsKept, [Next]_vars, NEW n \in Node
                PROVE  RunCounts(n)'
    BY DEF CountsKept
  <2>1. RunCounts(n)
    BY DEF CountsKept
  <2>2. CASE Change
    BY <2>1, <2>2, CountsFrame DEF Change, Modify, Rename, Delete, run
  <2>3. ASSUME NEW m \in Runner, LockStep(m) PROVE RunCounts(n)'
    BY <2>1, <2>3, CountsLock
  <2>4. ASSUME NEW m \in Node, BackupStep(m) PROVE RunCounts(n)'
    <3>1. CASE m = n
      BY <2>1, <2>4, <3>1, CountsJob, CountsRun DEF BackupStep
    <3>2. CASE m # n
      BY <2>1, <2>4, <3>2, OthersKept, CountsFrame
    <3>. QED  BY <3>1, <3>2
  <2>5. ASSUME NEW m \in Pruner, Prune(m) PROVE RunCounts(n)'
    <3>1. pc \in [Runner -> RunPC \cup {"idle", "prune"}] /\ n \in Runner /\ m # n
      BY BackupAssumption DEF TypeOK, RunTypeOK, Runner
    <3>. QED  BY <2>1, <2>5, <3>1, CountsFrame DEF Prune, Goto, run
  <2>6. CASE Expire
    BY <2>1, <2>6, CountsFrame DEF Expire, run
  <2>7. CASE UNCHANGED vars
    BY <2>1, <2>7, CountsFrame DEF vars
  <2>. QED  BY <2>2, <2>3, <2>4, <2>5, <2>6, <2>7 DEF Next
<1>3. TypeOK /\ CountsKept => Accounting
  <2>. SUFFICES ASSUME TypeOK, CountsKept, NEW n \in Node, pc[n] = "record"
                PROVE  Sum(total[n]) = Cardinality(tasks[n])
    BY DEF Accounting, At, Sum
  <2>1. /\ Finished(n) /\ Sum(total[n]) = Cardinality(Counted(n))
        /\ \A p \in tasks[n] : RepoOf[p] \in Repo /\ job[n][RepoOf[p]] # "none"
    BY DEF CountsKept, RunCounts, Working
  <2>2. Counted(n) = tasks[n]
    BY <2>1 DEF Counted, Finished
  <2>. QED  BY <2>1, <2>2
<1>. QED  BY <1>1, <1>2, <1>3, TypeCorrect, PTL DEF Spec

=============================================================================
