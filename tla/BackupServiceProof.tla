------------------------- MODULE BackupServiceProof -------------------------
(***************************************************************************)
(* Backup implements BackupService, for any number of runs, repositories,  *)
(* paths and faults, if no run outlives the lock it holds.                 *)
(*                                                                         *)
(* The invariant of BackupProof shows that no marker goes too early.  That *)
(* a run brings back no marker that is gone, and stores nothing unmarked,  *)
(* needs one fact more: the paths a run works on are still in              *)
(* "processing" (Claimed).                                                 *)
(***************************************************************************)
EXTENDS BackupProof

\* What the workers selected are tasks, and the tasks keep their markers.
Claimed ==
    \A n \in Node : /\ existing[n] \subseteq tasks[n]
                    /\ pc[n] \in Working => tasks[n] \subseteq processing

-----------------------------------------------------------------------------
\* A step of a job keeps Claimed: it selects among the tasks only.
LEMMA ClaimedJob ==
    ASSUME Inv, Claimed, NEW n \in Node, NEW r \in Repo, Job(n, r)
    PROVE  Claimed'
<1>1. UNCHANGED <<pc, tasks, processing>>
  BY DEF Job, Submit, EnsureFail, EnsureFilter, ResticOk, ResticPartial, Stored,
         ResticFail, MayRetry, ResticTimeout, redis
<1>2. \/ existing' = existing
      \/ existing' = [existing EXCEPT ![n] = @ \cup Existing(Of(tasks[n], r))]
  BY DEF Job, Submit, EnsureFail, EnsureFilter, ResticOk, ResticPartial, Stored,
         ResticFail, MayRetry, ResticTimeout
<1>3. Existing(Of(tasks[n], r)) \subseteq tasks[n]
  BY DEF Existing, Of
<1>4. existing \in [Node -> SUBSET Path]
  BY DEF Inv, TypeOK, RunTypeOK
<1>. QED  BY <1>1, <1>2, <1>3, <1>4 DEF Claimed

\* A step of a run outside of the pool keeps Claimed: tasks are taken from
\* "processing", which is emptied at the last working step only and is not
\* replaced while any run has tasks.
LEMMA ClaimedRun ==
    ASSUME Inv, Claimed, NEW n \in Node,
           \/ CheckProcessing(n) \/ RenamePending(n) \/ Hscan(n) \/ Join(n)
           \/ Restore(n) \/ DeleteProcessing(n) \/ RecordRun(n) \/ RedisFail(n)
    PROVE  Claimed'
<1>. USE DEF At, Goto
<1>0. /\ pc \in [Runner -> RunPC \cup {"idle", "prune"}] /\ n \in Runner
      /\ tasks \in [Node -> SUBSET Path]
  BY DEF Inv, TypeOK, RunTypeOK, Runner
<1>1. pc[n] # "idle" /\ existing' = existing
  BY DEF CheckProcessing, RenamePending, Hscan, Join, Restore, DeleteProcessing,
         RecordRun, RedisFail, run
<1>2. ASSUME NEW m \in Node, m # n
      PROVE  /\ pc'[m] \notin Working
             /\ existing'[m] \subseteq tasks'[m]
  <2>1. pc[m] = "idle"
    BY <1>1, <1>2, Alone DEF InRun
  <2>2. /\ \E l : pc' = [pc EXCEPT ![n] = l]
        /\ tasks' = tasks \/ \E T : tasks' = [tasks EXCEPT ![n] = T]
    BY DEF CheckProcessing, RenamePending, Hscan, Join, Restore, DeleteProcessing,
           RecordRun, RedisFail, run
  <2>3. pc'[m] = pc[m] /\ tasks'[m] = tasks[m]
    BY <1>0, <1>2, <2>2 DEF Runner
  <2>. QED  BY <1>1, <2>1, <2>3 DEF Claimed, Working
<1>3. /\ existing'[n] \subseteq tasks'[n]
      /\ pc'[n] \in Working => tasks'[n] \subseteq processing'
  <2>1. CASE CheckProcessing(n) \/ RenamePending(n)
    <3>1. pc'[n] \notin Working /\ tasks' = tasks
      BY <1>0, <2>1 DEF CheckProcessing, RenamePending, run, Working
    <3>. QED  BY <1>1, <3>1 DEF Claimed
  <2>2. CASE Hscan(n)
    <3>1. tasks'[n] = Mapped(processing) /\ processing' = processing /\ pc[n] = "hscan"
      BY <1>0, <2>2 DEF Hscan, redis
    <3>2. existing[n] = {}
      BY <3>1 DEF Claimed, Inv, Memory, Working
    <3>. QED  BY <1>1, <3>1, <3>2 DEF Mapped
  <2>3. CASE Join(n) \/ Restore(n)
    <3>1. pc[n] \in Working /\ tasks' = tasks /\ processing' = processing
      BY <2>3 DEF Join, Restore, run, redis, Working
    <3>. QED  BY <1>1, <3>1 DEF Claimed
  <2>4. CASE DeleteProcessing(n) \/ RecordRun(n) \/ RedisFail(n)
    <3>1. pc'[n] \notin Working /\ tasks' = tasks
      BY <1>0, <2>4 DEF DeleteProcessing, RecordRun, RedisFail, run, Working
    <3>. QED  BY <1>1, <3>1 DEF Claimed
  <2>. QED  BY <2>1, <2>2, <2>3, <2>4
<1>. QED  BY <1>2, <1>3 DEF Claimed

\* Every other step keeps Claimed: it moves no marker out of "processing", and
\* a run that ends forgets its tasks and what it selected.
LEMMA ClaimedOther ==
    ASSUME Inv, Claimed,
           \/ Change
           \/ \E n \in Runner : LockStep(n)
           \/ \E n \in Pruner : Prune(n)
           \/ Expire
           \/ UNCHANGED vars
    PROVE  Claimed'
<1>0. pc \in [Runner -> RunPC \cup {"idle", "prune"}]
  BY DEF Inv, TypeOK, RunTypeOK
<1>1. CASE \/ Change \/ Expire \/ UNCHANGED vars
  <2>1. UNCHANGED <<pc, tasks, existing, processing>>
    BY <1>1 DEF Change, Modify, Rename, Delete, Expire, vars, run, redis
  <2>. QED  BY <2>1 DEF Claimed
<1>2. ASSUME NEW n \in Runner, LockStep(n)
      PROVE  Claimed'
  <2>1. CASE AcquireLock(n) \/ AcquireLost(n)
    <3>1. /\ UNCHANGED <<tasks, existing, processing>>
          /\ \/ pc' = pc
             \/ \E l \in {"check", "prune"} : pc' = [pc EXCEPT ![n] = l]
      BY <2>1 DEF AcquireLock, AcquireLost, Goto, run
    <3>2. \A m \in Node : pc'[m] \in Working => pc[m] \in Working
      BY <1>0, <3>1 DEF Working, Runner
    <3>. QED  BY <3>1, <3>2 DEF Claimed
  <2>2. CASE ReleaseLock(n) \/ ReleaseFail(n) \/ Kill(n)
    <3>1. Exit(n) /\ processing' = processing
      BY <2>2 DEF ReleaseLock, ReleaseFail, Kill, redis
    <3>2. ASSUME NEW m \in Node
          PROVE  /\ existing'[m] \subseteq tasks'[m]
                 /\ pc'[m] \in Working => tasks'[m] \subseteq processing'
      <4>1. CASE m = n
        BY <3>1, <4>1 DEF Exit
      <4>2. CASE m # n
        <5>1. tasks'[m] = tasks[m] /\ existing'[m] = existing[m]
          BY <3>1, <4>2 DEF Exit
        <5>2. pc'[m] = pc[m]
          BY <1>0, <3>1, <4>2 DEF Exit, Goto, Runner
        <5>. QED  BY <3>1, <5>1, <5>2 DEF Claimed
      <4>. QED  BY <4>1, <4>2
    <3>. QED  BY <3>2 DEF Claimed
  <2>. QED  BY <1>2, <2>1, <2>2 DEF LockStep
<1>3. ASSUME NEW n \in Pruner, Prune(n)
      PROVE  Claimed'
  <2>1. /\ UNCHANGED <<tasks, existing, processing>>
        /\ pc' = [pc EXCEPT ![n] = "release"]
    BY <1>3 DEF Prune, Goto, run, redis
  <2>2. \A m \in Node : pc'[m] \in Working => pc[m] \in Working
    BY <1>0, <2>1 DEF Working, Runner
  <2>. QED  BY <2>1, <2>2 DEF Claimed
<1>. QED  BY <1>1, <1>2, <1>3

-----------------------------------------------------------------------------
(***************************************************************************)
(* Every step is a step of BackupService or leaves its variables alone.    *)
(***************************************************************************)

\* A change of the file system is the same change there.
LEMMA ChangeMaps ==
    ASSUME Inv, Change
    PROVE  Service!Next
<1>1. ASSUME NEW p \in Path, Modify(p)
      PROVE  Service!Modify(p)
  BY <1>1 DEF Modify, Service!Modify
<1>2. ASSUME NEW p \in Path, Delete(p)
      PROVE  Service!Delete(p)
  BY <1>2 DEF Delete, Service!Delete, redis
<1>3. ASSUME NEW p \in Path, NEW q \in Path, Rename(p, q)
      PROVE  Service!Rename(p, q)
  <2>1. /\ pending' = (pending \ {p}) \cup {q} /\ p # q
        /\ processing' = processing
        /\ dirty' = (dirty \ {p}) \cup {q}
        /\ unread' = unread \ {p, q}
    BY <1>3 DEF Rename
  <2>2. CASE p \in processing
    <3>1. (pending \cup processing)' = (pending \cup processing) \cup {q}
      BY <2>1, <2>2
    <3>. QED  BY <2>1, <3>1 DEF Service!Rename
  <2>3. CASE p \notin processing
    <3>1. (pending \cup processing)' = ((pending \cup processing) \ {p}) \cup {q}
      BY <2>1, <2>3
    <3>. QED  BY <2>1, <3>1 DEF Service!Rename
  <2>. QED  BY <2>2, <2>3
<1>. QED  BY <1>1, <1>2, <1>3 DEF Change, Service!Next

\* A step of a job stores what is marked, or nothing.
LEMMA JobMaps ==
    ASSUME Inv, Claimed, NEW n \in Node, NEW r \in Repo, Job(n, r)
    PROVE  Service!Next \/ UNCHANGED Service!vars
<1>1. UNCHANGED <<pending, processing>>
  BY DEF Job, Submit, EnsureFail, EnsureFilter, ResticOk, ResticPartial, Stored,
         ResticFail, MayRetry, ResticTimeout, redis
<1>2. CASE UNCHANGED <<dirty, unread>>
  BY <1>1, <1>2 DEF Service!vars
<1>3. CASE \E R \in SUBSET Left(n, r) : Stored(n, r, R)
  <2>1. PICK R \in SUBSET Left(n, r) :
            /\ dirty' = dirty \ R
            /\ unread' = (unread \cup (Of(existing[n], r) \cap dirty)) \ R
    BY <1>3 DEF Stored
  <2>2. Of(existing[n], r) \subseteq pending \cup processing
    BY JobInPool DEF Claimed, Working, Of
  <2>3. R \subseteq pending \cup processing
    BY <2>1, <2>2 DEF Left
  <2>4. unread \subseteq dirty
    BY DEF Inv, TypeOK, FilesTypeOK
  <2>5. Service!Store
    BY <1>1, <2>1, <2>2, <2>3, <2>4 DEF Service!Store
  <2>. QED  BY <2>5 DEF Service!Next
<1>4. \/ UNCHANGED <<dirty, unread>>
      \/ \E R \in SUBSET Left(n, r) : Stored(n, r, R)
  BY DEF Job, Submit, EnsureFail, EnsureFilter, ResticOk, ResticPartial,
         ResticFail, MayRetry, ResticTimeout, files
<1>. QED  BY <1>2, <1>3, <1>4

\* A step of a run outside of the pool moves markers within the two hashes, puts
\* back markers that are there still, or clears those of files that need none.
LEMMA RunMaps ==
    ASSUME Inv, Claimed, NEW n \in Node,
           \/ CheckProcessing(n) \/ RenamePending(n) \/ Hscan(n) \/ Join(n)
           \/ Restore(n) \/ DeleteProcessing(n) \/ RecordRun(n) \/ RedisFail(n)
    PROVE  Service!Next \/ UNCHANGED Service!vars
<1>. USE DEF At
<1>1. UNCHANGED <<dirty, unread>>
  BY DEF CheckProcessing, RenamePending, Hscan, Join, Restore, DeleteProcessing,
         RecordRun, RedisFail, files
<1>2. CASE UNCHANGED <<pending, processing>>
  BY <1>1, <1>2 DEF Service!vars
<1>3. CASE pc[n] = "rename" /\ Swap
  <2>1. processing = {}
    BY <1>3 DEF Inv, SwapEmpty
  <2>2. (pending \cup processing)' = pending \cup processing
    BY <1>3, <2>1 DEF Swap
  <2>. QED  BY <1>1, <2>2 DEF Service!vars
<1>4. CASE pc[n] = "restore" /\ PutBack(n) /\ UNCHANGED processing
  <2>1. FailedPaths(n) \subseteq processing
    BY <1>4 DEF Claimed, Working, FailedPaths
  <2>2. (pending \cup processing)' = pending \cup processing
    BY <1>4, <2>1 DEF PutBack
  <2>. QED  BY <1>1, <2>2 DEF Service!vars
<1>5. CASE pc[n] = "delete" /\ processing' = {} /\ UNCHANGED pending
  <2>1. \A p \in dirty : p \in pending \cup unread \/ RepoOf[p] = NoRepo
    BY <1>5, DeleteSafe DEF Safe
  <2>2. dirty \subseteq Path
    BY DEF Inv, TypeOK, FilesTypeOK
  <2>3. Service!Clear
    BY <1>1, <1>5, <2>1, <2>2 DEF Service!Clear
  <2>. QED  BY <2>3 DEF Service!Next
<1>6. \/ UNCHANGED <<pending, processing>>
      \/ pc[n] = "rename" /\ Swap
      \/ pc[n] = "restore" /\ PutBack(n) /\ UNCHANGED processing
      \/ pc[n] = "delete" /\ processing' = {} /\ UNCHANGED pending
  BY DEF CheckProcessing, RenamePending, Hscan, Join, Restore, DeleteProcessing,
         RecordRun, RedisFail, redis
<1>. QED  BY <1>2, <1>3, <1>4, <1>5, <1>6

\* If no run outlives its lock, the backup runs of any number of nodes, with
\* the failures and kills of Backup, implement BackupService.
THEOREM Implements ==
    ASSUME ~Overrun
    PROVE  Spec => ImplementsService
<1>1. Init => Claimed /\ Service!Init
  BY DEF Init, Claimed, Service!Init, Working
<1>2. Inv /\ Claimed /\ [Next]_vars => Claimed'
  BY ClaimedJob, ClaimedRun, ClaimedOther DEF Next, BackupStep
<1>3. Inv /\ Claimed /\ [Next]_vars => [Service!Next]_(Service!vars)
  <2>. SUFFICES ASSUME Inv, Claimed, [Next]_vars
                PROVE  Service!Next \/ UNCHANGED Service!vars
    OBVIOUS
  <2>1. CASE \/ \E n \in Runner : LockStep(n)
             \/ \E n \in Pruner : Prune(n)
             \/ Expire
             \/ UNCHANGED vars
    BY <2>1 DEF LockStep, AcquireLock, AcquireLost, ReleaseLock, ReleaseFail, Kill,
                Prune, Expire, redis, files, vars, Service!vars
  <2>. QED  BY <2>1, ChangeMaps, JobMaps, RunMaps DEF Next, BackupStep
<1>. QED  BY <1>1, <1>2, <1>3, InvHolds, PTL DEF Spec, ImplementsService, Service!Spec

=============================================================================
