----------------------------- MODULE AgentProof -----------------------------
(***************************************************************************)
(* Proofs about Agent, for any paths, CPUs, ring size and periods with a   *)
(* quiet period of at least the dedup interval and the length of a call.   *)
(*                                                                         *)
(* Every step of the agent is a step of the debouncer or none of its       *)
(* business, so what DebouncerProof shows holds here.  That suppressed     *)
(* writes are covered needs two facts about time: an entry of the dedup    *)
(* map that still suppresses writes is no younger than the last_seen of    *)
(* the debouncer's entry (Suppressing), and a call in flight saw the map   *)
(* at most CallTime ago (InFlight); tick takes neither entry.  The last    *)
(* section is about the pairing of renames.                                *)
(***************************************************************************)
EXTENDS Agent, DebouncerProof

\* A write emits one event or none; a stopped agent has no probes.
Probes ==
    /\ \A c \in Cpu : op[c].call = "write" => op[c].emit \in {<<>>, <<"mtime">>}
    /\ ~up => /\ excused = Path /\ ring = <<>>
              /\ \A c \in Cpu : op[c].call # "idle" => op[c].emit = <<>>

Suppressing ==
    \A p \in Path : file[p] # NoInode /\ Recent(file[p]) =>
        \/ p \in excused \/ Coming(p)
        \/ p \in entries /\ last[p] <= dedup[file[p]]

InFlight ==
    \A c \in Cpu, p \in Path :
        op[c].call = "write" /\ op[c].path = p /\ file[p] = op[c].ino =>
            \/ p \in excused \/ Coming(p)
            \/ p \in entries /\ last[p] < DedupInterval + op[c].age

\* The inductive invariant.
AInv == AgentTypeOK /\ Probes /\ Suppressing /\ InFlight /\ ChangesCovered

-----------------------------------------------------------------------------
\* Every step of the agent is one of the debouncer, or leaves it alone.
LEMMA DebouncerStep == [AgentNext]_allVars => [Next]_vars
<1> SUFFICES ASSUME [AgentNext]_allVars PROVE [Next]_vars
  OBVIOUS
<1>1. ASSUME NEW c \in Cpu, NEW p \in AllPath, NEW q \in AllPath,
             VfsWrite(c, p) \/ VfsUtimes(c, p) \/ VfsUnlink(c, p) \/ VfsRename(c, p, q)
      PROVE UNCHANGED vars
  BY <1>1 DEF VfsWrite, VfsUtimes, VfsUnlink, VfsRename, Enter
<1>2. ASSUME NEW c \in Cpu, EmitEvent(c) \/ Return(c) PROVE UNCHANGED vars
  BY <1>2 DEF EmitEvent, Return
<1>3. ASSUME NEW i \in Inode, Evict(i) \/ \E p \in AllPath : Create(p, i)
      PROVE UNCHANGED vars
  BY <1>3 DEF Evict, Create
<1>4. CASE HandleEvent
  <2>1. ASSUME NEW e, HandleOther(e) PROVE [Next]_vars
    BY <2>1 DEF HandleOther, Next
  <2> QED  BY <1>4, <2>1 DEF HandleEvent, HandleRenameFrom, HandleRenameTo
<1>5. CASE AgentTick \/ AgentStop \/ AgentStart \/ AgentAdvance
  BY <1>5 DEF AgentTick, AgentStop, AgentStart, AgentAdvance, Next
<1>6. CASE UNCHANGED allVars
  BY <1>6 DEF allVars
<1> QED  BY <1>1, <1>2, <1>3, <1>4, <1>5, <1>6 DEF AgentNext

\* The agent implements the debouncer's specification.
THEOREM Implements == AgentSpec => Spec
<1>1. AgentInit => Init
  BY DEF AgentInit
<1> QED  BY <1>1, DebouncerStep, PTL DEF AgentSpec, Spec

\* Whatever the probes send, the debouncer's delay is bounded, no modification
\* it was told of is forgotten, and its reports are apart.
THEOREM AgentDebounces == AgentSpec => []BoundedDelay /\ []NothingForgotten /\ RateLimit
<1> QED  BY Implements, DelayBounded, ModificationsKept, ReportsApart, PTL

-----------------------------------------------------------------------------
\* A call in flight is a record with all fields.
LEMMA OpType ==
  ASSUME AgentTypeOK, NEW c \in Cpu, op[c].call # "idle"
  PROVE  /\ op[c] \in [call : {"write", "unlink", "rename"}, path : AllPath, to : AllPath,
                       ino : Inode, emit : Seq(EventType), age : 0..CallTime]
         /\ op[c] # Idle
  BY DEF AgentTypeOK, Op, Idle

\* A call enters with its types.
LEMMA EnterType ==
  ASSUME AgentTypeOK, NEW c \in Cpu, NEW call \in {"write", "unlink", "rename"},
         NEW p \in AllPath, NEW q \in AllPath, NEW i \in Inode, NEW ev \in Seq(EventType),
         Enter(c, call, p, q, i, ev)
  PROVE  op' \in [Cpu -> Op]
<1> DEFINE new == [call |-> call, path |-> p, to |-> q, ino |-> i,
                   emit |-> IF up THEN ev ELSE <<>>, age |-> 0]
<1>1. new \in Op
  BY AgentAssumption DEF Op
<1>2. op' = [op EXCEPT ![c] = new]
  BY DEF Enter
<1> HIDE DEF new
<1> QED  BY <1>1, <1>2 DEF AgentTypeOK

LEMMA AgentInitType == AgentInit => AgentTypeOK
<1> SUFFICES ASSUME AgentInit PROVE AgentTypeOK
  OBVIOUS
<1>1. TypeOK
  BY InitInv DEF AgentInit, Inv
<1>2. op \in [Cpu -> Op]
  BY DEF AgentInit, Op
<1> QED  BY <1>1, <1>2, AgentAssumption DEF AgentInit, AgentTypeOK

LEMMA AgentTypeStep == AgentTypeOK /\ [AgentNext]_allVars => AgentTypeOK'
<1> SUFFICES ASSUME AgentTypeOK, [AgentNext]_allVars PROVE AgentTypeOK'
  OBVIOUS
<1>0. TypeOK'
  BY DebouncerStep, TypeStep DEF AgentTypeOK
<1> DEFINE Rest == /\ file \in [AllPath -> Inode \cup {NoInode}]
                   /\ op \in [Cpu -> Op]
                   /\ dedup \in [Inode -> 0..DedupInterval]
                   /\ ring \in Seq(Event) /\ Len(ring) <= RingSize
                   /\ pending \in AllPath \cup {None}
                   /\ budget \in Nat
                   /\ made \in SUBSET (AllPath \X AllPath)
                   /\ renamed \in SUBSET (AllPath \X AllPath)
                   /\ changed \in SUBSET Path
                   /\ excused \in SUBSET Path
<1> SUFFICES Rest'
  BY <1>0 DEF AgentTypeOK
<1>r. Rest /\ TypeOK
  BY DEF AgentTypeOK
<1>s. ASSUME Spend PROVE budget' \in Nat
  BY <1>r, <1>s DEF Spend
<1>e. /\ <<>> \in Seq(EventType) /\ <<"mtime">> \in Seq(EventType)
      /\ <<"delete">> \in Seq(EventType)
      /\ <<"rename_from", "rename_to">> \in Seq(EventType)
  BY DEF EventType
<1>1. ASSUME NEW c \in Cpu, NEW p \in AllPath, VfsWrite(c, p) PROVE Rest'
  <2>1. file[p] \in Inode /\ op' \in [Cpu -> Op]
    <3> file[p] \in Inode  BY <1>1, <1>r DEF VfsWrite
    <3> QED  BY <1>1, <1>e, EnterType DEF VfsWrite
  <2>2. dedup' \in [Inode -> 0..DedupInterval] /\ excused' \in SUBSET Path
    BY <1>1, <1>r, <2>1, AgentAssumption DEF VfsWrite, SameNumber
  <2> QED  BY <1>1, <1>r, <2>1, <2>2 DEF VfsWrite, Enter
<1>2. ASSUME NEW c \in Cpu, NEW p \in AllPath, VfsUtimes(c, p) \/ VfsUnlink(c, p) PROVE Rest'
  <2>1. op' \in [Cpu -> Op]
    <3> file[p] \in Inode  BY <1>2, <1>r DEF VfsUtimes, VfsUnlink
    <3> QED  BY <1>2, <1>e, EnterType DEF VfsUtimes, VfsUnlink
  <2> QED  BY <1>2, <1>r, <1>s, <2>1 DEF VfsUtimes, VfsUnlink, Enter
<1>3. ASSUME NEW c \in Cpu, NEW p \in AllPath, NEW q \in AllPath, VfsRename(c, p, q) PROVE Rest'
  <2>1. op' \in [Cpu -> Op]
    <3> file[p] \in Inode  BY <1>3, <1>r DEF VfsRename
    <3> QED  BY <1>3, <1>e, EnterType DEF VfsRename
  <2> QED  BY <1>3, <1>r, <1>s, <2>1 DEF VfsRename, Enter
<1>4. ASSUME NEW c \in Cpu, EmitEvent(c) PROVE Rest'
  <2>1. op' \in [Cpu -> Op]
    <3>1. op[c].call # "idle" /\ op[c].emit # <<>>
      BY <1>4 DEF EmitEvent
    <3>2. /\ op[c] \in [call : {"write", "unlink", "rename"}, path : AllPath, to : AllPath,
                        ino : Inode, emit : Seq(EventType), age : 0..CallTime]
          /\ Tail(op[c].emit) \in Seq(EventType)
      BY <3>1, OpType
    <3> [op[c] EXCEPT !.emit = Tail(@)] \in Op
      BY <3>2 DEF Op
    <3> QED  BY <1>4, <1>r DEF EmitEvent
  <2>2. /\ op[c].path \in AllPath /\ op[c].to \in AllPath
        /\ Head(op[c].emit) \in EventType
    BY <1>4, OpType DEF EmitEvent
  <2> DEFINE type == Head(op[c].emit)
             path == IF type = "rename_to" THEN op[c].to ELSE op[c].path
             evt == [type |-> type, path |-> path]
  <2>e. evt \in Event
    BY <2>2 DEF Event
  <2>f. IF RingHasRoom THEN ring' = Append(ring, evt) /\ UNCHANGED excused
                       ELSE excused' = excused \cup ({path} \cap Path) /\ UNCHANGED ring
    BY <1>4 DEF EmitEvent
  <2> HIDE DEF evt, path
  <2>g. ring \in Seq(Event) /\ Len(ring) <= RingSize /\ RingSize \in Nat /\ Len(ring) \in Nat
    BY <1>r, AgentAssumption
  <2>h. excused' \in SUBSET Path
    BY <1>r, <2>f
  <2>3. /\ ring' \in Seq(Event) /\ Len(ring') <= RingSize /\ excused' \in SUBSET Path
    <3>1. CASE RingHasRoom
      <4> Len(Append(ring, evt)) = Len(ring) + 1 /\ Append(ring, evt) \in Seq(Event)
        BY <2>g, <2>e
      <4> QED  BY <2>f, <2>g, <2>h, <3>1 DEF RingHasRoom
    <3> QED  BY <2>f, <2>g, <2>h, <3>1
  <2> QED  BY <1>4, <1>r, <2>1, <2>3 DEF EmitEvent
<1>5. ASSUME NEW c \in Cpu, Return(c) PROVE Rest'
  <2>0. op[c].path \in AllPath /\ op[c].to \in AllPath /\ Idle \in Op
    BY <1>5, OpType DEF Return, Op
  <2>1. op' \in [Cpu -> Op]
    <3>1. Returned(c) \in [Cpu -> Op]
      BY <1>r, <2>0 DEF Returned
    <3>2. ASSUME NEW d \in Cpu, op[d].call = "write"
          PROVE [op[d] EXCEPT !.path = op[c].to] \in Op
      BY <2>0, <3>2, OpType DEF Op
    <3>3. CASE RenameEffect(c)
      BY <1>r, <2>0, <3>1, <3>2, <3>3 DEF RenameEffect
    <3> QED  BY <1>5, <3>1, <3>3 DEF Return, WriteEffect, UnlinkEffect
  <2>2. /\ file' \in [AllPath -> Inode \cup {NoInode}]
        /\ changed' \in SUBSET Path /\ excused' \in SUBSET Path
    BY <1>5, <1>r, <2>0 DEF Return, WriteEffect, UnlinkEffect, RenameEffect
  <2> QED  BY <1>5, <1>r, <2>1, <2>2 DEF Return
<1>6. ASSUME NEW i \in Inode, Evict(i) PROVE Rest'
  BY <1>6, <1>r, <1>s, AgentAssumption DEF Evict
<1>7. ASSUME NEW p \in AllPath, NEW i \in Inode, Create(p, i) PROVE Rest'
  BY <1>7, <1>r DEF Create
<1>8. CASE HandleEvent
  <2>1. /\ ring' \in Seq(Event) /\ Len(ring') <= RingSize /\ Head(ring) \in Event
        /\ UNCHANGED <<kernel, budget, made>>
    BY <1>8, <1>r, AgentAssumption DEF HandleEvent
  <2>2. Head(ring).path \in AllPath
    BY <2>1 DEF Event
  <2>3. fired' \in SUBSET Path
    BY <1>0 DEF TypeOK
  <2>4. /\ pending' \in AllPath \cup {None} /\ renamed' \in SUBSET (AllPath \X AllPath)
    BY <1>8, <1>r, <2>2
    DEF HandleEvent, HandleRenameFrom, HandleRenameTo, HandleOther
  <2>5. changed' \in SUBSET Path /\ excused' \in SUBSET Path
    BY <1>8, <1>r, <2>3
    DEF HandleEvent, HandleRenameFrom, HandleRenameTo, HandleOther
  <2> QED  BY <1>r, <2>1, <2>4, <2>5 DEF kernel
<1>9. CASE AgentTick
  BY <1>9, <1>r DEF AgentTick, kernel
<1>10. CASE AgentStop
  <2>1. op' \in [Cpu -> Op]
    <3> ASSUME NEW c \in Cpu, op[c].call # "idle" PROVE [op[c] EXCEPT !.emit = <<>>] \in Op
      BY OpType, <1>e DEF Op
    <3> Idle \in Op  BY DEF Op
    <3> QED  BY <1>10, <1>r DEF AgentStop
  <2> QED  BY <1>10, <1>r, <1>s, <2>1, AgentAssumption DEF AgentStop
<1>11. CASE AgentStart
  BY <1>11, <1>r DEF AgentStart, kernel
<1>12. CASE AgentAdvance
  <2>1. op' \in [Cpu -> Op]
    <3> ASSUME NEW c \in Cpu, op[c].call # "idle", op[c].age < CallTime
        PROVE [op[c] EXCEPT !.age = @ + 1] \in Op
      BY OpType, AgentAssumption DEF Op
    <3> Idle \in Op  BY DEF Op
    <3> QED  BY <1>12, <1>r DEF AgentAdvance
  <2>2. dedup' \in [Inode -> 0..DedupInterval]
    BY <1>12, <1>r, AgentAssumption DEF AgentAdvance, Recent
  <2> QED  BY <1>12, <1>r, <2>1, <2>2 DEF AgentAdvance
<1>13. CASE UNCHANGED allVars
  BY <1>13, <1>r DEF allVars, agentVars, kernel
<1> QED
  BY <1>1, <1>2, <1>3, <1>4, <1>5, <1>6, <1>7, <1>8, <1>9, <1>10, <1>11, <1>12, <1>13
  DEF AgentNext

\* The variables keep their types, for any number of CPUs and paths.
THEOREM AgentTypeCorrect == AgentSpec => []AgentTypeOK
<1> QED  BY AgentInitType, AgentTypeStep, PTL DEF AgentSpec

-----------------------------------------------------------------------------
LEMMA ProbesStep == AgentTypeOK /\ Probes /\ [AgentNext]_allVars => Probes'
<1> SUFFICES ASSUME AgentTypeOK, Probes, [AgentNext]_allVars PROVE Probes'
  OBVIOUS
<1>t. op \in [Cpu -> Op] /\ up \in BOOLEAN /\ excused \in SUBSET Path
  BY DEF AgentTypeOK, TypeOK
<1>1. ASSUME NEW c \in Cpu, NEW p \in AllPath, NEW q \in AllPath, NEW call, NEW i, NEW ev,
             Enter(c, call, p, q, i, ev), call = "write" => ev \in {<<>>, <<"mtime">>},
             ~up => excused' = excused
      PROVE Probes'
  <2>1. /\ \A d \in Cpu \ {c} : op'[d] = op[d]
        /\ op'[c].call = call /\ op'[c].emit = IF up THEN ev ELSE <<>>
        /\ up' = up /\ ring' = ring
    BY <1>t, <1>1 DEF Enter, vars
  <2> QED  BY <1>1, <2>1 DEF Probes
<1>2. ASSUME NEW c \in Cpu, NEW p \in AllPath, NEW q \in AllPath,
             VfsWrite(c, p) \/ VfsUtimes(c, p) \/ VfsUnlink(c, p) \/ VfsRename(c, p, q)
      PROVE Probes'
  <2>1. CASE VfsWrite(c, p)
    BY <1>1, <2>1 DEF VfsWrite
  <2>2. CASE VfsUtimes(c, p)
    BY <1>1, <2>2 DEF VfsUtimes
  <2>3. CASE VfsUnlink(c, p)
    BY <1>1, <2>3 DEF VfsUnlink
  <2>4. CASE VfsRename(c, p, q)
    BY <1>1, <2>4 DEF VfsRename
  <2> QED  BY <1>2, <2>1, <2>2, <2>3, <2>4
<1>3. ASSUME NEW c \in Cpu, EmitEvent(c) PROVE Probes'
  <2>1. /\ up /\ up' = up
        /\ \A d \in Cpu \ {c} : op'[d] = op[d]
        /\ op'[c].call = op[c].call /\ op'[c].emit = Tail(op[c].emit)
    BY <1>t, <1>3, OpType DEF EmitEvent, Probes, vars
  <2>2. op[c].call = "write" => op'[c].emit = <<>>
    <3>1. op[c].call = "write" => op[c].emit = <<"mtime">>
      BY <1>3 DEF EmitEvent, Probes
    <3>2. Tail(<<"mtime">>) = <<>>
      OBVIOUS
    <3> QED  BY <2>1, <3>1, <3>2
  <2> QED  BY <2>1, <2>2 DEF Probes
<1>4. ASSUME NEW c \in Cpu, Return(c) PROVE Probes'
  <2>1. /\ up' = up /\ ring' = ring /\ (excused = Path => excused' = Path)
    BY <1>4 DEF Return, WriteEffect, UnlinkEffect, RenameEffect, vars
  <2>2. \A d \in Cpu : \/ op'[d] = Idle
                       \/ op'[d].call = op[d].call /\ op'[d].emit = op[d].emit
    <3>1. CASE WriteEffect(c) \/ UnlinkEffect(c)
      BY <1>t, <3>1 DEF WriteEffect, UnlinkEffect, Returned
    <3>2. CASE RenameEffect(c)
      <4> ASSUME NEW d \in Cpu, op[d].call = "write"
          PROVE /\ [op[d] EXCEPT !.path = op[c].to].call = op[d].call
                /\ [op[d] EXCEPT !.path = op[c].to].emit = op[d].emit
        BY OpType
      <4> QED  BY <1>t, <3>2 DEF RenameEffect, Returned
    <3> QED  BY <1>4, <3>1, <3>2 DEF Return
  <2> QED  BY <2>1, <2>2 DEF Probes, Idle
<1>5. ASSUME NEW i \in Inode, Evict(i) \/ \E p \in AllPath : Create(p, i) PROVE Probes'
  <2>1. /\ op' = op /\ up' = up /\ ring' = ring
        /\ excused \subseteq excused' /\ excused' \subseteq excused \cup Path
    BY <1>5 DEF Evict, Create, vars
  <2> QED  BY <1>t, <2>1 DEF Probes
<1>6. CASE HandleEvent
  <2>1. up /\ up' = up /\ op' = op
    BY <1>6 DEF HandleEvent, HandleRenameFrom, HandleRenameTo, HandleOther, OnDelete,
                OnMtime, vars, kernel
  <2> QED  BY <2>1 DEF Probes
<1>7. CASE AgentTick
  <2>1. up /\ up' = up /\ op' = op
    BY <1>7 DEF AgentTick, Tick, kernel
  <2> QED  BY <2>1 DEF Probes
<1>8. CASE AgentStop
  <2>1. excused' = Path /\ ring' = <<>>
    BY <1>8 DEF AgentStop
  <2>2. ASSUME NEW c \in Cpu, op'[c].call # "idle" PROVE op'[c].emit = <<>>
    <3>1. op[c].call # "idle" /\ op'[c] = [op[c] EXCEPT !.emit = <<>>]
      BY <1>8, <2>2 DEF AgentStop, Idle
    <3> QED  BY <3>1, OpType
  <2> QED  BY <2>1, <2>2 DEF Probes
<1>9. CASE AgentStart
  BY <1>9 DEF AgentStart, Start, Probes, kernel
<1>10. CASE AgentAdvance
  <2>1. up' = up /\ excused' = excused /\ ring' = ring
    BY <1>10 DEF AgentAdvance, Advance
  <2>2. ASSUME NEW c \in Cpu
        PROVE \/ op'[c] = Idle
              \/ op'[c].call = op[c].call /\ op'[c].emit = op[c].emit
    <3>1. CASE op[c].call = "idle"
      BY <1>10, <3>1 DEF AgentAdvance
    <3>2. CASE op[c].call # "idle"
      <4> op'[c] = [op[c] EXCEPT !.age = @ + 1]
        BY <1>10, <3>2 DEF AgentAdvance
      <4> QED  BY <3>2, OpType
    <3> QED  BY <3>1, <3>2
  <2> QED  BY <2>1, <2>2 DEF Probes, Idle
<1>11. CASE UNCHANGED allVars
  BY <1>11 DEF allVars, agentVars, kernel, vars, Probes
<1> QED
  BY <1>2, <1>3, <1>4, <1>5, <1>6, <1>7, <1>8, <1>9, <1>10, <1>11 DEF AgentNext

-----------------------------------------------------------------------------
(***************************************************************************)
(* The coverage of writes, action by action.                               *)
(***************************************************************************)
Cover == Suppressing /\ InFlight /\ ChangesCovered

\* A call that enters takes no event away, and announces its own.
LEMMA EnterComing ==
  ASSUME AgentTypeOK, NEW c \in Cpu, NEW call, NEW p, NEW q, NEW i, NEW ev,
         Enter(c, call, p, q, i, ev)
  PROVE  /\ \A x : Coming(x) => Coming(x)'
         /\ call = "write" /\ up /\ ev # <<>> => Coming(p)'
<1>1. /\ op[c] = Idle /\ ring' = ring /\ op \in [Cpu -> Op]
      /\ op' = [op EXCEPT ![c] = [call |-> call, path |-> p, to |-> q, ino |-> i,
                                  emit |-> IF up THEN ev ELSE <<>>, age |-> 0]]
  BY DEF Enter, AgentTypeOK
<1>2. \A d \in Cpu \ {c} : op'[d] = op[d]
  BY <1>1
<1>3. /\ op'[c].call = call /\ op'[c].path = p
      /\ op'[c].emit = IF up THEN ev ELSE <<>>
  BY <1>1
<1> QED  BY <1>1, <1>2, <1>3 DEF Coming, InRing, Idle

\* The calls other than the one that enters are as they were.
LEMMA EnterCover ==
  ASSUME AInv, NEW c \in Cpu, NEW call, NEW p \in AllPath, NEW q, NEW i, NEW ev,
         Enter(c, call, p, q, i, ev), i = file[p],
         call = "write" => \/ up /\ ev # <<>>
                           \/ ~up
                           \/ Recent(file[p]) /\ file[p] # NoInode,
         \A x \in Path : \/ x \in excused' \/ Coming(x)'
                         \/ file[x] = NoInode \/ dedup'[file[x]] = dedup[file[x]],
         excused \subseteq excused'
  PROVE  Cover'
<1>1. /\ op \in [Cpu -> Op] /\ \A d \in Cpu \ {c} : op'[d] = op[d]
      /\ op'[c].call = call /\ op'[c].path = p /\ op'[c].ino = i /\ op'[c].age = 0
      /\ UNCHANGED <<entries, last, file, changed>>
  BY DEF AInv, AgentTypeOK, Enter, vars
<1>2. \A x : Coming(x) => Coming(x)'
  BY EnterComing DEF AInv
<1>3. Suppressing' /\ ChangesCovered'
  BY <1>1, <1>2 DEF AInv, Suppressing, ChangesCovered, Recent
<1>4. InFlight'
  <2> SUFFICES ASSUME NEW d \in Cpu, NEW x \in Path,
                      op'[d].call = "write", op'[d].path = x, file[x] = op'[d].ino
               PROVE  \/ x \in excused' \/ Coming(x)'
                      \/ x \in entries /\ last[x] < DedupInterval + op'[d].age
    BY <1>1 DEF InFlight
  <2>1. CASE d # c
    BY <1>1, <1>2, <2>1 DEF AInv, InFlight
  <2>2. CASE d = c /\ up /\ ev # <<>>
    BY <1>1, <2>2, EnterComing DEF AInv
  <2>3. CASE d = c /\ ~up
    BY <1>1, <2>3 DEF AInv, Probes
  <2>4. CASE d = c /\ Recent(file[p]) /\ file[p] # NoInode
    <3>1. x = p /\ file[x] \in Inode /\ dedup[file[x]] \in Nat /\ last[x] \in Nat
      BY <1>1, <2>4, AgentAssumption DEF AInv, AgentTypeOK, TypeOK
    <3> QED  BY <1>1, <1>2, <2>4, <3>1, AgentAssumption DEF AInv, Suppressing, Recent
  <2> QED  BY <1>1, <2>1, <2>2, <2>3, <2>4
<1> QED  BY <1>3, <1>4 DEF Cover

\* A write of an unwatched path, or a call on names, is no write to cover.
LEMMA VfsCover ==
  ASSUME AInv, NEW c \in Cpu, NEW p \in AllPath, NEW q \in AllPath,
         VfsWrite(c, p) \/ VfsUtimes(c, p) \/ VfsUnlink(c, p) \/ VfsRename(c, p, q)
  PROVE  Cover'
<1> DEFINE ev == IF Recent(file[p]) THEN <<>> ELSE <<"mtime">>
<1>1. CASE VfsUtimes(c, p)
  <2> Enter(c, "write", p, p, file[p], <<"mtime">>) /\ dedup' = dedup /\ excused' = excused
    BY <1>1 DEF VfsUtimes
  <2> QED  BY EnterCover
<1>2. CASE VfsUnlink(c, p)
  <2> Enter(c, "unlink", p, p, file[p], <<"delete">>) /\ dedup' = dedup /\ excused' = excused
    BY <1>2 DEF VfsUnlink
  <2> QED  BY EnterCover
<1>3. CASE VfsRename(c, p, q)
  <2> /\ Enter(c, "rename", p, q, file[p], <<"rename_from", "rename_to">>)
      /\ dedup' = dedup /\ excused' = excused
    BY <1>3 DEF VfsRename
  <2> QED  BY EnterCover
<1>4. CASE VfsWrite(c, p)
  <2>1. Enter(c, "write", p, p, file[p], ev) /\ file[p] # NoInode /\ excused \subseteq excused'
    BY <1>4 DEF VfsWrite
  <2>2. CASE up /\ ~Recent(file[p])
    <3>1. ev # <<>> /\ Coming(p)'
      BY <2>1, <2>2, EnterComing DEF AInv
    <3>2. ASSUME NEW x \in Path
          PROVE \/ x \in excused' \/ Coming(x)'
                \/ file[x] = NoInode \/ dedup'[file[x]] = dedup[file[x]]
      <4>1. /\ dedup' = [dedup EXCEPT ![file[p]] = 0] /\ SameNumber(p) \subseteq excused'
            /\ file[x] \in Inode \cup {NoInode} /\ DOMAIN dedup = Inode
        BY <1>4, <2>2 DEF VfsWrite, AInv, AgentTypeOK, AllPath
      <4> QED  BY <3>1, <4>1 DEF SameNumber
    <3> HIDE DEF ev
    <3> QED  BY <2>1, <2>2, <3>1, <3>2, EnterCover
  <2>3. CASE ~up \/ Recent(file[p])
    <3> dedup' = dedup
      BY <1>4, <2>3 DEF VfsWrite
    <3> HIDE DEF ev
    <3> QED  BY <2>1, <2>3, EnterCover
  <2> QED  BY <2>2, <2>3
<1> QED  BY <1>1, <1>2, <1>3, <1>4

\* An event goes from its call to the ring, or is dropped and excused.
LEMMA EmitCover == ASSUME AInv, NEW c \in Cpu, EmitEvent(c) PROVE Cover'
<1> DEFINE type == Head(op[c].emit)
           path == IF type = "rename_to" THEN op[c].to ELSE op[c].path
           evt == [type |-> type, path |-> path]
<1>1. /\ op \in [Cpu -> Op] /\ ring \in Seq(Event)
      /\ UNCHANGED <<entries, last, file, dedup, changed>> /\ excused \subseteq excused'
      /\ op' = [op EXCEPT ![c] = [op[c] EXCEPT !.emit = Tail(@)]]
      /\ op[c].call # "idle"
  BY DEF AInv, AgentTypeOK, EmitEvent, vars
<1>2. \A d \in Cpu : /\ op'[d].call = op[d].call /\ op'[d].path = op[d].path
                     /\ op'[d].ino = op[d].ino /\ op'[d].age = op[d].age
                     /\ d # c => op'[d].emit = op[d].emit
  BY <1>1, OpType DEF AInv
<1>3. IF RingHasRoom THEN ring' = Append(ring, evt)
                     ELSE excused' = excused \cup ({path} \cap Path) /\ ring' = ring
  BY DEF EmitEvent
<1>4. op[c].call = "write" => type = "mtime" /\ path = op[c].path
  <2>1. op[c].call = "write" => op[c].emit = <<"mtime">>
    BY DEF AInv, Probes, EmitEvent
  <2> QED  BY <2>1
<1>5. evt \in Event
  <2> type \in EventType
    BY <1>1, OpType DEF AInv, EmitEvent
  <2> QED  BY <1>1, OpType DEF AInv, Event
<1>6. ASSUME NEW x PROVE InRing(x) => InRing(x)'
  <2>1. CASE ring' = Append(ring, evt)
    BY <1>1, <1>5, <2>1 DEF InRing
  <2> QED  BY <1>3, <2>1 DEF InRing
<1>7. ASSUME NEW x \in Path, Coming(x) PROVE x \in excused' \/ Coming(x)'
  <2>1. CASE op[c].call = "write" /\ op[c].path = x
    <3>1. CASE RingHasRoom
      <4>1. ring' = Append(ring, evt) /\ evt = [type |-> "mtime", path |-> x]
        BY <1>3, <1>4, <2>1, <3>1
      <4>2. InRing(x)'
        <5> HIDE DEF evt
        <5>1. Len(ring') = Len(ring) + 1 /\ ring'[Len(ring) + 1] = evt /\ Len(ring) \in Nat
          BY <1>1, <1>5, <4>1
        <5> QED  BY <4>1, <5>1 DEF InRing
      <4> QED  BY <4>2 DEF Coming
    <3> QED  BY <1>3, <1>4, <2>1, <3>1
  <2>2. CASE ~(op[c].call = "write" /\ op[c].path = x)
    BY <1>2, <1>6, <1>7, <2>2 DEF Coming
  <2> QED  BY <2>1, <2>2
<1> HIDE DEF evt, path, type
<1>8. Suppressing' /\ ChangesCovered'
  BY <1>1, <1>7 DEF AInv, AgentTypeOK, Suppressing, ChangesCovered, Recent
<1>9. InFlight'
  BY <1>1, <1>2, <1>7 DEF AInv, InFlight
<1> QED  BY <1>8, <1>9 DEF Cover

\* A call that returns: a write that was in flight is covered.
LEMMA ReturnCover == ASSUME AInv, NEW c \in Cpu, Return(c) PROVE Cover'
<1>1. /\ op \in [Cpu -> Op] /\ file \in [AllPath -> Inode \cup {NoInode}]
      /\ op[c].call # "idle" /\ op[c].emit = <<>>
      /\ UNCHANGED <<entries, last, dedup, ring>>
      /\ op[c].path \in AllPath /\ op[c].to \in AllPath
  BY OpType DEF AInv, AgentTypeOK, Return, vars
<1>2. CASE WriteEffect(c) \/ UnlinkEffect(c)
  <2>1. \A d \in Cpu \ {c} : op'[d] = op[d]
    BY <1>1, <1>2 DEF WriteEffect, UnlinkEffect, Returned
  <2>2. op'[c] = Idle /\ excused' = excused
    BY <1>1, <1>2 DEF WriteEffect, UnlinkEffect, Returned
  <2>3. ASSUME NEW x PROVE Coming(x) => Coming(x)'
    BY <1>1, <2>1 DEF Coming, InRing
  <2>4. ASSUME NEW x \in Path PROVE file'[x] \in {file[x], NoInode}
    BY <1>1, <1>2 DEF WriteEffect, UnlinkEffect, AllPath
  <2>5. ASSUME NEW x \in changed' \ changed
        PROVE op[c].call = "write" /\ op[c].path = x /\ file[x] = op[c].ino /\ x \in Path
    BY <1>2, <2>5 DEF WriteEffect, UnlinkEffect
  <2>6. Suppressing'
    BY <1>1, <2>2, <2>3, <2>4 DEF AInv, Suppressing, Recent
  <2>7. InFlight'
    <3> SUFFICES ASSUME NEW d \in Cpu, NEW x \in Path,
                        op'[d].call = "write", op'[d].path = x, file'[x] = op'[d].ino
                 PROVE  \/ x \in excused' \/ Coming(x)'
                        \/ x \in entries' /\ last'[x] < DedupInterval + op'[d].age
      BY DEF InFlight
    <3>1. d # c /\ op'[d] = op[d] /\ op[d].ino \in Inode
      BY <2>1, <2>2, OpType DEF Idle, AInv
    <3>2. file'[x] = file[x]
      BY <2>4, <3>1, AgentAssumption
    <3> QED  BY <1>1, <2>2, <2>3, <3>1, <3>2 DEF AInv, InFlight
  <2>8. ChangesCovered'
    BY <1>1, <2>2, <2>3, <2>5 DEF AInv, ChangesCovered, InFlight
  <2> QED  BY <2>6, <2>7, <2>8 DEF Cover
<1>3. CASE RenameEffect(c)
  <2> DEFINE p == op[c].path
             q == op[c].to
  <2>1. CASE op' = Returned(c) /\ UNCHANGED <<file, changed, excused>>
    <3>1. op'[c] = Idle /\ \A d \in Cpu \ {c} : op'[d] = op[d]
      BY <1>1, <2>1 DEF Returned
    <3>2. ASSUME NEW x PROVE Coming(x) => Coming(x)'
      BY <1>1, <3>1 DEF Coming, InRing
    <3> QED  BY <1>1, <2>1, <3>1, <3>2
             DEF AInv, Cover, Suppressing, InFlight, ChangesCovered, Recent, Idle
  <2>2. CASE /\ file' = [file EXCEPT ![p] = NoInode, ![q] = file[p]]
             /\ op' = [d \in Cpu |->
                   IF d = c THEN Idle
                   ELSE IF op[d].call = "write" /\ op[d].ino = file[p] /\ op[d].path = p
                        THEN [op[d] EXCEPT !.path = q] ELSE op[d]]
             /\ changed' = changed \ {p, q}
             /\ excused' = excused \cup ({q} \cap Path)
    <3>1. ASSUME NEW x \in Path, x # q
          PROVE IF x = p THEN file'[x] = NoInode ELSE file'[x] = file[x]
      BY <1>1, <2>2, <3>1 DEF AllPath
    <3>2. ASSUME NEW d \in Cpu, NEW x, x # p, x # q, op'[d].call = "write" \/ op[d].call = "write",
                 op'[d].path = x \/ op[d].path = x, d # c
          PROVE op'[d] = op[d]
      <4>1. CASE op[d].call = "write" /\ op[d].ino = file[p] /\ op[d].path = p
        <5> op'[d] = [op[d] EXCEPT !.path = q] /\ op'[d].path = q
          BY <2>2, <3>2, <4>1, OpType DEF AInv
        <5> QED  BY <3>2, <4>1
      <4> QED  BY <2>2, <3>2, <4>1
    <3>3. op'[c] = Idle
      BY <2>2
    <3>4. ASSUME NEW x, x # p, x # q PROVE Coming(x) => Coming(x)'
      BY <1>1, <3>2, <3>4 DEF Coming, InRing
    <3>5. Suppressing'
      BY <1>1, <2>2, <3>1, <3>4 DEF AInv, Suppressing, Recent
    <3>6. InFlight'
      <4> SUFFICES ASSUME NEW d \in Cpu, NEW x \in Path,
                          op'[d].call = "write", op'[d].path = x, file'[x] = op'[d].ino
                   PROVE  \/ x \in excused' \/ Coming(x)'
                          \/ x \in entries' /\ last'[x] < DedupInterval + op'[d].age
        BY DEF InFlight
      <4>1. CASE x = q
        BY <2>2, <4>1
      <4>2. CASE x # q /\ x = p
        <5>1. file'[x] = NoInode /\ d # c
          BY <3>1, <3>3, <4>2 DEF Idle
        <5>2. op'[d].ino \in Inode
          BY AgentTypeStep, <5>1, OpType, <2>2 DEF AInv
        <5> QED  BY <5>1, <5>2, AgentAssumption
      <4>3. CASE x # q /\ x # p
        <5>1. d # c /\ op'[d] = op[d] /\ file'[x] = file[x]
          BY <3>1, <3>2, <3>3, <4>3 DEF Idle
        <5> QED  BY <1>1, <2>2, <3>4, <4>3, <5>1 DEF AInv, InFlight
      <4> QED  BY <4>1, <4>2, <4>3
    <3>7. ChangesCovered'
      BY <1>1, <2>2, <3>4 DEF AInv, ChangesCovered
    <3> QED  BY <3>5, <3>6, <3>7 DEF Cover
  <2> QED  BY <1>3, <2>1, <2>2 DEF RenameEffect
<1> QED  BY <1>2, <1>3 DEF Return

LEMMA CreateCover == ASSUME AInv, NEW p \in AllPath, NEW i \in Inode, Create(p, i) PROVE Cover'
<1>1. /\ UNCHANGED <<entries, last, op, dedup, ring, changed>>
      /\ file' = [file EXCEPT ![p] = i] /\ file \in [AllPath -> Inode \cup {NoInode}]
      /\ excused \subseteq excused' /\ (Recent(i) /\ p \in Path => p \in excused')
      /\ \A c \in Cpu : op[c].call = "write" => op[c].ino # i
  BY DEF AInv, AgentTypeOK, Create, vars
<1>2. \A x : Coming(x)' <=> Coming(x)
  BY <1>1 DEF Coming, InRing
<1>3. \A x \in Path : IF x = p THEN file'[x] = i ELSE file'[x] = file[x]
  BY <1>1 DEF AllPath
<1>4. Suppressing'
  BY <1>1, <1>2, <1>3 DEF AInv, Suppressing, Recent
<1>5. InFlight'
  BY <1>1, <1>2, <1>3 DEF AInv, InFlight
<1>6. ChangesCovered'
  BY <1>1, <1>2 DEF AInv, ChangesCovered
<1> QED  BY <1>4, <1>5, <1>6 DEF Cover

\* An evicted entry suppresses nothing.
LEMMA EvictCover == ASSUME AInv, NEW i \in Inode, Evict(i) PROVE Cover'
<1>1. /\ UNCHANGED <<entries, last, op, file, ring, changed, excused>>
      /\ dedup' = [dedup EXCEPT ![i] = DedupInterval] /\ dedup \in [Inode -> 0..DedupInterval]
      /\ file \in [AllPath -> Inode \cup {NoInode}]
  BY DEF AInv, AgentTypeOK, Evict, vars
<1>2. \A x : Coming(x)' <=> Coming(x)
  BY <1>1 DEF Coming, InRing
<1>3. Suppressing'
  BY <1>1, <1>2, AgentAssumption DEF AInv, Suppressing, Recent, AllPath
<1>4. InFlight' /\ ChangesCovered'
  BY <1>1, <1>2 DEF AInv, InFlight, ChangesCovered
<1> QED  BY <1>3, <1>4 DEF Cover

\* The event that leaves the ring is in an entry, or its path is excused.
LEMMA HandleCover == ASSUME AInv, HandleEvent PROVE Cover'
<1> DEFINE e == Head(ring)
<1>1. /\ UNCHANGED <<op, file, dedup>> /\ ring \in Seq(Event) /\ ring # <<>>
      /\ ring' = Tail(ring) /\ e \in Event
  BY DEF AInv, AgentTypeOK, HandleEvent, kernel
<1>2. ASSUME NEW x, e # [type |-> "mtime", path |-> x], InRing(x) PROVE InRing(x)'
  <2>1. PICK k \in 1..Len(ring) : ring[k] = [type |-> "mtime", path |-> x]
    BY <1>2 DEF InRing
  <2>2. k # 1 /\ k - 1 \in 1..Len(ring') /\ ring'[k - 1] = ring[k]
    BY <1>1, <1>2, <2>1
  <2> QED  BY <2>1, <2>2 DEF InRing
<1>3. ASSUME NEW x, e.type # "mtime" \/ e.path # x, Coming(x) PROVE Coming(x)'
  <2>1. e # [type |-> "mtime", path |-> x]
    BY <1>3
  <2> QED  BY <1>1, <1>2, <1>3, <2>1 DEF Coming
<1>4. CASE /\ e.type \in {"rename_from", "rename_to"} \/ e.path \notin Path
           /\ UNCHANGED <<vars, changed, excused>>
  <2>1. UNCHANGED <<entries, last, changed, excused>>
    BY <1>4 DEF vars
  <2>2. \A x \in Path : Coming(x) => Coming(x)'
    BY <1>3, <1>4
  <2>3. Suppressing' /\ InFlight'
    BY <1>1, <2>1, <2>2 DEF AInv, Suppressing, InFlight, Recent
  <2>4. ChangesCovered'
    BY <2>1, <2>2 DEF AInv, AgentTypeOK, ChangesCovered
  <2> QED  BY <2>3, <2>4 DEF Cover
<1>5. ASSUME e.path \in Path, e.path \in excused', excused \subseteq excused',
             changed' \subseteq changed,
             \A x \in Path \ {e.path} : /\ x \in entries' <=> x \in entries
                                        /\ last'[x] = last[x]
      PROVE Cover'
  <2>1. \A x \in Path \ {e.path} : Coming(x) => Coming(x)'
    BY <1>3
  <2>2. Suppressing'
    BY <1>1, <1>5, <2>1 DEF AInv, Suppressing, Recent
  <2>3. InFlight'
    BY <1>1, <1>5, <2>1 DEF AInv, InFlight
  <2>4. ChangesCovered'
    BY <1>1, <1>5, <2>1 DEF AInv, ChangesCovered, AgentTypeOK
  <2> QED  BY <2>2, <2>3, <2>4 DEF Cover
<1>6. CASE /\ e.path \in Path /\ OnDelete(e.path)
           /\ excused' = excused \cup {e.path} /\ UNCHANGED changed
  <2>1. \A x \in Path \ {e.path} : (x \in entries' <=> x \in entries) /\ last'[x] = last[x]
    BY <1>6 DEF OnDelete, Erase
  <2> HIDE DEF e
  <2> QED  BY <1>5, <1>6, <2>1
<1>7. CASE /\ e.path \in Path /\ OnMtime(e.path)
           /\ changed' = changed \ fired' /\ excused' = excused \cup fired'
  <2>1. CASE Overdue(e.path)
    <3>1. fired' = {e.path} /\ Erase({e.path})
      BY <1>7, <2>1 DEF OnMtime, Report
    <3>2. \A x \in Path \ {e.path} : (x \in entries' <=> x \in entries) /\ last'[x] = last[x]
      BY <3>1 DEF Erase
    <3> QED  BY <1>5, <1>7, <3>1, <3>2
  <2>2. CASE ~Overdue(e.path)
    <3>1. /\ entries' = entries \cup {e.path} /\ fired' = {}
          /\ last' = [last EXCEPT ![e.path] = 0] /\ last \in [Path -> Nat]
      BY <1>7, <2>2 DEF OnMtime, Touch, AInv, AgentTypeOK, TypeOK
    <3>2. e.path \in entries' /\ last'[e.path] = 0
      BY <1>7, <3>1
    <3>3. \A x \in Path \ {e.path} : (x \in entries' <=> x \in entries) /\ last'[x] = last[x]
      BY <3>1
    <3>4. \A x \in Path \ {e.path} : Coming(x) => Coming(x)'
      BY <1>3
    <3>5. changed' = changed /\ excused' = excused
      BY <1>7, <3>1
    <3>6. Suppressing'
      <4> \A x \in Path : file[x] # NoInode => dedup[file[x]] \in Nat
        BY DEF AInv, AgentTypeOK, AllPath
      <4> QED  BY <1>1, <3>2, <3>3, <3>4, <3>5 DEF AInv, Suppressing, Recent
    <3>7. InFlight'
      <4> \A c \in Cpu : op[c].call = "write" => op[c].age \in Nat
        BY OpType DEF AInv
      <4> QED  BY <1>1, <3>2, <3>3, <3>4, <3>5, AgentAssumption DEF AInv, InFlight
    <3>8. ChangesCovered'
      BY <3>2, <3>3, <3>4, <3>5 DEF AInv, AgentTypeOK, ChangesCovered
    <3> QED  BY <3>6, <3>7, <3>8 DEF Cover
  <2> QED  BY <2>1, <2>2
<1> QED
  BY <1>4, <1>6, <1>7 DEF HandleEvent, HandleRenameFrom, HandleRenameTo, HandleOther

\* tick takes no entry that a suppressed write relies on.
LEMMA TickCover == ASSUME AInv, AgentTick PROVE Cover'
<1>1. /\ UNCHANGED <<op, file, dedup, ring>> /\ entries' = entries \ QuietEntries
      /\ fired' = QuietEntries /\ changed' = changed \ QuietEntries
      /\ excused' = excused \ (QuietEntries \cap Settled)
  BY DEF AgentTick, Tick, Erase, Report, kernel
<1>2. \A x \in Path \ QuietEntries : last'[x] = last[x]
  BY DEF AgentTick, Tick, Erase
<1>3. \A x : Coming(x)' <=> Coming(x)
  BY <1>1 DEF Coming, InRing
<1>4. \A x \in QuietEntries : x \in Path /\ last[x] \in Nat /\ last[x] >= DedupInterval + CallTime
  BY AgentAssumption, DebouncerAssumption DEF QuietEntries, AInv, AgentTypeOK, TypeOK
<1>5. Suppressing'
  <2> SUFFICES ASSUME NEW x \in Path, file[x] # NoInode, Recent(file[x])
               PROVE  \/ x \in excused' \/ Coming(x)'
                      \/ x \in entries' /\ last'[x] <= dedup[file[x]]
    BY <1>1 DEF Suppressing, Recent
  <2>1. x \notin Settled /\ dedup[file[x]] \in Nat /\ dedup[file[x]] < DedupInterval
    BY DEF Settled, Recent, AInv, AgentTypeOK, AllPath
  <2>2. CASE x \in QuietEntries
    <3> ~(last[x] <= dedup[file[x]])
      BY <1>4, <2>1, <2>2, AgentAssumption
    <3> QED  BY <1>1, <1>3, <2>1 DEF AInv, Suppressing
  <2>3. CASE x \notin QuietEntries
    BY <1>1, <1>2, <1>3, <2>3 DEF AInv, Suppressing
  <2> QED  BY <2>2, <2>3
<1>6. InFlight'
  <2> SUFFICES ASSUME NEW c \in Cpu, NEW x \in Path,
                      op[c].call = "write", op[c].path = x, file[x] = op[c].ino
               PROVE  \/ x \in excused' \/ Coming(x)'
                      \/ x \in entries' /\ last'[x] < DedupInterval + op[c].age
    BY <1>1 DEF InFlight
  <2>1. x \notin Settled /\ op[c].age \in 0..CallTime
    BY OpType DEF Settled, AInv
  <2>2. CASE x \in QuietEntries
    <3> ~(last[x] < DedupInterval + op[c].age)
      BY <1>4, <2>1, <2>2, AgentAssumption
    <3> QED  BY <1>1, <1>3, <2>1 DEF AInv, InFlight
  <2>3. CASE x \notin QuietEntries
    BY <1>1, <1>2, <1>3, <2>3 DEF AInv, InFlight
  <2> QED  BY <2>2, <2>3
<1>7. ChangesCovered'
  BY <1>1, <1>3 DEF AInv, ChangesCovered
<1> QED  BY <1>5, <1>6, <1>7 DEF Cover

\* The clocks of the dedup map, the calls and the entries advance together.
LEMMA AdvanceCover == ASSUME AInv, AgentAdvance PROVE Cover'
<1>1. /\ UNCHANGED <<entries, file, ring, changed, excused>>
      /\ \A x \in entries : last'[x] = last[x] + 1 /\ last[x] \in Nat
  BY DEF AgentAdvance, Advance, AInv, AgentTypeOK, TypeOK
<1>2. ASSUME NEW c \in Cpu
      PROVE IF op[c].call = "idle" THEN op'[c] = Idle
            ELSE /\ op'[c].call = op[c].call /\ op'[c].path = op[c].path
                 /\ op'[c].ino = op[c].ino /\ op'[c].emit = op[c].emit
                 /\ op'[c].age = op[c].age + 1 /\ op[c].age \in Nat
  <2>1. CASE op[c].call = "idle"
    BY <2>1 DEF AgentAdvance
  <2>2. CASE op[c].call # "idle"
    <3> op'[c] = [op[c] EXCEPT !.age = @ + 1]
      BY <2>2 DEF AgentAdvance
    <3> QED  BY <2>2, OpType DEF AInv
  <2> QED  BY <2>1, <2>2
<1>3. ASSUME NEW x, Coming(x) PROVE Coming(x)'
  BY <1>1, <1>2, <1>3 DEF Coming, InRing
<1>4. ASSUME NEW i \in Inode, dedup'[i] < DedupInterval
      PROVE Recent(i) /\ dedup'[i] = dedup[i] + 1 /\ dedup[i] \in Nat
  BY <1>4 DEF AgentAdvance, Recent, AInv, AgentTypeOK
<1>5. Suppressing'
  <2> SUFFICES ASSUME NEW x \in Path, file[x] # NoInode, dedup'[file[x]] < DedupInterval
               PROVE  \/ x \in excused \/ Coming(x)'
                      \/ x \in entries /\ last'[x] <= dedup'[file[x]]
    BY <1>1 DEF Suppressing, Recent
  <2> file[x] \in Inode
    BY DEF AInv, AgentTypeOK, AllPath
  <2> QED  BY <1>1, <1>3, <1>4 DEF AInv, Suppressing
<1>6. InFlight'
  <2> SUFFICES ASSUME NEW c \in Cpu, NEW x \in Path,
                      op'[c].call = "write", op'[c].path = x, file[x] = op'[c].ino
               PROVE  \/ x \in excused \/ Coming(x)'
                      \/ x \in entries /\ last'[x] < DedupInterval + op'[c].age
    BY <1>1 DEF InFlight
  <2> op[c].call # "idle"
    BY <1>2 DEF Idle
  <2> QED  BY <1>1, <1>2, <1>3, AgentAssumption DEF AInv, InFlight
<1>7. ChangesCovered'
  BY <1>1, <1>3 DEF AInv, ChangesCovered
<1> QED  BY <1>5, <1>6, <1>7 DEF Cover

LEMMA CoverStep == AInv /\ [AgentNext]_allVars => Cover'
<1> SUFFICES ASSUME AInv, [AgentNext]_allVars PROVE Cover'
  OBVIOUS
<1>1. CASE AgentStop
  <2> excused' = Path /\ changed' \subseteq Path
    BY <1>1 DEF AgentStop, AInv, AgentTypeOK
  <2> QED  BY DEF Cover, Suppressing, InFlight, ChangesCovered
<1>2. CASE AgentStart \/ UNCHANGED allVars
  <2>1. UNCHANGED <<entries, last, op, file, dedup, ring, changed, excused>>
    BY <1>2 DEF AgentStart, Start, allVars, agentVars, vars, kernel
  <2>2. \A x : Coming(x)' <=> Coming(x)
    BY <2>1 DEF Coming, InRing
  <2> QED  BY <2>1, <2>2 DEF AInv, Cover, Suppressing, InFlight, ChangesCovered, Recent
<1> QED
  BY <1>1, <1>2, VfsCover, EmitCover, ReturnCover, CreateCover, EvictCover, HandleCover,
     TickCover, AdvanceCover DEF AgentNext

LEMMA AgentInductive == AgentSpec => []AInv
<1>1. AgentInit => AInv
  <2> SUFFICES ASSUME AgentInit PROVE AInv
    OBVIOUS
  <2>1. up /\ \A c \in Cpu : op[c].call = "idle"
    BY DEF AgentInit, Init, Idle
  <2>2. \A i \in Inode : ~Recent(i)
    BY AgentAssumption DEF AgentInit, Recent
  <2> QED
    BY <2>1, <2>2, AgentInitType
    DEF AgentInit, AInv, AgentTypeOK, Probes, Suppressing, InFlight, ChangesCovered, AllPath
<1>2. AInv /\ [AgentNext]_allVars => AInv'
  BY AgentTypeStep, ProbesStep, CoverStep DEF AInv, Cover
<1> QED  BY <1>1, <1>2, PTL DEF AgentSpec

\* The dedup map and the debouncer together lose no write, for any number of
\* CPUs and any interleaving of the calls, beyond the named exceptions.
THEOREM WritesCovered == AgentSpec => []ChangesCovered
<1> QED  BY AgentInductive, PTL DEF AInv

-----------------------------------------------------------------------------
(***************************************************************************)
(* Renames are paired if the ring takes every event and no two renames     *)
(* emit at the same time.  handle_event keeps one rename_from and any      *)
(* other event clears it, so only neighbours in the ring are paired: the   *)
(* invariant says that a rename_to right after a rename_from (or at the    *)
(* head, for the pending one) is of the same call, and that the            *)
(* rename_from of a call that still has its rename_to to emit is the last  *)
(* one in the ring.                                                        *)
(***************************************************************************)
Emitting(c) == op[c].call = "rename" /\ op[c].emit # <<>>

\* The probes of two renames do not overlap.
ProbesApart == \A c, d \in Cpu : Emitting(c) /\ Emitting(d) => c = d

\* No event is lost at the ring.
NothingDropped == [][\A c \in Cpu : EmitEvent(c) => RingHasRoom]_allVars

\* The rename_to at k, if it is paired, is paired with its own rename_from.
RingPaired ==
    \A k \in 1..Len(ring) : ring[k].type = "rename_to" =>
        IF k = 1 THEN pending = None \/ <<pending, ring[k].path>> \in made
                 ELSE ring[k - 1].type = "rename_from" =>
                          <<ring[k - 1].path, ring[k].path>> \in made

\* The event before the next one to come, if it is a rename_from, is of path p.
LastFrom(p) == IF ring = <<>> THEN pending = None \/ pending = p
               ELSE ring[Len(ring)].type = "rename_from" => ring[Len(ring)].path = p

CallPaired(c) ==
    /\ op[c].call = "write" => op[c].emit \in {<<>>, <<"mtime">>}
    /\ op[c].call = "unlink" => op[c].emit \in {<<>>, <<"delete">>}
    /\ op[c].call = "rename" =>
          /\ <<op[c].path, op[c].to>> \in made
          /\ op[c].emit \in {<<>>, <<"rename_to">>, <<"rename_from", "rename_to">>}
          /\ op[c].emit = <<"rename_to">> => LastFrom(op[c].path)

PairInv == RenamesPaired /\ RingPaired /\ \A c \in Cpu : CallPaired(c)

\* A call goes on with what it has still to emit, or is over.
GoesOn(c) ==
    \/ op'[c] = Idle
    \/ /\ op'[c].call = op[c].call /\ op'[c].to = op[c].to /\ op'[c].emit = op[c].emit
       /\ op[c].call = "rename" => op'[c].path = op[c].path

\* A step that leaves the ring alone and begins no rename keeps the pairs.
LEMMA PairFrame ==
  ASSUME PairInv, UNCHANGED <<ring, pending>>, renamed' = {}, made \subseteq made',
         \A c \in Cpu : GoesOn(c) \/ CallPaired(c)'
  PROVE  PairInv'
<1>1. RenamesPaired' /\ RingPaired'
  BY DEF PairInv, RenamesPaired, RingPaired
<1>2. ASSUME NEW c \in Cpu, GoesOn(c) PROVE CallPaired(c)'
  <2>1. CASE op'[c] = Idle
    BY <2>1 DEF CallPaired, Idle
  <2>2. CASE /\ op'[c].call = op[c].call /\ op'[c].to = op[c].to /\ op'[c].emit = op[c].emit
             /\ op[c].call = "rename" => op'[c].path = op[c].path
    <3>1. CallPaired(c)
      BY DEF PairInv
    <3>2. op[c].call = "rename" /\ LastFrom(op[c].path) => LastFrom(op[c].path)'
      BY <2>2 DEF LastFrom
    <3> QED  BY <2>2, <3>1, <3>2 DEF CallPaired
  <2> QED  BY <1>2, <2>1, <2>2 DEF GoesOn
<1> QED  BY <1>1, <1>2 DEF PairInv

\* A call that enters keeps the pairs.
LEMMA PairEnter ==
  ASSUME AgentTypeOK, PairInv, NEW c \in Cpu, NEW p \in AllPath, NEW q \in AllPath,
         NEW call \in {"write", "unlink", "rename"}, NEW i, NEW ev,
         Enter(c, call, p, q, i, ev), made \subseteq made',
         call = "write" => ev \in {<<>>, <<"mtime">>},
         call = "unlink" => ev = <<"delete">>,
         call = "rename" => ev = <<"rename_from", "rename_to">> /\ <<p, q>> \in made'
  PROVE  PairInv'
<1>1. /\ UNCHANGED <<ring, pending>> /\ renamed' = {} /\ op \in [Cpu -> Op]
      /\ op' = [op EXCEPT ![c] = [call |-> call, path |-> p, to |-> q, ino |-> i,
                                  emit |-> IF up THEN ev ELSE <<>>, age |-> 0]]
  BY DEF Enter, AgentTypeOK
<1>2. /\ op'[c].call = call /\ op'[c].path = p /\ op'[c].to = q
      /\ op'[c].emit \in {ev, <<>>}
      /\ \A d \in Cpu \ {c} : op'[d] = op[d]
  BY <1>1
<1>3. CallPaired(c)'
  <2>1. <<>> # <<"rename_to">> /\ <<"rename_from", "rename_to">> # <<"rename_to">>
    OBVIOUS
  <2> QED  BY <1>2, <2>1 DEF CallPaired
<1>4. \A d \in Cpu \ {c} : GoesOn(d)
  BY <1>2 DEF GoesOn
<1> QED  BY <1>1, <1>3, <1>4, PairFrame

\* An event that goes into the ring keeps the pairs: a rename_to finds its own
\* rename_from there, or none.
LEMMA PairEmit ==
  ASSUME AgentTypeOK, PairInv, ProbesApart, NEW c \in Cpu, EmitEvent(c), RingHasRoom
  PROVE  PairInv'
<1> DEFINE type == Head(op[c].emit)
           path == IF type = "rename_to" THEN op[c].to ELSE op[c].path
           n == Len(ring)
<1>1. /\ op[c].call # "idle" /\ op[c].emit # <<>>
      /\ ring' = Append(ring, [type |-> type, path |-> path])
      /\ op' = [op EXCEPT ![c].emit = Tail(@)]
      /\ renamed' = {} /\ UNCHANGED <<pending, made>>
  BY DEF EmitEvent
<1>2. /\ op[c] \in [call : {"write", "unlink", "rename"}, path : AllPath, to : AllPath,
                    ino : Inode, emit : Seq(EventType), age : 0..CallTime]
      /\ op \in [Cpu -> Op] /\ ring \in Seq(Event)
  BY <1>1, OpType DEF AgentTypeOK
<1>3. /\ op'[c].call = op[c].call /\ op'[c].path = op[c].path /\ op'[c].to = op[c].to
      /\ op'[c].emit = Tail(op[c].emit)
      /\ \A d \in Cpu \ {c} : op'[d] = op[d]
  BY <1>1, <1>2
<1>4. \/ op[c].call = "write" /\ type = "mtime" /\ op'[c].emit = <<>>
      \/ op[c].call = "unlink" /\ type = "delete" /\ op'[c].emit = <<>>
      \/ op[c].call = "rename" /\ type = "rename_to" /\ op'[c].emit = <<>>
                               /\ op[c].emit = <<"rename_to">>
      \/ op[c].call = "rename" /\ type = "rename_from" /\ op'[c].emit = <<"rename_to">>
  <2>1. /\ Head(<<"mtime">>) = "mtime" /\ Tail(<<"mtime">>) = <<>>
        /\ Head(<<"delete">>) = "delete" /\ Tail(<<"delete">>) = <<>>
        /\ Head(<<"rename_to">>) = "rename_to" /\ Tail(<<"rename_to">>) = <<>>
        /\ Head(<<"rename_from", "rename_to">>) = "rename_from"
        /\ Tail(<<"rename_from", "rename_to">>) = <<"rename_to">>
    OBVIOUS
  <2>2. CallPaired(c)
    BY DEF PairInv
  <2> QED  BY <1>1, <1>2, <1>3, <2>1, <2>2 DEF CallPaired
<1>5. /\ n \in Nat /\ Len(ring') = n + 1 /\ ring' # <<>>
      /\ ring'[n + 1] = [type |-> type, path |-> path]
      /\ \A k \in 1..n : ring'[k] = ring[k]
      /\ ring = <<>> <=> n = 0
  BY <1>1, <1>2
<1>6. ring'[n + 1].type = type /\ ring'[n + 1].path = path
  BY <1>5
<1>7. RingPaired'
  <2> SUFFICES ASSUME NEW k \in 1..(n + 1), ring'[k].type = "rename_to"
               PROVE  IF k = 1 THEN pending = None \/ <<pending, ring'[k].path>> \in made
                      ELSE ring'[k - 1].type = "rename_from" =>
                             <<ring'[k - 1].path, ring'[k].path>> \in made
    BY <1>1, <1>5 DEF RingPaired
  <2>1. CASE k \in 1..n
    <3>1. k # 1 => k - 1 \in 1..n
      BY <1>5, <2>1
    <3> QED  BY <1>5, <2>1, <3>1 DEF PairInv, RingPaired
  <2>2. CASE k = n + 1
    <3>1. /\ <<op[c].path, op[c].to>> \in made /\ LastFrom(op[c].path) /\ path = op[c].to
          /\ ring'[k].path = op[c].to
      BY <1>4, <1>6, <2>2 DEF PairInv, CallPaired
    <3>2. CASE n = 0
      BY <1>5, <2>2, <3>1, <3>2 DEF LastFrom
    <3>3. CASE n # 0
      <4>1. k # 1 /\ ring'[k - 1] = ring[n]
        BY <1>5, <2>2, <3>3
      <4> QED  BY <1>5, <3>1, <3>3, <4>1 DEF LastFrom
    <3> QED  BY <3>2, <3>3
  <2> QED  BY <1>5, <2>1, <2>2
<1>8. ASSUME NEW d \in Cpu PROVE CallPaired(d)'
  <2>1. CASE d = c
    <3>1. op'[c].emit = <<"rename_to">> => LastFrom(op[c].path)'
      <4>1. <<"rename_to">> # <<>>
        OBVIOUS
      <4>2. op'[c].emit = <<"rename_to">> => path = op[c].path /\ op[c].call = "rename"
        BY <1>4, <4>1
      <4>3. op'[c].path = op[c].path
        BY <1>3
      <4> HIDE DEF path, type
      <4> QED  BY <1>5, <1>6, <4>2, <4>3 DEF LastFrom
    <3>2. op[c].call = "rename" => <<op[c].path, op[c].to>> \in made
      BY DEF PairInv, CallPaired
    <3> QED  BY <1>1, <1>3, <1>4, <2>1, <3>1, <3>2 DEF CallPaired
  <2>2. CASE d # c
    <3>1. CallPaired(d) /\ op'[d] = op[d]
      BY <1>3, <2>2 DEF PairInv
    <3>2. op[d].call = "rename" /\ op[d].emit = <<"rename_to">> => LastFrom(op[d].path)'
      <4> SUFFICES ASSUME op[d].call = "rename", op[d].emit = <<"rename_to">>
                   PROVE  LastFrom(op[d].path)'
        OBVIOUS
      <4>1. Emitting(d)
        BY DEF Emitting
      <4>2. op[c].call # "rename"
        BY <1>1, <2>2, <4>1 DEF ProbesApart, Emitting
      <4>3. type # "rename_from"
        BY <1>4, <4>2
      <4> HIDE DEF path, type
      <4> QED  BY <1>5, <1>6, <3>1, <4>3 DEF LastFrom
    <3>3. /\ op[d].call = "write" => op[d].emit \in {<<>>, <<"mtime">>}
          /\ op[d].call = "unlink" => op[d].emit \in {<<>>, <<"delete">>}
          /\ op[d].call = "rename" =>
                /\ <<op[d].path, op[d].to>> \in made'
                /\ op[d].emit \in {<<>>, <<"rename_to">>, <<"rename_from", "rename_to">>}
      BY <1>1, <3>1, Zenon DEF CallPaired
    <3> HIDE DEF path, type, n
    <3> QED  BY <3>1, <3>2, <3>3 DEF CallPaired
  <2> QED  BY <2>1, <2>2
<1> QED  BY <1>1, <1>7, <1>8 DEF PairInv, RenamesPaired

\* Only the empty sequence has length 0.
LEMMA LengthOfEmpty == ASSUME NEW S, NEW s \in Seq(S) PROVE s = <<>> <=> Len(s) = 0
  OBVIOUS

\* Handling an event keeps the pairs and reports only a rename that was called.
LEMMA PairHandle == ASSUME AgentTypeOK, PairInv, HandleEvent PROVE PairInv'
<1> DEFINE e == Head(ring)
           n == Len(ring)
<1>1. /\ ring # <<>> /\ ring' = Tail(ring) /\ UNCHANGED <<op, made>>
      /\ \/ e.type = "rename_from" /\ pending' = e.path /\ renamed' = {}
         \/ /\ e.type = "rename_to" /\ pending' = None
            /\ renamed' \in {{}, {<<pending, e.path>>}}
            /\ pending = None => renamed' = {}
         \/ e.type \in {"delete", "mtime"} /\ pending' = None /\ renamed' = {}
  BY DEF HandleEvent, HandleRenameFrom, HandleRenameTo, HandleOther, kernel
<1>2. /\ ring \in Seq(Event) /\ n \in Nat \ {0} /\ e = ring[1]
      /\ Len(ring') = n - 1 /\ \A k \in 1..(n - 1) : ring'[k] = ring[k + 1]
      /\ ring' = <<>> <=> n = 1
  <2>1. ring \in Seq(Event) /\ ring # <<>> /\ ring' = Tail(ring)
    BY <1>1 DEF AgentTypeOK
  <2>2. n \in Nat \ {0} /\ e = ring[1]
    BY <2>1
  <2>3. ring' \in Seq(Event) /\ Len(ring') = n - 1
    BY <2>1
  <2>4. \A k \in 1..(n - 1) : ring'[k] = ring[k + 1]
    BY <2>1
  <2>5. ring' = <<>> <=> Len(ring') = 0
    BY <2>3, LengthOfEmpty
  <2> HIDE DEF e, n
  <2> QED  BY <2>1, <2>2, <2>3, <2>4, <2>5
<1> HIDE DEF e
<1>3. RenamesPaired'
  <2>0. 1 \in 1..Len(ring) /\ ring[1] = e
    BY <1>2
  <2>1. e.type = "rename_to" => pending = None \/ <<pending, e.path>> \in made
    BY <2>0 DEF PairInv, RingPaired
  <2> QED  BY <1>1, <2>1 DEF RenamesPaired
<1>4. RingPaired'
  <2> SUFFICES ASSUME NEW k \in 1..(n - 1), ring'[k].type = "rename_to"
               PROVE  IF k = 1 THEN pending' = None \/ <<pending', ring'[k].path>> \in made
                      ELSE ring'[k - 1].type = "rename_from" =>
                             <<ring'[k - 1].path, ring'[k].path>> \in made
    BY <1>1, <1>2 DEF RingPaired
  <2>1. /\ k + 1 \in 1..n /\ k + 1 # 1 /\ ring'[k] = ring[k + 1] /\ (k + 1) - 1 = k
    BY <1>2
  <2>2. ring[k].type = "rename_from" => <<ring[k].path, ring[k + 1].path>> \in made
    BY <2>1 DEF PairInv, RingPaired
  <2>3. CASE k = 1
    BY <1>1, <1>2, <2>1, <2>2, <2>3
  <2>4. CASE k # 1
    <3>1. k - 1 \in 1..(n - 1) /\ ring'[k - 1] = ring[k]
      BY <1>2, <2>4
    <3> QED  BY <2>1, <2>2, <2>4, <3>1
  <2> QED  BY <2>3, <2>4
<1>5. ASSUME NEW c \in Cpu PROVE CallPaired(c)'
  <2>1. CallPaired(c) /\ op'[c] = op[c]
    BY <1>1 DEF PairInv
  <2>2. ASSUME LastFrom(op[c].path) PROVE LastFrom(op[c].path)'
    <3>1. CASE n = 1
      <4>1. ring[n] = e /\ ring' = <<>> /\ ring # <<>>
        BY <1>1, <1>2, <3>1
      <4> QED  BY <1>1, <2>1, <2>2, <4>1 DEF LastFrom
    <3>2. CASE n # 1
      <4>1. ring' # <<>> /\ ring # <<>> /\ ring'[Len(ring')] = ring[n]
        BY <1>1, <1>2, <3>2
      <4> QED  BY <2>1, <2>2, <4>1 DEF LastFrom
    <3> QED  BY <3>1, <3>2
  <2> QED  BY <1>1, <2>1, <2>2 DEF CallPaired
<1> QED  BY <1>3, <1>4, <1>5 DEF PairInv

\* A step that changes nothing keeps the pairs.
LEMMA PairUnchanged == ASSUME PairInv, UNCHANGED allVars PROVE PairInv'
<1>1. UNCHANGED <<ring, pending, made, op, renamed>>
  BY DEF allVars, agentVars, kernel
<1> QED  BY <1>1 DEF PairInv, RenamesPaired, RingPaired, CallPaired, LastFrom

\* Every step keeps the pairs.
LEMMA PairStep ==
  ASSUME AgentTypeOK, PairInv, ProbesApart, [AgentNext]_allVars,
         [\A c \in Cpu : EmitEvent(c) => RingHasRoom]_allVars
  PROVE  PairInv'
<1>t. op \in [Cpu -> Op]
  BY DEF AgentTypeOK
<1>1. ASSUME NEW c \in Cpu, NEW p \in AllPath, NEW q \in AllPath,
             VfsWrite(c, p) \/ VfsUtimes(c, p) \/ VfsUnlink(c, p) \/ VfsRename(c, p, q)
      PROVE PairInv'
  <2>1. CASE VfsWrite(c, p)
    BY <2>1, PairEnter DEF VfsWrite
  <2>2. CASE VfsUtimes(c, p)
    BY <2>2, PairEnter DEF VfsUtimes
  <2>3. CASE VfsUnlink(c, p)
    BY <2>3, PairEnter DEF VfsUnlink
  <2>4. CASE VfsRename(c, p, q)
    BY <2>4, PairEnter DEF VfsRename
  <2> QED  BY <1>1, <2>1, <2>2, <2>3, <2>4
<1>2. ASSUME NEW c \in Cpu, EmitEvent(c) PROVE PairInv'
  <2>1. CASE RingHasRoom
    BY <1>2, <2>1, PairEmit
  <2>2. CASE UNCHANGED allVars
    BY <2>2, PairUnchanged
  <2> QED  BY <1>2, <2>1, <2>2
<1>3. ASSUME NEW c \in Cpu, Return(c) PROVE PairInv'
  <2>1. UNCHANGED <<ring, pending, made>> /\ renamed' = {}
    BY <1>3 DEF Return
  <2>2. ASSUME NEW d \in Cpu PROVE GoesOn(d)
    <3>1. CASE WriteEffect(c) \/ UnlinkEffect(c)
      BY <1>t, <3>1 DEF WriteEffect, UnlinkEffect, Returned, GoesOn
    <3>2. CASE RenameEffect(c)
      <4>1. op[d].call = "write" =>
              LET o == [op[d] EXCEPT !.path = op[c].to] IN
                o.call = op[d].call /\ o.to = op[d].to /\ o.emit = op[d].emit
        BY OpType
      <4> QED  BY <1>t, <3>2, <4>1 DEF RenameEffect, Returned, GoesOn
    <3> QED  BY <1>3, <3>1, <3>2 DEF Return
  <2> QED  BY <2>1, <2>2, PairFrame
<1>4. ASSUME \/ \E i \in Inode : Evict(i) \/ \E p \in AllPath : Create(p, i)
             \/ AgentTick \/ AgentStart
      PROVE PairInv'
  <2>1. UNCHANGED <<ring, pending, made, op>> /\ renamed' = {}
    BY <1>4 DEF Evict, Create, AgentTick, AgentStart, kernel
  <2> QED  BY <2>1, PairFrame DEF GoesOn
<1>5. CASE HandleEvent
  BY <1>5, PairHandle
<1>6. CASE AgentStop
  <2>1. ring' = <<>> /\ pending' = None /\ renamed' = {} /\ made' = made
    BY <1>6 DEF AgentStop
  <2>2. ASSUME NEW c \in Cpu PROVE CallPaired(c)'
    <3>1. CASE op[c].call = "idle"
      BY <1>6, <3>1 DEF AgentStop, CallPaired, Idle
    <3>2. CASE op[c].call # "idle"
      <4>1. op'[c] = [op[c] EXCEPT !.emit = <<>>]
        BY <1>6, <3>2 DEF AgentStop
      <4>2. /\ op'[c].call = op[c].call /\ op'[c].path = op[c].path /\ op'[c].to = op[c].to
            /\ op'[c].emit = <<>> /\ <<>> # <<"rename_to">>
        BY <3>2, <4>1, OpType
      <4> QED  BY <2>1, <4>2 DEF PairInv, CallPaired
    <3> QED  BY <3>1, <3>2
  <2> QED  BY <2>1, <2>2 DEF PairInv, RenamesPaired, RingPaired
<1>7. CASE AgentAdvance
  <2>1. UNCHANGED <<ring, pending, made>> /\ renamed' = {}
    BY <1>7 DEF AgentAdvance
  <2>2. ASSUME NEW c \in Cpu PROVE GoesOn(c)
    <3>1. CASE op[c].call = "idle"
      BY <1>7, <3>1 DEF AgentAdvance, GoesOn
    <3>2. CASE op[c].call # "idle"
      <4>1. op'[c] = [op[c] EXCEPT !.age = @ + 1]
        BY <1>7, <3>2 DEF AgentAdvance
      <4> QED  BY <3>2, <4>1, OpType DEF GoesOn
    <3> QED  BY <3>1, <3>2
  <2> QED  BY <2>1, <2>2, PairFrame
<1>8. CASE UNCHANGED allVars
  BY <1>8, PairUnchanged
<1> QED  BY <1>1, <1>2, <1>3, <1>4, <1>5, <1>6, <1>7, <1>8 DEF AgentNext

\* If the ring loses no event and the probes of two renames do not overlap, what
\* handle_event reports as a rename is one, whatever other events come between
\* a rename_from and its rename_to.
THEOREM RenamesPairedApart == AgentSpec /\ []ProbesApart /\ NothingDropped => []RenamesPaired
<1>1. AgentInit => PairInv
  <2> SUFFICES ASSUME AgentInit PROVE PairInv
    OBVIOUS
  <2>1. ring = <<>> /\ Len(ring) = 0 /\ renamed = {} /\ \A c \in Cpu : op[c] = Idle
    BY DEF AgentInit
  <2> QED  BY <2>1 DEF PairInv, RenamesPaired, RingPaired, CallPaired, Idle
<1>2. /\ AgentTypeOK /\ PairInv /\ ProbesApart /\ [AgentNext]_allVars
      /\ [\A c \in Cpu : EmitEvent(c) => RingHasRoom]_allVars
      => PairInv'
  BY PairStep
<1>3. PairInv => RenamesPaired
  BY DEF PairInv
<1> QED  BY <1>1, <1>2, <1>3, AgentTypeCorrect, PTL DEF AgentSpec, NothingDropped

=============================================================================
