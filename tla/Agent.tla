------------------------------- MODULE Agent -------------------------------
(***************************************************************************)
(* From a system call to the debouncer: the eBPF probes, which run on many *)
(* CPUs at the entry of vfs_write, do_truncate, vfs_utimes, vfs_unlink and *)
(* vfs_rename, their dedup map and ring buffer (bpf/probe.bpf.c), and the  *)
(* main loop's handle_event (main.cpp), which pairs renames, filters by    *)
(* prefix and calls the debouncer of module Debouncer.                     *)
(*                                                                         *)
(* A call is in flight on its CPU while its probe emits events, one step   *)
(* each; the change it makes comes only after that, and may fail.  Calls   *)
(* on names hold the locks of their directories (of the VFS, external);    *)
(* writes exclude nothing.  The dedup map is keyed by inode number, which  *)
(* is unique on a device and free again after a delete; its lookup and     *)
(* update are one step: two CPUs that overlap there only emit twice.  A    *)
(* file has one name: hard links are left out.                             *)
(***************************************************************************)
EXTENDS Debouncer, Sequences

CONSTANTS
    Outside,            \* Paths without the watched prefix
    Dir,                \* Dir[p]: the directory of a path
    Device,             \* Device[p]: the device of a path
    Inode,              \* Inode numbers
    NoInode,            \* No file of that name
    Cpu,
    DedupInterval,      \* DEDUP_INTERVAL_NS
    CallTime,           \* Longest time a call is in flight
    RingSize,           \* Events that fit the ring buffer
    Budget              \* Bound on utimes, calls on names, restarts and evictions

AllPath == Path \cup Outside

ASSUME AgentAssumption ==
    /\ Path \cap Outside = {}
    /\ DedupInterval \in Nat \ {0}
    /\ CallTime \in Nat
    /\ QuietPeriod >= DedupInterval + CallTime
    /\ RingSize \in Nat
    /\ Budget \in Nat
    /\ NoInode \notin Inode

VARIABLES
    file,               \* file[p]: the inode of a path
    op,                 \* op[c]: the call in flight on a CPU
    dedup,              \* dedup[i]: age of the map's entry, saturated
    ring,               \* The ring buffer
    pending,            \* has_pending_rename, pending_rename_from
    budget,             \* What is left of Budget
    \* What happened (history)
    made,               \* Renames that were called, as pairs
    renamed,            \* Renames the last step reported
    changed,            \* Watched paths written to since their last report
    excused             \* Watched paths whose next writes may go unreported

kernel == <<file, op, dedup>>
agentVars == <<kernel, ring, pending, budget, made, renamed, changed, excused>>
allVars == <<vars, agentVars>>

Idle == [call |-> "idle"]
None == "none"

AgentInit ==
    /\ Init
    /\ file \in [AllPath -> Inode \cup {NoInode}]
    /\ \A p, q \in AllPath : file[p] = file[q] /\ p # q =>
           file[p] = NoInode \/ Device[p] # Device[q]
    /\ op = [c \in Cpu |-> Idle]
    /\ dedup = [i \in Inode |-> DedupInterval]
    /\ ring = <<>>
    /\ pending = None
    /\ budget = Budget
    /\ made = {}
    /\ renamed = {}
    /\ changed = {}
    /\ excused = {}

Spend == budget > 0 /\ budget' = budget - 1

-----------------------------------------------------------------------------
(***************************************************************************)
(* The probes.  They are attached while the agent runs.                    *)
(***************************************************************************)

\* A call enters on CPU c; its probe will emit the given events.
Enter(c, call, p, to, i, events) ==
    /\ op[c] = Idle
    /\ op' = [op EXCEPT ![c] = [call |-> call, path |-> p, to |-> to, ino |-> i,
                                emit |-> IF up THEN events ELSE <<>>, age |-> 0]]
    /\ renamed' = {}
    /\ UNCHANGED <<vars, file, ring, pending, changed>>

Recent(i) == dedup[i] < DedupInterval

\* Watched paths other than p with the inode number of p.
SameNumber(p) == {q \in Path \ {p} : file[q] = file[p]}

\* vfs_write or do_truncate: dedup_check, then emit_event.
VfsWrite(c, p) ==
    /\ file[p] # NoInode
    /\ Enter(c, "write", p, p, file[p], IF Recent(file[p]) THEN <<>> ELSE <<"mtime">>)
    /\ IF up /\ ~Recent(file[p])
         THEN /\ dedup' = [dedup EXCEPT ![file[p]] = 0]
              /\ excused' = excused \cup SameNumber(p)
         ELSE UNCHANGED <<dedup, excused>>
    /\ UNCHANGED <<budget, made>>

\* vfs_utimes: no dedup.
VfsUtimes(c, p) ==
    /\ Spend
    /\ file[p] # NoInode
    /\ Enter(c, "write", p, p, file[p], <<"mtime">>)
    /\ UNCHANGED <<dedup, made, excused>>

\* No call in flight has locked a directory of P.
Unlocked(P) ==
    \A c \in Cpu : op[c].call \in {"unlink", "rename"} =>
        {Dir[op[c].path], Dir[op[c].to]} \cap {Dir[p] : p \in P} = {}

\* A device does one rename between directories at a time.
MayMove(p, q) ==
    Dir[p] # Dir[q] =>
        \A c \in Cpu : op[c].call = "rename" /\ Dir[op[c].path] # Dir[op[c].to] =>
            Device[op[c].path] # Device[p]

VfsUnlink(c, p) ==
    /\ Spend
    /\ file[p] # NoInode
    /\ Unlocked({p})
    /\ Enter(c, "unlink", p, p, file[p], <<"delete">>)
    /\ UNCHANGED <<dedup, made, excused>>

VfsRename(c, p, q) ==
    /\ Spend
    /\ p # q /\ Device[p] = Device[q]
    /\ file[p] # NoInode
    /\ Unlocked({p, q}) /\ MayMove(p, q)
    /\ Enter(c, "rename", p, q, file[p], <<"rename_from", "rename_to">>)
    /\ made' = made \cup {<<p, q>>}
    /\ UNCHANGED <<dedup, excused>>

\* Mutant: room for one more.
RingHasRoomLate == Len(ring) <= RingSize

RingHasRoom == Len(ring) < RingSize

\* emit_event: bpf_ringbuf_output fails if the ring is full.
EmitEvent(c) ==
    /\ op[c].call # "idle" /\ op[c].emit # <<>>
    /\ LET type == Head(op[c].emit)
           path == IF type = "rename_to" THEN op[c].to ELSE op[c].path
       IN  IF RingHasRoom
             THEN /\ ring' = Append(ring, [type |-> type, path |-> path])
                  /\ UNCHANGED excused
             ELSE /\ excused' = excused \cup ({path} \cap Path)
                  /\ UNCHANGED ring
    /\ op' = [op EXCEPT ![c].emit = Tail(@)]
    /\ renamed' = {}
    /\ UNCHANGED <<vars, file, dedup, pending, budget, made, changed>>

\* The entry of an inode is evicted from the LRU map.
Evict(i) ==
    /\ Spend
    /\ Recent(i)
    /\ dedup' = [dedup EXCEPT ![i] = DedupInterval]
    /\ renamed' = {}
    /\ UNCHANGED <<vars, file, op, ring, pending, made, changed, excused>>

-----------------------------------------------------------------------------
(***************************************************************************)
(* The rest of the call, after its probe.                                  *)
(***************************************************************************)
Returned(c) == [op EXCEPT ![c] = Idle]

\* The write changes the file, if it still has its name, or fails.
WriteEffect(c) ==
    /\ op[c].call = "write"
    /\ op' = Returned(c)
    /\ \/ /\ file[op[c].path] = op[c].ino
          /\ changed' = changed \cup ({op[c].path} \cap Path)
       \/ UNCHANGED changed
    /\ UNCHANGED <<file, excused>>

UnlinkEffect(c) ==
    /\ op[c].call = "unlink"
    /\ op' = Returned(c)
    /\ \/ /\ file' = [file EXCEPT ![op[c].path] = NoInode]
          /\ changed' = changed \ {op[c].path}
       \/ UNCHANGED <<file, changed>>
    /\ UNCHANGED excused

\* The file moves, and with it the writes in flight.  What was written under
\* the old name is now for the rename event to report.
RenameEffect(c) ==
    LET p == op[c].path  q == op[c].to IN
    /\ op[c].call = "rename"
    /\ \/ /\ file' = [file EXCEPT ![p] = NoInode, ![q] = file[p]]
          /\ op' = [d \in Cpu |->
                      IF d = c THEN Idle
                      ELSE IF op[d].call = "write" /\ op[d].ino = file[p] /\ op[d].path = p
                        THEN [op[d] EXCEPT !.path = q] ELSE op[d]]
          /\ changed' = changed \ {p, q}
          /\ excused' = excused \cup ({q} \cap Path)
       \/ op' = Returned(c) /\ UNCHANGED <<file, changed, excused>>

Return(c) ==
    /\ op[c].call # "idle" /\ op[c].emit = <<>>
    /\ WriteEffect(c) \/ UnlinkEffect(c) \/ RenameEffect(c)
    /\ renamed' = {}
    /\ UNCHANGED <<vars, dedup, ring, pending, budget, made>>

\* A file is created, which no probe sees.
Create(p, i) ==
    /\ file[p] = NoInode /\ Unlocked({p})
    /\ \A q \in AllPath : file[q] = i => Device[p] # Device[q]
    /\ \A c \in Cpu : op[c].call = "write" => op[c].ino # i
    /\ file' = [file EXCEPT ![p] = i]
    /\ excused' = IF Recent(i) THEN excused \cup ({p} \cap Path) ELSE excused
    /\ renamed' = {}
    /\ UNCHANGED <<vars, op, dedup, ring, pending, budget, made, changed>>

-----------------------------------------------------------------------------
(***************************************************************************)
(* The main loop.  ring_buffer__poll calls handle_event for the events in  *)
(* the ring; those that come after it are still there at the tick.         *)
(***************************************************************************)
HandleRenameFrom(path) ==
    /\ pending' = path
    /\ renamed' = {}
    /\ UNCHANGED <<vars, changed, excused>>

HandleRenameTo(path) ==
    /\ renamed' = IF pending # None /\ {pending, path} \cap Path # {}
                    THEN {<<pending, path>>} ELSE {}
    /\ pending' = None
    /\ UNCHANGED <<vars, changed, excused>>

\* Delete and mtime: the debouncer's, if the path has the prefix.
HandleOther(e) ==
    /\ pending' = None
    /\ renamed' = {}
    /\ \/ e.path \notin Path /\ UNCHANGED <<vars, changed, excused>>
       \/ /\ e.path \in Path /\ e.type = "delete"
          /\ OnDelete(e.path)
          /\ excused' = excused \cup {e.path}
          /\ UNCHANGED changed
       \/ /\ e.path \in Path /\ e.type = "mtime"
          /\ OnMtime(e.path)
          /\ changed' = changed \ fired'
          /\ excused' = excused \cup fired'

\* Mutant: after a rename_from the loop waits for the rename_to.
HandleEventPairsOnly ==
    /\ up
    /\ ring # <<>>
    /\ LET e == Head(ring) IN
         \/ e.type = "rename_from" /\ HandleRenameFrom(e.path)
         \/ e.type = "rename_to" /\ HandleRenameTo(e.path)
         \/ pending = None /\ e.type \in {"delete", "mtime"} /\ HandleOther(e)
    /\ ring' = Tail(ring)
    /\ UNCHANGED <<kernel, budget, made>>

HandleEvent ==
    /\ up
    /\ ring # <<>>
    /\ LET e == Head(ring) IN
         \/ e.type = "rename_from" /\ HandleRenameFrom(e.path)
         \/ e.type = "rename_to" /\ HandleRenameTo(e.path)
         \/ e.type \in {"delete", "mtime"} /\ HandleOther(e)
    /\ ring' = Tail(ring)
    /\ UNCHANGED <<kernel, budget, made>>

\* The paths whose next write will be emitted.
Settled == {p \in Path : /\ file[p] = NoInode \/ ~Recent(file[p])
                         /\ \A c \in Cpu : op[c].call = "write" => op[c].path # p}

AgentTick ==
    /\ Tick
    /\ changed' = changed \ fired'
    /\ excused' = excused \ (fired' \cap Settled)
    /\ renamed' = {}
    /\ UNCHANGED <<kernel, ring, pending, budget, made>>

\* The agent ends, and its probes and maps with it: what is in the ring is
\* not drained.
AgentStop ==
    /\ Spend
    /\ FlushAll \/ Crash
    /\ op' = [c \in Cpu |-> IF op[c].call = "idle" THEN Idle ELSE [op[c] EXCEPT !.emit = <<>>]]
    /\ dedup' = [i \in Inode |-> DedupInterval]
    /\ ring' = <<>>
    /\ pending' = None
    /\ renamed' = {}
    /\ changed' = changed \ fired'
    /\ excused' = Path
    /\ UNCHANGED <<file, made>>

AgentStart ==
    /\ Start
    /\ renamed' = {}
    /\ UNCHANGED <<kernel, ring, pending, budget, made, changed, excused>>

\* The clock; a call is not in flight for longer than CallTime.
AgentAdvance ==
    /\ Advance
    /\ \A c \in Cpu : op[c].call # "idle" => op[c].age < CallTime
    /\ op' = [c \in Cpu |-> IF op[c].call = "idle" THEN Idle
                            ELSE [op[c] EXCEPT !.age = @ + 1]]
    /\ dedup' = [i \in Inode |-> IF Recent(i) THEN dedup[i] + 1 ELSE dedup[i]]
    /\ renamed' = {}
    /\ UNCHANGED <<file, ring, pending, budget, made, changed, excused>>

AgentNext ==
    \/ \E c \in Cpu, p \in AllPath : VfsWrite(c, p) \/ VfsUtimes(c, p) \/ VfsUnlink(c, p)
    \/ \E c \in Cpu, p, q \in AllPath : VfsRename(c, p, q)
    \/ \E c \in Cpu : EmitEvent(c) \/ Return(c)
    \/ \E i \in Inode : Evict(i)
    \/ \E p \in AllPath, i \in Inode : Create(p, i)
    \/ HandleEvent
    \/ AgentTick
    \/ AgentStop
    \/ AgentStart
    \/ AgentAdvance

AgentSpec == AgentInit /\ [][AgentNext]_allVars

\* Calls return, the loop polls and ticks, and the clock runs.  Nothing makes
\* a stopped agent start again.
AgentFairness ==
    /\ \A c \in Cpu : WF_allVars(EmitEvent(c)) /\ WF_allVars(Return(c))
    /\ WF_allVars(HandleEvent)
    /\ WF_allVars(AgentTick)
    /\ WF_allVars(AgentAdvance)

FairAgentSpec == AgentSpec /\ AgentFairness

-----------------------------------------------------------------------------
(***************************************************************************)
(* Properties.                                                             *)
(***************************************************************************)
EventType == {"mtime", "delete", "rename_from", "rename_to"}
Event == [type : EventType, path : AllPath]
Op == {Idle} \cup
      [call : {"write", "unlink", "rename"}, path : AllPath, to : AllPath,
       ino : Inode, emit : Seq(EventType), age : 0..CallTime]

\* The variables have their types.
AgentTypeOK ==
    /\ TypeOK
    /\ file \in [AllPath -> Inode \cup {NoInode}]
    /\ op \in [Cpu -> Op]
    /\ dedup \in [Inode -> 0..DedupInterval]
    /\ ring \in Seq(Event) /\ Len(ring) <= RingSize
    /\ pending \in AllPath \cup {None}
    /\ budget \in Nat
    /\ made \in SUBSET (AllPath \X AllPath)
    /\ renamed \in SUBSET (AllPath \X AllPath)
    /\ changed \in SUBSET Path
    /\ excused \in SUBSET Path

InRing(p) == \E k \in 1..Len(ring) : ring[k] = [type |-> "mtime", path |-> p]

\* An mtime event of p is in the ring or will be emitted.
Coming(p) ==
    \/ InRing(p)
    \/ \E c \in Cpu : op[c].call = "write" /\ op[c].path = p /\ op[c].emit # <<>>

\* No write goes unreported: a watched path that was written to has an event
\* on its way or an entry in the debouncer, though most writes are suppressed
\* by the dedup map and emit nothing.  Because the quiet period is longer than
\* the dedup interval, the entry is still there when a suppressed write comes.
\* The exceptions are the ones "excused" records: an event the full ring did
\* not take, a report by max_wait, a delete event, a new name or a new file
\* for an inode number, another device's file with that number, a restart.
\* Hard links would be one more: a write by one name suppresses those by the
\* other for the dedup interval.
ChangesCovered == \A p \in changed \ excused : Coming(p) \/ p \in entries

\* And it is reported in the end, however long the writes go on.
EventuallyReported ==
    \A p \in Path : p \in changed \ excused ~> p \notin changed \ excused

\* "rename_to → from과 합쳐서 단일 rename JSON 전송" (a rename_to is sent with its
\* rename_from as one rename): what the loop reports as a rename is one.
RenamesPaired == renamed \subseteq made

=============================================================================
