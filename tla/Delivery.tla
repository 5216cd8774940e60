------------------------------ MODULE Delivery ------------------------------
(***************************************************************************)
(* How the agent delivers events (src/main.cpp, src/kafka_producer.cpp,    *)
(* src/wal.cpp): the Kafka producer's queue, the write-ahead log on disk   *)
(* for events that could not be delivered, and the main loop that sends    *)
(* new events and takes the log's records back every 30 s.                 *)
(*                                                                         *)
(* All agent code runs in one thread; delivery reports are served only     *)
(* inside poll and flush.  librdkafka and the broker work beside it.       *)
(*                                                                         *)
(* The log file is modelled by its readable records, up to the first torn  *)
(* one, and by what lies from there on: read_all stops at a record whose   *)
(* length or CRC32 is wrong.                                               *)
(***************************************************************************)
EXTENDS Naturals, Sequences, FiniteSets

CONSTANTS
    Event,              \* Events the debouncer and the renames hand over
    MaxQueue,           \* Capacity of the producer's queue
    WalMax,             \* wal_max_bytes, in records
    Budget              \* Bound on the number of faults of each kind

Fault == {"broker", "disk", "crash", "power", "sigterm"}
Cause == {"limit", "append", "torn", "crash", "power"}

ASSUME DeliveryAssumption ==
    /\ IsFiniteSet(Event)
    /\ MaxQueue \in Nat \ {0}
    /\ WalMax \in Nat
    /\ Budget \in [Fault -> Nat]

VARIABLES
    \* The process
    pc,                 \* Where in main() the agent is
    running,            \* running, cleared by sig_handler
    records,            \* Records read from the log and not yet sent again
    queue,              \* Events in the producer's queue
    fp,                 \* The log is open for appending (fp_ is not null)
    \* The disk
    wal,                \* The records read_all returns
    torn,               \* Records from the first torn one on
    hidden,             \* Events of the intact records among them
    \* Kafka
    topic,              \* Events the broker has stored
    \* What happened (history)
    created,            \* Events handed to send
    logged,             \* Events append has written
    lost,               \* lost[c]: events given up for cause c
    budget              \* Faults that may still happen

disk == <<wal, torn, hidden>>
vars == <<pc, running, records, queue, fp, wal, torn, hidden, topic, created,
          logged, lost, budget>>

PC == {"down", "replay", "resend", "flush", "loop", "drain", "final"}

Elements(s) == {s[i] : i \in DOMAIN s}

Init ==
    /\ pc = "down"
    /\ running = FALSE
    /\ records = <<>>
    /\ queue = {}
    /\ fp = FALSE
    /\ wal = <<>>
    /\ torn = 0
    /\ hidden = {}
    /\ topic = {}
    /\ created = {}
    /\ logged = {}
    /\ lost = [c \in Cause |-> {}]
    /\ budget = Budget

Spent(b, f) == [b EXCEPT ![f] = @ - 1]

Spend(f) == budget[f] > 0 /\ budget' = Spent(budget, f)

Lose(c, E) == lost' = [lost EXCEPT ![c] = @ \cup E]

-----------------------------------------------------------------------------
(***************************************************************************)
(* The failure callback and WAL::append, with budget b left.               *)
(***************************************************************************)

\* Mutant: the test allows the file to grow past its limit.
FileSizeAtMost == Len(wal) + torn <= WalMax

\* wal.file_size() < wal_max_bytes
FileSizeBelow == Len(wal) + torn < WalMax

\* A record at the end of the file, behind a torn one perhaps.
Written(e) ==
    /\ logged' = logged \cup {e}
    /\ IF torn = 0
         THEN wal' = Append(wal, e) /\ UNCHANGED <<torn, hidden>>
         ELSE torn' = torn + 1 /\ hidden' = hidden \cup {e} /\ UNCHANGED wal

OnFail(e, b) ==
    \/ /\ ~FileSizeBelow                \* "WAL size limit reached"
       /\ Lose("limit", {e})
       /\ budget' = b
       /\ UNCHANGED <<disk, logged>>
    \/ /\ FileSizeBelow
       /\ fp
       /\ Written(e)
       /\ budget' = b
       /\ UNCHANGED lost
    \/ /\ FileSizeBelow                 \* append returns false, unnoticed
       /\ ~fp
       /\ Lose("append", {e})
       /\ budget' = b
       /\ UNCHANGED <<disk, logged>>
    \/ /\ FileSizeBelow                 \* a write error, unnoticed as well
       /\ fp
       /\ b["disk"] > 0
       /\ budget' = Spent(b, "disk")
       /\ Lose("append", {e})
       /\ torn' \in {torn, torn + 1}    \* nothing or a part was written
       /\ UNCHANGED <<wal, hidden, logged>>

\* Mutant: the failure callback is not called for a full queue.
SendOrDrop(e) ==
    /\ queue' = IF Cardinality(queue) < MaxQueue THEN queue \cup {e} ELSE queue
    /\ UNCHANGED <<disk, logged, lost, budget>>

\* KafkaProducer::send: the queue takes the event, or it is full.
Send(e) ==
    \/ /\ Cardinality(queue) < MaxQueue
       /\ queue' = queue \cup {e}
       /\ UNCHANGED <<disk, logged, lost, budget>>
    \/ /\ Cardinality(queue) >= MaxQueue
       /\ OnFail(e, budget)
       /\ UNCHANGED queue

-----------------------------------------------------------------------------
(***************************************************************************)
(* The broker, and the delivery reports served in poll and flush.          *)
(***************************************************************************)
BrokerAppend(e) ==
    /\ pc # "down"
    /\ e \in queue
    /\ topic' = topic \cup {e}
    /\ UNCHANGED <<pc, running, records, queue, fp, disk, created, logged, lost,
                   budget>>

Serving == pc \in {"flush", "loop", "final"}

\* dr_msg_cb without an error.
DeliveryOk(e) ==
    /\ Serving
    /\ e \in queue \cap topic
    /\ queue' = queue \ {e}
    /\ UNCHANGED <<pc, running, records, fp, disk, topic, created, logged, lost,
                   budget>>

\* dr_msg_cb with an error: the message timed out.  The broker may have stored
\* it all the same.
DeliveryFailed(e) ==
    /\ Serving
    /\ e \in queue
    /\ budget["broker"] > 0
    /\ OnFail(e, Spent(budget, "broker"))
    /\ queue' = queue \ {e}
    /\ UNCHANGED <<pc, running, records, fp, topic, created>>

-----------------------------------------------------------------------------
(***************************************************************************)
(* Taking the records of the log back.                                     *)
(***************************************************************************)

\* truncate(): the file is emptied before anything is sent again.  Either
\* fopen may fail: the file is closed then, emptied or not.
Truncate ==
    \/ /\ wal' = <<>> /\ torn' = 0 /\ hidden' = {}
       /\ Lose("torn", hidden)
       /\ fp' = TRUE
       /\ UNCHANGED budget
    \/ /\ Spend("disk")
       /\ fp' = FALSE
       /\ \/ wal' = <<>> /\ torn' = 0 /\ hidden' = {} /\ Lose("torn", hidden)
          \/ UNCHANGED <<disk, lost>>

\* Mutant: the log is truncated but only its first record is sent again.
TakeFirstRecord ==
    /\ wal # <<>>
    /\ records' = <<wal[1]>>
    /\ Truncate
    /\ pc' = "resend"

TakeRecords ==
    /\ wal # <<>>
    /\ records' = wal
    /\ Truncate
    /\ pc' = "resend"

\* At startup: read_all returns records, or none because there are none or
\* because it cannot open the file.
Replay ==
    /\ pc = "replay"
    /\ \/ TakeRecords
       \/ /\ \/ wal = <<>> /\ UNCHANGED budget
             \/ wal # <<>> /\ Spend("disk")
          /\ pc' = "loop"
          /\ UNCHANGED <<records, fp, disk, lost>>
    /\ UNCHANGED <<running, queue, topic, created, logged>>

\* Mutant: the log is taken back only once it is full.
RetryWhenFull ==
    /\ pc = "loop"
    /\ ~FileSizeBelow
    /\ TakeRecords
    /\ UNCHANGED <<running, queue, topic, created, logged>>

\* In the loop, when 30 s have passed and the file is not empty.  Nothing
\* happens if the file begins with a torn record.
Retry ==
    /\ pc = "loop"
    /\ TakeRecords
    /\ UNCHANGED <<running, queue, topic, created, logged>>

\* kafka.send of the next record.
Resend ==
    /\ pc = "resend"
    /\ records # <<>>
    /\ Send(Head(records))
    /\ records' = Tail(records)
    /\ UNCHANGED <<pc, running, fp, topic, created>>

Resent ==
    /\ pc = "resend"
    /\ records = <<>>
    /\ pc' = "flush"
    /\ UNCHANGED <<running, records, queue, fp, disk, topic, created, logged, lost,
                   budget>>

\* kafka.flush(10000) or flush(5000): the queue is empty or the time is up.
FlushReturns ==
    /\ pc = "flush"
    /\ pc' = "loop"
    /\ UNCHANGED <<running, records, queue, fp, disk, topic, created, logged, lost,
                   budget>>

-----------------------------------------------------------------------------
(***************************************************************************)
(* New events and the life of the process.                                 *)
(***************************************************************************)

\* send_event or on_rename, from the loop or from debouncer.flush_all().
SendEvent(e) ==
    /\ pc \in {"loop", "drain"}
    /\ e \notin created
    /\ created' = created \cup {e}
    /\ Send(e)
    /\ UNCHANGED <<pc, running, records, fp, topic>>

\* main() up to the replay: the log is opened, or fopen fails.
Start ==
    /\ pc = "down"
    /\ pc' = "replay"
    /\ running' = TRUE
    /\ \/ fp' = TRUE /\ UNCHANGED budget
       \/ fp' = FALSE /\ Spend("disk")
    /\ UNCHANGED <<records, queue, disk, topic, created, logged, lost>>

Sigterm ==
    /\ pc # "down"
    /\ running
    /\ Spend("sigterm")
    /\ running' = FALSE
    /\ UNCHANGED <<pc, records, queue, fp, disk, topic, created, logged, lost>>

\* The loop ends and the debouncer is flushed.  An error of ring_buffer__poll
\* ends the loop in the same way.
LeaveLoop ==
    /\ pc = "loop"
    /\ ~running
    /\ pc' = "drain"
    /\ UNCHANGED <<running, records, queue, fp, disk, topic, created, logged, lost,
                   budget>>

\* flush_all is done; kafka.flush(15000) begins.
Drained ==
    /\ pc = "drain"
    /\ pc' = "final"
    /\ UNCHANGED <<running, records, queue, fp, disk, topic, created, logged, lost,
                   budget>>

\* Mutant: the last flush is shorter than message.timeout.ms.
FlushMayTimeOut == TRUE

\* The last flush waits 15 s, longer than message.timeout.ms: every message in
\* the queue has its report by then.
FlushComplete == queue = {}

Gone ==
    /\ pc' = "down"
    /\ running' = FALSE
    /\ records' = <<>>
    /\ queue' = {}
    /\ fp' = FALSE
    /\ UNCHANGED <<topic, created, logged>>

\* main returns: the producer is destroyed, then the log is closed.
Stop ==
    /\ pc = "final"
    /\ FlushComplete
    /\ Gone
    /\ UNCHANGED <<disk, lost, budget>>

\* The process dies: the queue and the records read from the log are gone.
Crash ==
    /\ pc # "down"
    /\ Spend("crash")
    /\ Lose("crash", queue \cup Elements(records))
    /\ Gone
    /\ UNCHANGED disk

\* The machine dies: the end of the log was not on disk yet (no fsync).
PowerFailure ==
    /\ pc # "down"
    /\ Spend("power")
    /\ \E k \in 0..Len(wal), t \in {0, 1} :
          /\ k + t <= Len(wal) + torn
          /\ wal' = SubSeq(wal, 1, k)
          /\ torn' = t
    /\ hidden' = {}
    /\ Lose("power", queue \cup Elements(records) \cup hidden
                     \cup (Elements(wal) \ Elements(wal')))
    /\ Gone

-----------------------------------------------------------------------------
Next ==
    \/ \E e \in Event : \/ BrokerAppend(e)
                        \/ DeliveryOk(e)
                        \/ DeliveryFailed(e)
                        \/ SendEvent(e)
    \/ Replay
    \/ Retry
    \/ Resend
    \/ Resent
    \/ FlushReturns
    \/ Start
    \/ Sigterm
    \/ LeaveLoop
    \/ Drained
    \/ Stop
    \/ Crash
    \/ PowerFailure

Spec == Init /\ [][Next]_vars

(***************************************************************************)
(* The thread goes on, the agent is started again (by systemd after a      *)
(* failure, by the operator after a stop), the timer of the retry comes    *)
(* round and the broker takes a message that stays queued.  Delivery       *)
(* reports are served again and again, not all the time: poll(0) of every  *)
(* iteration and the flush after a retry serve the ones that are there.    *)
(***************************************************************************)
Fairness ==
    /\ \A e \in Event : /\ WF_vars(BrokerAppend(e))
                        /\ SF_vars(DeliveryOk(e))
    /\ WF_vars(Start)
    /\ WF_vars(Replay)
    /\ WF_vars(Resend)
    /\ WF_vars(Resent)
    /\ WF_vars(FlushReturns)
    /\ WF_vars(Retry)
    /\ WF_vars(LeaveLoop)
    /\ WF_vars(Drained)
    /\ WF_vars(Stop)

FairSpec == Spec /\ Fairness

-----------------------------------------------------------------------------
(***************************************************************************)
(* Properties.                                                             *)
(***************************************************************************)

ProcessTypeOK ==
    /\ pc \in PC
    /\ running \in BOOLEAN
    /\ records \in Seq(Event)
    /\ queue \in SUBSET Event
    /\ fp \in BOOLEAN

DiskTypeOK ==
    /\ wal \in Seq(Event)
    /\ torn \in Nat
    /\ hidden \in SUBSET Event
    /\ Len(wal) + torn <= WalMax

HistoryTypeOK ==
    /\ topic \in SUBSET Event
    /\ created \in SUBSET Event
    /\ logged \in SUBSET Event
    /\ lost \in [Cause -> SUBSET Event]
    /\ budget \in [Fault -> Nat]

\* The variables have their types, and the log stays within its limit.
TypeOK == ProcessTypeOK /\ DiskTypeOK /\ HistoryTypeOK

Given == UNION {lost[c] : c \in Cause}

InMemory == queue \cup Elements(records)

OnDisk == Elements(wal) \cup hidden

\* Every event handed to send is in the topic, in memory or in the log, unless
\* the log was full or not writable, a truncation dropped what lay behind a
\* torn record, or the process or the machine died with it: no other step
\* between the queue, the reports, the log and the resending loses one.
Accounted == created \subseteq topic \cup InMemory \cup OnDisk \cup Given

\* After an orderly stop ("graceful shutdown") that followed no fault of disk
\* or process and did not meet the limit, every event is in the topic or in a
\* record that the next start reads.
CleanStop ==
    pc = "down" /\ Given = {} /\ torn = 0 => created \subseteq topic \cup Elements(wal)

\* "Truncate the WAL (after all records have been successfully replayed)" and
\* "WAL 확인 전까지 이벤트 보존": an event written to the log is in the topic or
\* still in the log whenever the agent is down.
LoggedPreserved == pc = "down" => logged \subseteq topic \cup OnDisk

\* Every event reaches the topic in the end, through failed deliveries, a full
\* queue, the log and restarts, unless it was given up for a cause above or a
\* torn record hides it.
EventuallyDelivered ==
    \A e \in Event : e \in created ~> e \in topic \cup hidden \cup Given

-----------------------------------------------------------------------------
(***************************************************************************)
(* The abstract specification: the queue, the records that are sent again  *)
(* and the log are one place where events are held.                        *)
(***************************************************************************)
Held == InMemory \cup OnDisk

StateOf(e) == IF e \in topic THEN "delivered"
              ELSE IF e \in Held THEN "held"
              ELSE IF e \in created THEN "gone" ELSE "new"

Channel == INSTANCE EventChannel WITH
               state <- [e \in Event |-> StateOf(e)],
               given <- Given

\* The agent keeps the promise of EventChannel: an event moves between queue,
\* log and resending, over failed deliveries and restarts, until the broker has
\* it; the step in which its last copy goes is one that gives it up; and nothing
\* reaches the topic that was not handed to send or was gone before.
ImplementsChannel == Channel!Spec

=============================================================================
