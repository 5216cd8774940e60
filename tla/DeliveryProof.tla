--------------------------- MODULE DeliveryProof ---------------------------
(***************************************************************************)
(* Proofs about Delivery, for every set of events, every size of the queue *)
(* and of the log, and any number of faults: every event is accounted for, *)
(* an event written to the log is there until it is given up, and the      *)
(* whole is an EventChannel.                                               *)
(***************************************************************************)
EXTENDS Delivery, SequenceTheorems, TLAPS

\* Records are in memory only while they are sent again, and a process that
\* is gone has no queue.
Idle == /\ pc # "resend" => records = <<>>
        /\ pc = "down" => queue = {}

\* Records are hidden only by a torn one.
NoHidden == torn = 0 => hidden = {}

\* The inductive invariant.
Inv == TypeOK /\ Accounted /\ Idle /\ NoHidden

-----------------------------------------------------------------------------
\* The elements of sequences.
LEMMA ElementsEmpty == Elements(<<>>) = {}
  BY DEF Elements

LEMMA ElementsType ==
  ASSUME NEW S, NEW s \in Seq(S)
  PROVE  Elements(s) \in SUBSET S
  BY DEF Elements

LEMMA ElementsAppend ==
  ASSUME NEW S, NEW s \in Seq(S), NEW e \in S
  PROVE  /\ Append(s, e) \in Seq(S)
         /\ Len(Append(s, e)) = Len(s) + 1
         /\ Elements(Append(s, e)) = Elements(s) \cup {e}
  <1>1. /\ Append(s, e) \in Seq(S) /\ Len(Append(s, e)) = Len(s) + 1
        /\ DOMAIN Append(s, e) = 1..(Len(s) + 1) /\ DOMAIN s = 1..Len(s)
        /\ Len(s) \in Nat
        /\ \A i \in 1..Len(s) : Append(s, e)[i] = s[i]
        /\ Append(s, e)[Len(s) + 1] = e
    OBVIOUS
  <1>2. Elements(Append(s, e)) = Elements(s) \cup {e}
    BY <1>1 DEF Elements
  <1> QED BY <1>1, <1>2

LEMMA ElementsTail ==
  ASSUME NEW S, NEW s \in Seq(S), s # <<>>
  PROVE  /\ Head(s) \in S
         /\ Tail(s) \in Seq(S)
         /\ Elements(s) = {Head(s)} \cup Elements(Tail(s))
  <1>1. /\ Head(s) \in S /\ Tail(s) \in Seq(S) /\ Head(s) = s[1]
        /\ Len(s) \in Nat \ {0} /\ DOMAIN s = 1..Len(s)
        /\ DOMAIN Tail(s) = 1..(Len(s) - 1)
        /\ \A i \in 1..(Len(s) - 1) : Tail(s)[i] = s[i + 1]
    OBVIOUS
  <1>2. ASSUME NEW x \in Elements(s) PROVE x \in {Head(s)} \cup Elements(Tail(s))
    <2>1. PICK i \in 1..Len(s) : x = s[i]
      BY <1>1 DEF Elements
    <2>2. CASE i = 1
      BY <1>1, <2>1, <2>2
    <2>3. CASE i # 1
      <3>1. i - 1 \in 1..(Len(s) - 1) /\ (i - 1) + 1 = i
        BY <1>1, <2>3
      <3>2. Tail(s)[i - 1] = x
        BY <1>1, <2>1, <3>1
      <3> QED BY <1>1, <3>1, <3>2 DEF Elements
    <2> QED BY <2>2, <2>3
  <1>3. ASSUME NEW x \in {Head(s)} \cup Elements(Tail(s)) PROVE x \in Elements(s)
    BY <1>1, <1>3 DEF Elements
  <1> QED BY <1>1, <1>2, <1>3

LEMMA PrefixType ==
  ASSUME NEW S, NEW s \in Seq(S), NEW k \in 0..Len(s)
  PROVE  /\ SubSeq(s, 1, k) \in Seq(S)
         /\ Len(SubSeq(s, 1, k)) = k
  OBVIOUS

\* Lose adds to the events given up, and keeps its type.
LEMMA LoseGiven ==
  ASSUME HistoryTypeOK, NEW c \in Cause, NEW E \in SUBSET Event, Lose(c, E)
  PROVE  /\ lost' \in [Cause -> SUBSET Event]
         /\ Given' = Given \cup E
  <1>1. lost' \in [Cause -> SUBSET Event]
    BY DEF HistoryTypeOK, Lose
  <1>2. \A x \in Cause : lost'[x] = IF x = c THEN lost[x] \cup E ELSE lost[x]
    BY DEF HistoryTypeOK, Lose
  <1>3. ASSUME NEW e \in Given' PROVE e \in Given \cup E
    <2>1. PICK x \in Cause : e \in lost'[x]
      BY <1>3 DEF Given
    <2> QED BY <2>1, <1>2 DEF Given
  <1>4. ASSUME NEW e \in Given \cup E PROVE e \in Given'
    <2>1. CASE e \in E
      BY <2>1, <1>2 DEF Given
    <2>2. CASE e \in Given
      <3>1. PICK x \in Cause : e \in lost[x]
        BY <2>2 DEF Given
      <3>2. e \in lost'[x]
        BY <3>1, <1>2
      <3> QED BY <3>2 DEF Given
    <2> QED BY <1>4, <2>1, <2>2
  <1> QED BY <1>1, <1>3, <1>4

LEMMA SpentType ==
  ASSUME NEW b \in [Fault -> Nat], NEW f \in Fault, b[f] > 0
  PROVE  Spent(b, f) \in [Fault -> Nat]
  BY DEF Spent

-----------------------------------------------------------------------------
\* The failure callback keeps the event: in the log, or among those given up.
LEMMA OnFailKeeps ==
  ASSUME DiskTypeOK, HistoryTypeOK, NoHidden,
         NEW e \in Event, NEW b \in [Fault -> Nat], OnFail(e, b)
  PROVE  /\ DiskTypeOK' /\ NoHidden'
         /\ logged' \in SUBSET Event
         /\ lost' \in [Cause -> SUBSET Event]
         /\ budget' \in [Fault -> Nat]
         /\ OnDisk \cup Given \cup {e} \subseteq OnDisk' \cup Given'
  <1> DEFINE Goal == /\ DiskTypeOK' /\ NoHidden'
                     /\ logged' \in SUBSET Event
                     /\ lost' \in [Cause -> SUBSET Event]
                     /\ budget' \in [Fault -> Nat]
                     /\ OnDisk \cup Given \cup {e} \subseteq OnDisk' \cup Given'
  <1>0. "limit" \in Cause /\ "append" \in Cause /\ "disk" \in Fault /\ {e} \in SUBSET Event
    BY DEF Cause, Fault
  <1>a. wal \in Seq(Event) /\ Len(wal) \in Nat /\ torn \in Nat /\ WalMax \in Nat
        /\ Len(wal) + torn <= WalMax /\ hidden \in SUBSET Event
    BY DeliveryAssumption DEF DiskTypeOK
  <1>b. logged \in SUBSET Event
    BY DEF HistoryTypeOK
  <1>1. ASSUME Lose("limit", {e}) \/ Lose("append", {e}), budget' = b,
               UNCHANGED <<disk, logged>>
        PROVE  Goal
    <2>1. lost' \in [Cause -> SUBSET Event] /\ Given' = Given \cup {e}
      BY <1>0, <1>1, LoseGiven
    <2>2. DiskTypeOK' /\ NoHidden' /\ OnDisk' = OnDisk
      BY <1>1 DEF disk, DiskTypeOK, NoHidden, OnDisk
    <2> QED BY <1>1, <1>b, <2>1, <2>2
  <1>2. ASSUME FileSizeBelow, Written(e), budget' = b, UNCHANGED lost
        PROVE  Goal
    <2>1. logged' \in SUBSET Event
      BY <1>2, <1>b DEF Written
    <2>2. Given' = Given
      BY <1>2 DEF Given
    <2>3. Len(wal) + torn < WalMax
      BY <1>2 DEF FileSizeBelow
    <2>4. ASSUME torn = 0 PROVE DiskTypeOK' /\ NoHidden' /\ OnDisk' = OnDisk \cup {e}
      <3>1. wal' = Append(wal, e) /\ torn' = torn /\ hidden' = hidden
        BY <1>2, <2>4 DEF Written
      <3>2. /\ wal' \in Seq(Event) /\ Len(wal') = Len(wal) + 1
            /\ Elements(wal') = Elements(wal) \cup {e}
        BY <1>a, <3>1, ElementsAppend
      <3> QED BY <1>a, <2>3, <3>1, <3>2 DEF DiskTypeOK, NoHidden, OnDisk
    <2>5. ASSUME torn # 0 PROVE DiskTypeOK' /\ NoHidden' /\ OnDisk' = OnDisk \cup {e}
      <3>1. wal' = wal /\ torn' = torn + 1 /\ hidden' = hidden \cup {e}
        BY <1>2, <2>5 DEF Written
      <3> QED BY <1>a, <2>3, <3>1 DEF DiskTypeOK, NoHidden, OnDisk
    <2> QED BY <1>2, <2>1, <2>2, <2>4, <2>5 DEF HistoryTypeOK
  <1>3. ASSUME FileSizeBelow, b["disk"] > 0, budget' = Spent(b, "disk"),
               Lose("append", {e}), torn' \in {torn, torn + 1},
               UNCHANGED <<wal, hidden, logged>>
        PROVE  Goal
    <2>1. lost' \in [Cause -> SUBSET Event] /\ Given' = Given \cup {e}
      BY <1>0, <1>3, LoseGiven
    <2>2. DiskTypeOK' /\ NoHidden' /\ OnDisk' = OnDisk
      BY <1>3, <1>a DEF FileSizeBelow, DiskTypeOK, NoHidden, OnDisk
    <2>3. budget' \in [Fault -> Nat]
      BY <1>0, <1>3, SpentType
    <2> QED BY <1>3, <1>b, <2>1, <2>2, <2>3
  <1>4. Goal
    BY <1>1, <1>2, <1>3, Zenon DEF OnFail
  <1> QED BY <1>4

\* KafkaProducer::send keeps the event.
LEMMA SendKeeps ==
  ASSUME TypeOK, NoHidden, NEW e \in Event, Send(e)
  PROVE  /\ queue' \in SUBSET Event
         /\ DiskTypeOK' /\ NoHidden'
         /\ logged' \in SUBSET Event
         /\ lost' \in [Cause -> SUBSET Event]
         /\ budget' \in [Fault -> Nat]
         /\ queue \cup OnDisk \cup Given \cup {e} \subseteq queue' \cup OnDisk' \cup Given'
  <1> USE DEF TypeOK
  <1>1. ASSUME queue' = queue \cup {e}, UNCHANGED <<disk, logged, lost, budget>>
        PROVE  /\ queue' \in SUBSET Event
               /\ DiskTypeOK' /\ NoHidden'
               /\ logged' \in SUBSET Event
               /\ lost' \in [Cause -> SUBSET Event]
               /\ budget' \in [Fault -> Nat]
               /\ queue \cup OnDisk \cup Given \cup {e}
                    \subseteq queue' \cup OnDisk' \cup Given'
    BY <1>1 DEF ProcessTypeOK, DiskTypeOK, HistoryTypeOK, NoHidden, disk, OnDisk, Given
  <1>2. ASSUME OnFail(e, budget), UNCHANGED queue
        PROVE  /\ queue' \in SUBSET Event
               /\ DiskTypeOK' /\ NoHidden'
               /\ logged' \in SUBSET Event
               /\ lost' \in [Cause -> SUBSET Event]
               /\ budget' \in [Fault -> Nat]
               /\ queue \cup OnDisk \cup Given \cup {e}
                    \subseteq queue' \cup OnDisk' \cup Given'
    <2>1. budget \in [Fault -> Nat]
      BY DEF HistoryTypeOK
    <2>2. /\ DiskTypeOK' /\ NoHidden'
          /\ logged' \in SUBSET Event
          /\ lost' \in [Cause -> SUBSET Event]
          /\ budget' \in [Fault -> Nat]
          /\ OnDisk \cup Given \cup {e} \subseteq OnDisk' \cup Given'
      BY <1>2, <2>1, OnFailKeeps
    <2> QED BY <1>2, <2>2 DEF ProcessTypeOK
  <1> QED BY <1>1, <1>2 DEF Send

\* A truncation loses nothing but the records the caller has read and those
\* that are given up because a torn one hides them.
LEMMA TruncateKeeps ==
  ASSUME DiskTypeOK, HistoryTypeOK, NoHidden, Truncate
  PROVE  /\ DiskTypeOK' /\ NoHidden'
         /\ fp' \in BOOLEAN
         /\ lost' \in [Cause -> SUBSET Event]
         /\ budget' \in [Fault -> Nat]
         /\ hidden \cup Given \subseteq OnDisk' \cup Given'
  <1>0. "torn" \in Cause /\ "disk" \in Fault /\ hidden \in SUBSET Event
    BY DEF Cause, Fault, DiskTypeOK
  <1>1. ASSUME wal' = <<>>, torn' = 0, hidden' = {}, Lose("torn", hidden)
        PROVE  /\ DiskTypeOK' /\ NoHidden'
               /\ lost' \in [Cause -> SUBSET Event]
               /\ hidden \cup Given \subseteq OnDisk' \cup Given'
    <2>1. lost' \in [Cause -> SUBSET Event] /\ Given' = Given \cup hidden
      BY <1>0, <1>1, LoseGiven
    <2>2. Len(<<>>) = 0 /\ <<>> \in Seq(Event)
      OBVIOUS
    <2>3. DiskTypeOK' /\ NoHidden'
      BY <1>1, <2>2, DeliveryAssumption DEF DiskTypeOK, NoHidden
    <2> QED BY <2>1, <2>3
  <1>2. ASSUME UNCHANGED <<disk, lost>>
        PROVE  /\ DiskTypeOK' /\ NoHidden'
               /\ lost' \in [Cause -> SUBSET Event]
               /\ hidden \cup Given \subseteq OnDisk' \cup Given'
    BY <1>2 DEF disk, DiskTypeOK, NoHidden, HistoryTypeOK, OnDisk, Given
  <1>3. ASSUME Spend("disk") PROVE budget' \in [Fault -> Nat]
    BY <1>0, <1>3, SpentType DEF Spend, HistoryTypeOK
  <1>4. fp' \in BOOLEAN /\ budget' \in [Fault -> Nat]
    BY <1>3 DEF Truncate, HistoryTypeOK
  <1>5. /\ DiskTypeOK' /\ NoHidden'
        /\ lost' \in [Cause -> SUBSET Event]
        /\ hidden \cup Given \subseteq OnDisk' \cup Given'
    BY <1>1, <1>2, Zenon DEF Truncate
  <1> QED BY <1>4, <1>5

-----------------------------------------------------------------------------
(***************************************************************************)
(* One lemma per group of actions.                                         *)
(***************************************************************************)

\* Only the place in main and the running flag change.
LEMMA PlaceStep ==
  ASSUME Inv, pc' \in PC \ {"down", "resend"}, running' \in BOOLEAN, records = <<>>,
         UNCHANGED <<records, queue, fp, disk, topic, created, logged, lost>>,
         budget' \in [Fault -> Nat]
  PROVE  Inv'
  <1>1. TypeOK'
    BY DEF Inv, TypeOK, ProcessTypeOK, DiskTypeOK, HistoryTypeOK, disk
  <1>2. Accounted' /\ Idle' /\ NoHidden'
    BY DEF Inv, Accounted, Idle, NoHidden, InMemory, OnDisk, Given, disk
  <1> QED BY <1>1, <1>2 DEF Inv

LEMMA BrokerStep ==
  ASSUME Inv, NEW e \in Event, BrokerAppend(e) \/ DeliveryOk(e)
  PROVE  Inv'
  <1>1. TypeOK'
    BY DEF Inv, TypeOK, ProcessTypeOK, DiskTypeOK, HistoryTypeOK, disk,
           BrokerAppend, DeliveryOk
  <1>2. Idle' /\ NoHidden'
    BY DEF Inv, Idle, NoHidden, disk, BrokerAppend, DeliveryOk
  <1>3. OnDisk' = OnDisk /\ Given' = Given /\ created' = created /\ records' = records
    BY DEF BrokerAppend, DeliveryOk, disk, OnDisk, Given
  <1>4. queue \cup topic \subseteq queue' \cup topic'
    BY DEF BrokerAppend, DeliveryOk
  <1>5. Accounted'
    BY <1>3, <1>4 DEF Inv, Accounted, InMemory
  <1> QED BY <1>1, <1>2, <1>5 DEF Inv

LEMMA FailedStep ==
  ASSUME Inv, NEW e \in Event, DeliveryFailed(e)
  PROVE  Inv'
  <1>1. "broker" \in Fault /\ budget \in [Fault -> Nat] /\ budget["broker"] > 0
    BY DEF Fault, Inv, TypeOK, HistoryTypeOK, DeliveryFailed
  <1>2. Spent(budget, "broker") \in [Fault -> Nat]
    BY <1>1, SpentType
  <1>3. /\ DiskTypeOK' /\ NoHidden'
        /\ logged' \in SUBSET Event
        /\ lost' \in [Cause -> SUBSET Event]
        /\ budget' \in [Fault -> Nat]
        /\ OnDisk \cup Given \cup {e} \subseteq OnDisk' \cup Given'
    BY <1>2, OnFailKeeps DEF DeliveryFailed, Inv, TypeOK
  <1>4. queue' = queue \ {e} /\ UNCHANGED <<pc, running, records, fp, topic, created>>
    BY DEF DeliveryFailed
  <1>5. TypeOK'
    BY <1>3, <1>4 DEF Inv, TypeOK, ProcessTypeOK, HistoryTypeOK
  <1>6. Idle'
    BY <1>4 DEF Inv, Idle
  <1>7. Accounted'
    BY <1>3, <1>4 DEF Inv, Accounted, InMemory
  <1> QED BY <1>3, <1>5, <1>6, <1>7 DEF Inv

LEMMA TakeStep ==
  ASSUME Inv, pc \in {"replay", "loop"}, TakeRecords,
         UNCHANGED <<running, queue, topic, created, logged>>
  PROVE  Inv'
  <1>1. /\ DiskTypeOK' /\ NoHidden'
        /\ fp' \in BOOLEAN
        /\ lost' \in [Cause -> SUBSET Event]
        /\ budget' \in [Fault -> Nat]
        /\ hidden \cup Given \subseteq OnDisk' \cup Given'
    BY TruncateKeeps DEF Inv, TypeOK, TakeRecords
  <1>2. records' = wal /\ pc' = "resend" /\ records = <<>>
    BY DEF TakeRecords, Inv, Idle
  <1>3. TypeOK'
    BY <1>1, <1>2 DEF Inv, TypeOK, ProcessTypeOK, DiskTypeOK, HistoryTypeOK, PC
  <1>4. Idle'
    BY <1>2 DEF Idle
  <1>5. Accounted'
    BY <1>1, <1>2, ElementsEmpty DEF Inv, Accounted, InMemory, OnDisk
  <1> QED BY <1>1, <1>3, <1>4, <1>5 DEF Inv

LEMMA ReplayStep ==
  ASSUME Inv, Replay
  PROVE  Inv'
  <1>1. ASSUME TakeRecords PROVE Inv'
    BY <1>1, TakeStep DEF Replay
  <1>2. ASSUME ~TakeRecords PROVE Inv'
    <2>1. /\ pc' = "loop" /\ UNCHANGED <<records, fp, disk, lost>>
          /\ UNCHANGED <<running, queue, topic, created, logged>>
          /\ UNCHANGED budget \/ Spend("disk")
      BY <1>2 DEF Replay
    <2>2. "disk" \in Fault /\ budget \in [Fault -> Nat]
      BY DEF Fault, Inv, TypeOK, HistoryTypeOK
    <2>3. budget' \in [Fault -> Nat]
      BY <2>1, <2>2, SpentType DEF Spend
    <2>4. records = <<>> /\ pc' \in PC \ {"down", "resend"} /\ running' \in BOOLEAN
      BY <2>1 DEF Replay, Inv, Idle, PC, TypeOK, ProcessTypeOK
    <2> QED BY <2>1, <2>3, <2>4, PlaceStep
  <1> QED BY <1>1, <1>2

LEMMA ResendStep ==
  ASSUME Inv, Resend
  PROVE  Inv'
  <1>1. records \in Seq(Event) /\ records # <<>>
    BY DEF Inv, TypeOK, ProcessTypeOK, Resend
  <1>2. /\ Head(records) \in Event
        /\ Tail(records) \in Seq(Event)
        /\ Elements(records) = {Head(records)} \cup Elements(Tail(records))
    BY <1>1, ElementsTail
  <1> DEFINE e == Head(records)
  <1>3. /\ queue' \in SUBSET Event
        /\ DiskTypeOK' /\ NoHidden'
        /\ logged' \in SUBSET Event
        /\ lost' \in [Cause -> SUBSET Event]
        /\ budget' \in [Fault -> Nat]
        /\ queue \cup OnDisk \cup Given \cup {e} \subseteq queue' \cup OnDisk' \cup Given'
    BY <1>2, SendKeeps DEF Inv, Resend
  <1>4. /\ records' = Tail(records) /\ pc = "resend"
        /\ UNCHANGED <<pc, running, fp, topic, created>>
    BY DEF Resend
  <1>5. TypeOK'
    BY <1>2, <1>3, <1>4 DEF Inv, TypeOK, ProcessTypeOK, HistoryTypeOK
  <1>6. Idle'
    BY <1>4 DEF Idle
  <1>7. Accounted'
    BY <1>2, <1>3, <1>4 DEF Inv, Accounted, InMemory
  <1> QED BY <1>3, <1>5, <1>6, <1>7 DEF Inv

LEMMA SendEventStep ==
  ASSUME Inv, NEW e \in Event, SendEvent(e)
  PROVE  Inv'
  <1>1. /\ queue' \in SUBSET Event
        /\ DiskTypeOK' /\ NoHidden'
        /\ logged' \in SUBSET Event
        /\ lost' \in [Cause -> SUBSET Event]
        /\ budget' \in [Fault -> Nat]
        /\ queue \cup OnDisk \cup Given \cup {e} \subseteq queue' \cup OnDisk' \cup Given'
    BY SendKeeps DEF Inv, SendEvent
  <1>2. /\ pc \in {"loop", "drain"} /\ created' = created \cup {e}
        /\ UNCHANGED <<pc, running, records, fp, topic>>
    BY DEF SendEvent
  <1>3. TypeOK'
    BY <1>1, <1>2 DEF Inv, TypeOK, ProcessTypeOK, HistoryTypeOK
  <1>4. Idle'
    BY <1>2 DEF Inv, Idle
  <1>5. Accounted'
    BY <1>1, <1>2 DEF Inv, Accounted, InMemory
  <1> QED BY <1>1, <1>3, <1>4, <1>5 DEF Inv

\* The process is gone with what it had in memory: every event it held is on
\* disk, delivered or given up.
LEMMA GoneStep ==
  ASSUME Inv, Gone, DiskTypeOK', NoHidden',
         lost' \in [Cause -> SUBSET Event], budget' \in [Fault -> Nat],
         InMemory \cup OnDisk \cup Given \subseteq OnDisk' \cup Given'
  PROVE  Inv'
  <1>1. /\ pc' = "down" /\ running' = FALSE /\ records' = <<>> /\ queue' = {} /\ fp' = FALSE
        /\ UNCHANGED <<topic, created, logged>>
    BY DEF Gone
  <1>2. ProcessTypeOK'
    <2>1. <<>> \in Seq(Event) /\ {} \in SUBSET Event /\ "down" \in PC
      BY DEF PC
    <2> QED BY <1>1, <2>1 DEF ProcessTypeOK
  <1>3. HistoryTypeOK'
    BY <1>1 DEF Inv, TypeOK, HistoryTypeOK
  <1>4. Idle'
    BY <1>1 DEF Idle
  <1>5. Accounted'
    BY <1>1 DEF Inv, Accounted
  <1> QED BY <1>2, <1>3, <1>4, <1>5 DEF Inv, TypeOK

LEMMA StopStep ==
  ASSUME Inv, Stop
  PROVE  Inv'
  <1>1. /\ Gone /\ UNCHANGED <<disk, lost, budget>>
        /\ pc = "final" /\ queue = {}
    BY DEF Stop, FlushComplete
  <1>2. InMemory = {}
    BY <1>1, ElementsEmpty DEF Inv, Idle, InMemory
  <1>3. DiskTypeOK' /\ NoHidden' /\ OnDisk' = OnDisk /\ Given' = Given
    BY <1>1 DEF Inv, TypeOK, DiskTypeOK, NoHidden, OnDisk, Given, disk
  <1>4. lost' \in [Cause -> SUBSET Event] /\ budget' \in [Fault -> Nat]
    BY <1>1 DEF Inv, TypeOK, HistoryTypeOK
  <1> QED BY <1>1, <1>2, <1>3, <1>4, GoneStep

LEMMA CrashStep ==
  ASSUME Inv, Crash
  PROVE  Inv'
  <1>1. "crash" \in Cause /\ "crash" \in Fault /\ budget \in [Fault -> Nat]
    BY DEF Cause, Fault, Inv, TypeOK, HistoryTypeOK
  <1>2. InMemory \in SUBSET Event
    BY ElementsType DEF InMemory, Inv, TypeOK, ProcessTypeOK
  <1>3. lost' \in [Cause -> SUBSET Event] /\ Given' = Given \cup InMemory
    BY <1>1, <1>2, LoseGiven DEF Crash, Inv, TypeOK, InMemory
  <1>4. budget' \in [Fault -> Nat]
    BY <1>1, SpentType DEF Crash, Spend
  <1>5. DiskTypeOK' /\ NoHidden' /\ OnDisk' = OnDisk
    <2>1. wal' = wal /\ torn' = torn /\ hidden' = hidden
      BY DEF Crash, disk
    <2> QED BY <2>1 DEF Inv, TypeOK, DiskTypeOK, NoHidden, OnDisk
  <1>6. Gone
    BY DEF Crash
  <1> QED BY <1>3, <1>4, <1>5, <1>6, GoneStep

LEMMA PowerStep ==
  ASSUME Inv, PowerFailure
  PROVE  Inv'
  <1>1. "power" \in Cause /\ "power" \in Fault /\ budget \in [Fault -> Nat]
    BY DEF Cause, Fault, Inv, TypeOK, HistoryTypeOK
  <1>2. wal \in Seq(Event) /\ torn \in Nat /\ hidden \in SUBSET Event
        /\ Len(wal) \in Nat /\ Len(wal) + torn <= WalMax
    BY DEF Inv, TypeOK, DiskTypeOK
  <1>3. PICK k \in 0..Len(wal), t \in {0, 1} :
           /\ k + t <= Len(wal) + torn
           /\ wal' = SubSeq(wal, 1, k)
           /\ torn' = t
    BY DEF PowerFailure
  <1>4. wal' \in Seq(Event) /\ Len(wal') = k
    BY <1>2, <1>3, PrefixType
  <1>5. hidden' = {} /\ Gone
    BY DEF PowerFailure
  <1>6. DiskTypeOK' /\ NoHidden'
    BY <1>2, <1>3, <1>4, <1>5, DeliveryAssumption DEF DiskTypeOK, NoHidden
  <1> DEFINE E == queue \cup Elements(records) \cup hidden
                  \cup (Elements(wal) \ Elements(wal'))
  <1>7. E \in SUBSET Event
    BY <1>2, ElementsType DEF Inv, TypeOK, ProcessTypeOK
  <1>8. lost' \in [Cause -> SUBSET Event] /\ Given' = Given \cup E
    <2>1. Lose("power", E)
      BY DEF PowerFailure
    <2>2. HistoryTypeOK
      BY DEF Inv, TypeOK
    <2> HIDE DEF E
    <2> QED BY <1>1, <1>7, <2>1, <2>2, LoseGiven
  <1>9. budget' \in [Fault -> Nat]
    BY <1>1, SpentType DEF PowerFailure, Spend
  <1>10. InMemory \cup OnDisk \cup Given \subseteq OnDisk' \cup Given'
    BY <1>8 DEF InMemory, OnDisk
  <1> QED BY <1>5, <1>6, <1>8, <1>9, <1>10, GoneStep

LEMMA StartStep ==
  ASSUME Inv, Start
  PROVE  Inv'
  <1>1. "disk" \in Fault /\ budget \in [Fault -> Nat] /\ pc = "down"
    BY DEF Fault, Inv, TypeOK, HistoryTypeOK, Start
  <1>2. budget' \in [Fault -> Nat] /\ fp' \in BOOLEAN
    BY <1>1, SpentType DEF Start, Spend
  <1>3. /\ pc' = "replay" /\ running' = TRUE
        /\ UNCHANGED <<records, queue, disk, topic, created, logged, lost>>
    BY DEF Start
  <1>4. TypeOK'
    BY <1>2, <1>3 DEF Inv, TypeOK, ProcessTypeOK, DiskTypeOK, HistoryTypeOK, disk, PC
  <1>5. Accounted' /\ Idle' /\ NoHidden'
    BY <1>1, <1>3 DEF Inv, Accounted, Idle, NoHidden, InMemory, OnDisk, Given, disk
  <1> QED BY <1>4, <1>5 DEF Inv

LEMMA SigtermStep ==
  ASSUME Inv, Sigterm
  PROVE  Inv'
  <1>1. "sigterm" \in Fault /\ budget \in [Fault -> Nat]
    BY DEF Fault, Inv, TypeOK, HistoryTypeOK
  <1>2. budget' \in [Fault -> Nat]
    BY <1>1, SpentType DEF Sigterm, Spend
  <1>3. running' = FALSE
        /\ UNCHANGED <<pc, records, queue, fp, disk, topic, created, logged, lost>>
    BY DEF Sigterm
  <1>4. TypeOK'
    BY <1>2, <1>3 DEF Inv, TypeOK, ProcessTypeOK, DiskTypeOK, HistoryTypeOK, disk
  <1>5. Accounted' /\ Idle' /\ NoHidden'
    BY <1>3 DEF Inv, Accounted, Idle, NoHidden, InMemory, OnDisk, Given, disk
  <1> QED BY <1>4, <1>5 DEF Inv

\* Resent, FlushReturns, LeaveLoop and Drained.
LEMMA MoveStep ==
  ASSUME Inv, Resent \/ FlushReturns \/ LeaveLoop \/ Drained
  PROVE  Inv'
  <1>1. UNCHANGED <<running, records, queue, fp, disk, topic, created, logged, lost, budget>>
    BY DEF Resent, FlushReturns, LeaveLoop, Drained
  <1>2. records = <<>> /\ pc' \in PC \ {"down", "resend"}
    BY DEF Resent, FlushReturns, LeaveLoop, Drained, Inv, Idle, PC
  <1>3. running' \in BOOLEAN /\ budget' \in [Fault -> Nat]
    BY <1>1 DEF Inv, TypeOK, ProcessTypeOK, HistoryTypeOK
  <1> QED BY <1>1, <1>2, <1>3, PlaceStep

LEMMA InitInv == Init => Inv
  <1> SUFFICES ASSUME Init PROVE Inv
    OBVIOUS
  <1>1. Len(<<>>) = 0 /\ <<>> \in Seq(Event)
    OBVIOUS
  <1>2. ProcessTypeOK /\ DiskTypeOK
    <2>1. "down" \in PC /\ {} \in SUBSET Event /\ 0 \in Nat /\ 0 + 0 <= WalMax
      BY DeliveryAssumption DEF PC
    <2>2. ProcessTypeOK
      BY <1>1, <2>1 DEF Init, ProcessTypeOK
    <2>3. DiskTypeOK
      BY <1>1, <2>1 DEF Init, DiskTypeOK
    <2> QED BY <2>2, <2>3
  <1>3. HistoryTypeOK
    BY DeliveryAssumption DEF Init, HistoryTypeOK
  <1>4. Accounted /\ Idle /\ NoHidden
    BY DEF Init, Accounted, Idle, NoHidden
  <1> QED BY <1>2, <1>3, <1>4 DEF Inv, TypeOK

LEMMA InvStep == Inv /\ [Next]_vars => Inv'
  <1> SUFFICES ASSUME Inv, [Next]_vars PROVE Inv'
    OBVIOUS
  <1>1. CASE \E e \in Event : BrokerAppend(e) \/ DeliveryOk(e)
    BY <1>1, BrokerStep
  <1>2. CASE \E e \in Event : DeliveryFailed(e)
    BY <1>2, FailedStep
  <1>3. CASE \E e \in Event : SendEvent(e)
    BY <1>3, SendEventStep
  <1>4. CASE Replay
    BY <1>4, ReplayStep
  <1>5. CASE Retry
    BY <1>5, TakeStep DEF Retry
  <1>6. CASE Resend
    BY <1>6, ResendStep
  <1>7. CASE Resent \/ FlushReturns \/ LeaveLoop \/ Drained
    BY <1>7, MoveStep
  <1>8. CASE Start
    BY <1>8, StartStep
  <1>9. CASE Sigterm
    BY <1>9, SigtermStep
  <1>10. CASE Stop
    BY <1>10, StopStep
  <1>11. CASE Crash
    BY <1>11, CrashStep
  <1>12. CASE PowerFailure
    BY <1>12, PowerStep
  <1>13. CASE UNCHANGED vars
    <2>1. TypeOK'
      BY <1>13 DEF Inv, vars, TypeOK, ProcessTypeOK, DiskTypeOK, HistoryTypeOK
    <2>2. Accounted' /\ Idle' /\ NoHidden'
      BY <1>13 DEF Inv, vars, Accounted, Idle, NoHidden, InMemory, OnDisk, Given
    <2> QED BY <2>1, <2>2 DEF Inv
  <1> QED BY <1>1, <1>2, <1>3, <1>4, <1>5, <1>6, <1>7, <1>8, <1>9, <1>10, <1>11,
             <1>12, <1>13, Zenon DEF Next

-----------------------------------------------------------------------------
\* The inductive invariant holds in every reachable state.
THEOREM Invariance == Spec => []Inv
  BY InitInv, InvStep, PTL DEF Spec

\* The variables keep their types and the log never passes wal_max_bytes.
THEOREM TypeCorrect == Spec => []TypeOK
  <1>1. Inv => TypeOK
    BY DEF Inv
  <1> QED BY <1>1, Invariance, PTL

\* No event handed to send disappears on its way between the queue, the
\* delivery reports, the log and the resending of its records, except for a
\* cause that Given names.
THEOREM EventsAccounted == Spec => []Accounted
  <1>1. Inv => Accounted
    BY DEF Inv
  <1> QED BY <1>1, Invariance, PTL

\* An orderly stop leaves every event in the topic or in a readable record.
THEOREM StopsCleanly == Spec => []CleanStop
  <1>1. Inv => CleanStop
    BY ElementsEmpty DEF Inv, Accounted, Idle, NoHidden, InMemory, OnDisk, CleanStop
  <1> QED BY <1>1, Invariance, PTL

-----------------------------------------------------------------------------
(***************************************************************************)
(* What was written to the log.  LoggedPreserved fails when the process    *)
(* dies between the truncation and the resending; the theorems below say   *)
(* that it fails for no other reason than an event given up.               *)
(***************************************************************************)

\* Whatever is in memory, in the log or in the topic, or was written to the log,
\* was handed to send.
Handed == InMemory \cup OnDisk \cup logged \cup topic \subseteq created

\* The failure callback writes down no other event than its own.
LEMMA OnFailAdds ==
  ASSUME DiskTypeOK, NEW e \in Event, NEW b, OnFail(e, b)
  PROVE  OnDisk' \cup logged' \subseteq OnDisk \cup logged \cup {e}
  <1>1. ASSUME UNCHANGED <<disk, logged>>
        PROVE  OnDisk' \cup logged' \subseteq OnDisk \cup logged \cup {e}
    BY <1>1 DEF disk, OnDisk
  <1>2. ASSUME UNCHANGED <<wal, hidden, logged>>
        PROVE  OnDisk' \cup logged' \subseteq OnDisk \cup logged \cup {e}
    BY <1>2 DEF OnDisk
  <1>3. ASSUME Written(e)
        PROVE  OnDisk' \cup logged' \subseteq OnDisk \cup logged \cup {e}
    <2>1. wal \in Seq(Event)
      BY DEF DiskTypeOK
    <2>2. Elements(Append(wal, e)) = Elements(wal) \cup {e}
      BY <2>1, ElementsAppend
    <2> QED BY <1>3, <2>2 DEF Written, OnDisk
  <1> QED BY <1>1, <1>2, <1>3, Zenon DEF OnFail

\* Nor does send keep another event than its own.
LEMMA SendAdds ==
  ASSUME DiskTypeOK, NEW e \in Event, Send(e)
  PROVE  queue' \cup OnDisk' \cup logged' \subseteq queue \cup OnDisk \cup logged \cup {e}
  <1>1. ASSUME queue' = queue \cup {e}, UNCHANGED <<disk, logged, lost, budget>>
        PROVE  queue' \cup OnDisk' \cup logged' \subseteq queue \cup OnDisk \cup logged \cup {e}
    BY <1>1 DEF disk, OnDisk
  <1>2. ASSUME OnFail(e, budget), UNCHANGED queue
        PROVE  queue' \cup OnDisk' \cup logged' \subseteq queue \cup OnDisk \cup logged \cup {e}
    BY <1>2, OnFailAdds
  <1> QED BY <1>1, <1>2, Zenon DEF Send

\* A truncation adds nothing to the log.
LEMMA TruncateAdds == ASSUME Truncate PROVE OnDisk' \subseteq OnDisk
  <1>1. ASSUME wal' = <<>>, hidden' = {} PROVE OnDisk' \subseteq OnDisk
    BY <1>1, ElementsEmpty DEF OnDisk
  <1>2. ASSUME UNCHANGED disk PROVE OnDisk' \subseteq OnDisk
    BY <1>2 DEF disk, OnDisk
  <1> QED BY <1>1, <1>2, Zenon DEF Truncate

\* What the machine leaves of the log was in it.
LEMMA PowerAdds == ASSUME Inv, PowerFailure PROVE OnDisk' \subseteq OnDisk
  <1>1. PICK k \in 0..Len(wal) : wal' = SubSeq(wal, 1, k)
    BY DEF PowerFailure
  <1>2. wal \in Seq(Event) /\ hidden' = {}
    BY DEF Inv, TypeOK, DiskTypeOK, PowerFailure
  <1>3. Elements(SubSeq(wal, 1, k)) \subseteq Elements(wal)
    BY <1>2 DEF Elements
  <1> QED BY <1>1, <1>2, <1>3 DEF OnDisk

\* Every step keeps Handed.
LEMMA HandedStep == Inv /\ Handed /\ [Next]_vars => Handed'
  <1> SUFFICES ASSUME Inv, Handed, [Next]_vars PROVE Handed'
    OBVIOUS
  <1>0. DiskTypeOK /\ records \in Seq(Event)
    BY DEF Inv, TypeOK, ProcessTypeOK
  <1>1. ASSUME UNCHANGED <<records, disk, logged, created>>, queue' \subseteq queue,
               topic' \subseteq topic \cup queue
        PROVE  Handed'
    BY <1>1 DEF Handed, InMemory, OnDisk, disk
  <1>2. ASSUME records' = <<>>, queue' = {}, OnDisk' \subseteq OnDisk,
               UNCHANGED <<logged, created, topic>>
        PROVE  Handed'
    BY <1>2, ElementsEmpty DEF Handed, InMemory
  <1>3. ASSUME NEW e \in Event, BrokerAppend(e) \/ DeliveryOk(e) PROVE Handed'
    BY <1>1, <1>3 DEF BrokerAppend, DeliveryOk
  <1>4. ASSUME NEW e \in Event, DeliveryFailed(e) PROVE Handed'
    <2>1. OnDisk' \cup logged' \subseteq OnDisk \cup logged \cup {e}
      BY <1>0, <1>4, OnFailAdds DEF DeliveryFailed
    <2>2. e \in queue /\ queue' = queue \ {e} /\ records' = records /\ created' = created
          /\ topic' = topic
      BY <1>4 DEF DeliveryFailed
    <2> QED BY <2>1, <2>2 DEF Handed, InMemory
  <1>5. ASSUME NEW e \in Event, SendEvent(e) PROVE Handed'
    <2>1. queue' \cup OnDisk' \cup logged' \subseteq queue \cup OnDisk \cup logged \cup {e}
      BY <1>0, <1>5, SendAdds DEF SendEvent
    <2>2. created' = created \cup {e} /\ records' = records /\ topic' = topic
      BY <1>5 DEF SendEvent
    <2> QED BY <2>1, <2>2 DEF Handed, InMemory
  <1>6. ASSUME TakeRecords, UNCHANGED <<queue, created, logged, topic>> PROVE Handed'
    <2>1. OnDisk' \subseteq OnDisk /\ records' = wal
      BY <1>6, TruncateAdds DEF TakeRecords
    <2> QED BY <1>6, <2>1 DEF Handed, InMemory, OnDisk
  <1>7. CASE Replay
    BY <1>1, <1>6, <1>7 DEF Replay
  <1>8. CASE Retry
    BY <1>6, <1>8 DEF Retry
  <1>9. CASE Resend
    <2>1. records # <<>> /\ Send(Head(records)) /\ records' = Tail(records)
          /\ created' = created /\ topic' = topic
      BY <1>9 DEF Resend
    <2>2. /\ Head(records) \in Event
          /\ Elements(records) = {Head(records)} \cup Elements(Tail(records))
      BY <1>0, <2>1, ElementsTail
    <2>3. queue' \cup OnDisk' \cup logged'
            \subseteq queue \cup OnDisk \cup logged \cup {Head(records)}
      BY <1>0, <2>1, <2>2, SendAdds
    <2> QED BY <2>1, <2>2, <2>3 DEF Handed, InMemory
  <1>10. CASE Resent \/ FlushReturns \/ Start \/ Sigterm \/ LeaveLoop \/ Drained
    BY <1>1, <1>10 DEF Resent, FlushReturns, Start, Sigterm, LeaveLoop, Drained
  <1>11. CASE Stop \/ Crash
    <2>1. UNCHANGED disk
      BY <1>11 DEF Stop, Crash
    <2>2. OnDisk' \subseteq OnDisk
      BY <2>1 DEF disk, OnDisk
    <2> QED BY <1>2, <1>11, <2>2 DEF Stop, Crash, Gone
  <1>12. CASE PowerFailure
    BY <1>2, <1>12, PowerAdds DEF PowerFailure, Gone
  <1>13. CASE UNCHANGED vars
    BY <1>1, <1>13 DEF vars, disk
  <1> QED BY <1>3, <1>4, <1>5, <1>7, <1>8, <1>9, <1>10, <1>11, <1>12, <1>13, Zenon DEF Next

\* An event that was written to the log is given up before it goes missing:
\* while no event was given up, the log and the topic have every event that
\* was written, whenever the agent is down (WAL::append, WAL::truncate).
THEOREM LoggedUnlessGivenUp == Spec => [](Given = {} => LoggedPreserved)
  <1>1. Init => Handed
    BY ElementsEmpty DEF Init, Handed, InMemory, OnDisk
  <1>2. Inv /\ Handed => (Given = {} => LoggedPreserved)
    BY ElementsEmpty DEF Inv, Handed, Accounted, Idle, InMemory, LoggedPreserved
  <1> QED BY <1>1, <1>2, HandedStep, Invariance, PTL DEF Spec

-----------------------------------------------------------------------------
(***************************************************************************)
(* Without faults of the disk, the process or the machine.                 *)
(***************************************************************************)

\* The log is open, has no torn record, and no cause but the limit occurred.
BrokerOnly ==
    /\ \A f \in {"disk", "crash", "power"} : budget[f] = 0
    /\ torn = 0
    /\ pc # "down" => fp
    /\ \A c \in Cause \ {"limit"} : lost[c] = {}


\* The failure callback writes the event or meets the limit.
LEMMA OnFailQuiet ==
  ASSUME Inv, BrokerOnly, pc # "down", NEW e \in Event, NEW b \in [Fault -> Nat],
         \A f \in {"disk", "crash", "power"} : b[f] = 0, OnFail(e, b)
  PROVE  budget' = b /\ torn' = 0 /\ \A c \in Cause \ {"limit"} : lost'[c] = {}
  <1>1. fp /\ torn = 0 /\ b["disk"] = 0 /\ lost \in [Cause -> SUBSET Event]
        /\ \A c \in Cause \ {"limit"} : lost[c] = {}
    BY DEF BrokerOnly, Inv, TypeOK, HistoryTypeOK
  <1>2. CASE Lose("limit", {e}) /\ budget' = b /\ UNCHANGED disk
    BY <1>1, <1>2 DEF Lose, disk
  <1>3. CASE Written(e) /\ budget' = b /\ UNCHANGED lost
    BY <1>1, <1>3 DEF Written
  <1>4. ~(b["disk"] > 0)
    BY <1>1
  <1> QED BY <1>1, <1>2, <1>3, <1>4, Zenon DEF OnFail

LEMMA SendQuiet ==
  ASSUME Inv, BrokerOnly, pc # "down", NEW e \in Event, Send(e)
  PROVE  budget' = budget /\ torn' = 0 /\ \A c \in Cause \ {"limit"} : lost'[c] = {}
  <1>1. /\ budget \in [Fault -> Nat] /\ \A f \in {"disk", "crash", "power"} : budget[f] = 0
        /\ torn = 0 /\ \A c \in Cause \ {"limit"} : lost[c] = {}
    BY DEF BrokerOnly, Inv, TypeOK, HistoryTypeOK
  <1>2. CASE UNCHANGED <<disk, logged, lost, budget>>
    BY <1>1, <1>2 DEF disk
  <1>3. CASE OnFail(e, budget)
    BY <1>1, <1>3, OnFailQuiet
  <1> QED BY <1>2, <1>3, Zenon DEF Send

\* A truncation of a log without a torn record succeeds and drops nothing.
LEMMA TruncateQuiet ==
  ASSUME Inv, BrokerOnly, Truncate
  PROVE  /\ budget' = budget /\ torn' = 0 /\ fp'
         /\ \A c \in Cause \ {"limit"} : lost'[c] = {}
  <1>1. /\ ~(budget["disk"] > 0) /\ hidden = {} /\ lost \in [Cause -> SUBSET Event]
        /\ \A c \in Cause \ {"limit"} : lost[c] = {}
    BY DEF BrokerOnly, Inv, NoHidden, TypeOK, HistoryTypeOK
  <1>2. torn' = 0 /\ Lose("torn", hidden) /\ fp' = TRUE /\ budget' = budget
    BY <1>1, Zenon DEF Truncate, Spend
  <1> QED BY <1>1, <1>2 DEF Lose

\* Every step keeps BrokerOnly.
LEMMA BrokerOnlyStep == Inv /\ BrokerOnly /\ [Next]_vars => BrokerOnly'
  <1> SUFFICES ASSUME Inv, BrokerOnly, [Next]_vars PROVE BrokerOnly'
    OBVIOUS
  <1>0. /\ budget \in [Fault -> Nat] /\ \A f \in {"disk", "crash", "power"} : budget[f] = 0
        /\ ~(budget["disk"] > 0) /\ ~(budget["crash"] > 0) /\ ~(budget["power"] > 0)
        /\ pc # "down" => fp
    BY DEF BrokerOnly, Inv, TypeOK, HistoryTypeOK
  <1>a. ~Spend("disk") /\ ~Spend("crash") /\ ~Spend("power")
    BY <1>0 DEF Spend
  <1>b. \A g \in {"broker", "sigterm"}, f \in {"disk", "crash", "power"} :
            Spent(budget, g)[f] = 0
    BY <1>0 DEF Spent, Fault
  <1>1. ASSUME UNCHANGED <<torn, lost>>, pc' # "down" => fp',
               \A f \in {"disk", "crash", "power"} : budget'[f] = 0
        PROVE  BrokerOnly'
    BY <1>1 DEF BrokerOnly
  <1>2. ASSUME NEW e \in Event, BrokerAppend(e) \/ DeliveryOk(e) PROVE BrokerOnly'
    <2>1. UNCHANGED <<pc, fp, disk, lost, budget>>
      BY <1>2 DEF BrokerAppend, DeliveryOk
    <2> QED BY <1>0, <1>1, <2>1 DEF disk
  <1>3. ASSUME NEW e \in Event, DeliveryFailed(e) PROVE BrokerOnly'
    <2>1. /\ OnFail(e, Spent(budget, "broker")) /\ budget["broker"] > 0
          /\ pc # "down" /\ UNCHANGED <<pc, fp>>
      BY <1>3 DEF DeliveryFailed, Serving
    <2>2. Spent(budget, "broker") \in [Fault -> Nat]
      BY <1>0, <2>1, SpentType DEF Fault
    <2>3. /\ budget' = Spent(budget, "broker") /\ torn' = 0
          /\ \A c \in Cause \ {"limit"} : lost'[c] = {}
      BY <1>b, <2>1, <2>2, OnFailQuiet
    <2> QED BY <1>0, <1>b, <2>1, <2>3 DEF BrokerOnly
  <1>4. ASSUME NEW e \in Event, Send(e), pc # "down", UNCHANGED <<pc, fp>>
        PROVE  BrokerOnly'
    <2>1. budget' = budget /\ torn' = 0 /\ \A c \in Cause \ {"limit"} : lost'[c] = {}
      BY <1>4, SendQuiet
    <2> QED BY <1>0, <1>4, <2>1 DEF BrokerOnly
  <1>5. ASSUME NEW e \in Event, SendEvent(e) PROVE BrokerOnly'
    BY <1>4, <1>5 DEF SendEvent
  <1>6. CASE Resend
    <2>1. Head(records) \in Event
      BY <1>6, ElementsTail DEF Resend, Inv, TypeOK, ProcessTypeOK
    <2> QED BY <1>4, <1>6, <2>1 DEF Resend
  <1>7. ASSUME TakeRecords PROVE BrokerOnly'
    <2>1. /\ budget' = budget /\ torn' = 0 /\ fp'
          /\ \A c \in Cause \ {"limit"} : lost'[c] = {}
      BY <1>7, TruncateQuiet DEF TakeRecords
    <2> QED BY <1>0, <2>1 DEF BrokerOnly
  <1>8. CASE Replay
    <2>1. CASE TakeRecords
      BY <1>7, <2>1
    <2>2. CASE ~TakeRecords
      <3>1. pc = "replay" /\ UNCHANGED <<fp, disk, lost, budget>>
        BY <1>8, <1>a, <2>2 DEF Replay
      <3> QED BY <1>0, <1>1, <3>1 DEF disk
    <2> QED BY <2>1, <2>2
  <1>9. CASE Retry
    BY <1>7, <1>9 DEF Retry
  <1>10. CASE Resent \/ FlushReturns \/ LeaveLoop \/ Drained
    <2>1. pc # "down" /\ UNCHANGED <<fp, disk, lost, budget>>
      BY <1>10 DEF Resent, FlushReturns, LeaveLoop, Drained
    <2> QED BY <1>0, <1>1, <2>1 DEF disk
  <1>11. CASE Start
    <2>1. fp' = TRUE /\ UNCHANGED <<disk, lost, budget>>
      BY <1>11, <1>a DEF Start
    <2> QED BY <1>0, <1>1, <2>1 DEF disk
  <1>12. CASE Sigterm
    <2>1. budget' = Spent(budget, "sigterm") /\ UNCHANGED <<pc, fp, disk, lost>>
      BY <1>12 DEF Sigterm, Spend
    <2> QED BY <1>0, <1>1, <1>b, <2>1 DEF disk
  <1>13. CASE Stop
    <2>1. pc' = "down" /\ UNCHANGED <<disk, lost, budget>>
      BY <1>13 DEF Stop, Gone
    <2> QED BY <1>0, <1>1, <2>1 DEF disk
  <1>14. CASE Crash \/ PowerFailure
    BY <1>14, <1>a DEF Crash, PowerFailure
  <1>15. CASE UNCHANGED vars
    <2>1. UNCHANGED <<pc, fp, torn, lost, budget>>
      BY <1>15 DEF vars
    <2> QED BY <1>0, <1>1, <2>1
  <1> QED BY <1>2, <1>3, <1>5, <1>6, <1>8, <1>9, <1>10, <1>11, <1>12, <1>13, <1>14, <1>15,
             Zenon DEF Next

\* If only deliveries fail and the agent is only stopped in an orderly way, an
\* event that was written to the log is missing from it and from the topic
\* only after wal_max_bytes was met, through any number of truncations,
\* resendings and restarts.
THEOREM LoggedUnlessFull ==
  ASSUME \A f \in {"disk", "crash", "power"} : Budget[f] = 0
  PROVE  Spec => [](lost["limit"] = {} => LoggedPreserved)
  <1>1. Init => BrokerOnly
    BY DEF Init, BrokerOnly
  <1>2. Inv /\ BrokerOnly => (lost["limit"] = {} => Given = {})
    BY DEF BrokerOnly, Given, Cause
  <1>3. Spec => []BrokerOnly
    BY <1>1, BrokerOnlyStep, Invariance, PTL DEF Spec
  <1> QED BY <1>2, <1>3, LoggedUnlessGivenUp, Invariance, PTL

-----------------------------------------------------------------------------
(***************************************************************************)
(* Delivery implements EventChannel.  Every step but SendEvent and         *)
(* BrokerAppend is GiveUp(S), where S is what the step adds to lost; that  *)
(* the events S names are the only ones that go is the work of the lemmas. *)
(***************************************************************************)

\* A step that only gives up copies of the events of S.
Sheds(S) == /\ S \subseteq created /\ Given' = Given \cup S
            /\ Held' \subseteq Held /\ Held \subseteq Held' \cup S

LEMMA ShedsMaps ==
  ASSUME Inv, Handed, NEW S, Sheds(S), UNCHANGED <<created, topic>>
  PROVE  Channel!Next
  <1> DEFINE L == {e \in S : StateOf(e) = "held" /\ e \notin Held'}
  <1>1. S \in SUBSET Event /\ L \in SUBSET S
    BY DEF Sheds, Inv, TypeOK, HistoryTypeOK
  <1>2. \A e \in S : StateOf(e) # "new"
    BY DEF Sheds, StateOf
  <1>3. ASSUME NEW e \in Event
        PROVE  StateOf(e)' = IF e \in L THEN "gone" ELSE StateOf(e)
    BY DEF Sheds, StateOf, Handed, Held
  <1>4. [e \in Event |-> StateOf(e)]' =
          [e \in Event |-> IF e \in L THEN "gone" ELSE [x \in Event |-> StateOf(x)][e]]
    BY <1>3
  <1>5. \A e \in L : e \in Event /\ StateOf(e) = "held"
    BY <1>1
  <1> HIDE DEF L
  <1>6. Channel!GiveUp(S)
    BY <1>1, <1>2, <1>4, <1>5 DEF Sheds, Channel!GiveUp
  <1> QED BY <1>1, <1>6 DEF Channel!Next

\* The failure callback writes the event down or gives it up.
LEMMA OnFailSheds ==
  ASSUME DiskTypeOK, HistoryTypeOK, NEW e \in Event, NEW b, OnFail(e, b)
  PROVE  \/ Given' = Given /\ OnDisk' = OnDisk \cup {e}
         \/ Given' = Given \cup {e} /\ OnDisk' = OnDisk
  <1>1. "limit" \in Cause /\ "append" \in Cause /\ {e} \in SUBSET Event
    BY DEF Cause
  <1>2. ASSUME Lose("limit", {e}) \/ Lose("append", {e}) PROVE Given' = Given \cup {e}
    BY <1>1, <1>2, LoseGiven
  <1>3. ASSUME UNCHANGED disk \/ UNCHANGED <<wal, hidden, logged>> PROVE OnDisk' = OnDisk
    BY <1>3 DEF disk, OnDisk
  <1>4. ASSUME Written(e), UNCHANGED lost
        PROVE  Given' = Given /\ OnDisk' = OnDisk \cup {e}
    <2>1. wal \in Seq(Event)
      BY DEF DiskTypeOK
    <2>2. Elements(Append(wal, e)) = Elements(wal) \cup {e}
      BY <2>1, ElementsAppend
    <2> QED BY <1>4, <2>2 DEF Written, OnDisk, Given
  <1> QED BY <1>2, <1>3, <1>4, Zenon DEF OnFail

\* Send holds the event or gives it up.
LEMMA SendSheds ==
  ASSUME DiskTypeOK, HistoryTypeOK, NEW e \in Event, Send(e)
  PROVE  \/ Given' = Given /\ queue' \cup OnDisk' = queue \cup OnDisk \cup {e}
         \/ Given' = Given \cup {e} /\ queue' \cup OnDisk' = queue \cup OnDisk
  <1>1. ASSUME queue' = queue \cup {e}, UNCHANGED <<disk, logged, lost, budget>>
        PROVE  Given' = Given /\ queue' \cup OnDisk' = queue \cup OnDisk \cup {e}
    BY <1>1 DEF disk, OnDisk, Given
  <1>2. ASSUME OnFail(e, budget), UNCHANGED queue
        PROVE  \/ Given' = Given /\ queue' \cup OnDisk' = queue \cup OnDisk \cup {e}
               \/ Given' = Given \cup {e} /\ queue' \cup OnDisk' = queue \cup OnDisk
    BY <1>2, OnFailSheds
  <1> QED BY <1>1, <1>2, Zenon DEF Send

\* A new event is held or given up, and no other event is touched.
LEMMA HandMaps ==
  ASSUME Inv, Handed, NEW e \in Event, SendEvent(e) PROVE Channel!Next
  <1>1. /\ e \notin created /\ created' = created \cup {e} /\ records' = records
        /\ topic' = topic /\ Send(e)
    BY DEF SendEvent
  <1>2. DiskTypeOK /\ HistoryTypeOK /\ created \in SUBSET Event
    BY DEF Inv, TypeOK, HistoryTypeOK
  <1>3. \/ Given' = Given /\ Held' = Held \cup {e}
        \/ Given' = Given \cup {e} /\ Held' = Held
    <2>1. \/ Given' = Given /\ queue' \cup OnDisk' = queue \cup OnDisk \cup {e}
          \/ Given' = Given \cup {e} /\ queue' \cup OnDisk' = queue \cup OnDisk
      BY <1>1, <1>2, SendSheds
    <2> QED BY <1>1, <2>1 DEF Held, InMemory
  <1>4. e \notin topic /\ e \notin Held /\ StateOf(e) = "new"
    BY <1>1 DEF Handed, Held, StateOf
  <1>5. ASSUME NEW x \in Event
        PROVE  /\ Held' = Held \cup {e} =>
                    StateOf(x)' = IF x = e THEN "held" ELSE StateOf(x)
               /\ Held' = Held => StateOf(x)' = IF x = e THEN "gone" ELSE StateOf(x)
    BY <1>1, <1>4 DEF StateOf
  <1> DEFINE s == [x \in Event |-> StateOf(x)]
  <1>6. s[e] = "new"
    BY <1>4
  <1>7. CASE Given' = Given /\ Held' = Held \cup {e}
    <2>1. s' = [s EXCEPT ![e] = "held"]
      BY <1>5, <1>7
    <2> QED BY <1>6, <1>7, <2>1 DEF Channel!Next, Channel!Hand
  <1>8. CASE Given' = Given \cup {e} /\ Held' = Held
    <2>1. s' = [s EXCEPT ![e] = "gone"]
      BY <1>5, <1>8
    <2> QED BY <1>6, <1>8, <2>1 DEF Channel!Next, Channel!Hand
  <1> QED BY <1>3, <1>7, <1>8

\* The broker stores an event that is held; the second time nothing changes.
LEMMA DeliverMaps ==
  ASSUME Inv, Handed, NEW e \in Event, BrokerAppend(e)
  PROVE  Channel!Next \/ UNCHANGED Channel!vars
  <1>1. /\ e \in queue /\ topic' = topic \cup {e}
        /\ UNCHANGED <<records, queue, disk, created, lost>>
    BY DEF BrokerAppend
  <1>2. Held' = Held /\ Given' = Given /\ e \in Held
    BY <1>1 DEF Held, InMemory, OnDisk, Given, disk
  <1>3. ASSUME NEW x \in Event
        PROVE  StateOf(x)' = IF x = e THEN "delivered" ELSE StateOf(x)
    BY <1>1, <1>2 DEF StateOf
  <1> DEFINE s == [x \in Event |-> StateOf(x)]
  <1>4. CASE e \in topic
    <2>1. StateOf(e) = "delivered"
      BY <1>4 DEF StateOf
    <2>2. s' = s
      BY <1>3, <2>1
    <2> QED BY <1>2, <2>2 DEF Channel!vars
  <1>5. CASE e \notin topic
    <2>1. s[e] = "held"
      BY <1>2, <1>5 DEF StateOf
    <2>2. s' = [s EXCEPT ![e] = "delivered"]
      BY <1>3
    <2> QED BY <1>2, <2>1, <2>2 DEF Channel!Next, Channel!Deliver
  <1> QED BY <1>4, <1>5

\* A truncation gives up what a torn record hides; the caller has the rest.
LEMMA TakeSheds ==
  ASSUME Inv, Handed, pc \in {"replay", "loop"}, TakeRecords, UNCHANGED queue
  PROVE  Sheds({}) \/ Sheds(hidden)
  <1>1. records' = wal /\ records = <<>> /\ hidden \in SUBSET Event /\ HistoryTypeOK
    BY DEF TakeRecords, Inv, Idle, TypeOK, DiskTypeOK
  <1>2. CASE wal' = <<>> /\ hidden' = {} /\ Lose("torn", hidden)
    <2>1. Given' = Given \cup hidden
      BY <1>1, <1>2, LoseGiven DEF Cause
    <2>2. Held' = queue \cup Elements(wal)
      BY <1>1, <1>2, ElementsEmpty DEF Held, InMemory, OnDisk
    <2>3. Held = queue \cup Elements(wal) \cup hidden
      BY <1>1, ElementsEmpty DEF Held, InMemory, OnDisk
    <2>4. hidden \subseteq created
      BY DEF Handed, OnDisk
    <2> QED BY <2>1, <2>2, <2>3, <2>4 DEF Sheds
  <1>3. CASE UNCHANGED <<disk, lost>>
    <2>1. Held' = Held /\ Given' = Given
      BY <1>1, <1>3, ElementsEmpty DEF Held, InMemory, OnDisk, Given, disk
    <2> QED BY <2>1 DEF Sheds
  <1> QED BY <1>2, <1>3, Zenon DEF TakeRecords, Truncate

\* A process that is gone gives up what it held in memory, and the machine what
\* was not on disk.
LEMMA GoneSheds ==
  ASSUME Inv, Handed, Stop \/ Crash \/ PowerFailure
  PROVE  \E S : Sheds(S)
  <1>1. records' = <<>> /\ queue' = {} /\ UNCHANGED <<topic, created>>
    BY DEF Stop, Crash, PowerFailure, Gone
  <1>2. Held' = OnDisk'
    BY <1>1, ElementsEmpty DEF Held, InMemory
  <1>3. /\ HistoryTypeOK /\ "crash" \in Cause /\ "power" \in Cause
        /\ created \in SUBSET Event
    BY DEF Inv, TypeOK, HistoryTypeOK, Cause
  <1>4. CASE Stop
    <2>1. InMemory = {} /\ OnDisk' = OnDisk /\ Given' = Given
      BY <1>4, ElementsEmpty DEF Stop, FlushComplete, Inv, Idle, InMemory, OnDisk, Given, disk
    <2>2. Sheds({})
      BY <1>2, <2>1 DEF Sheds, Held
    <2> QED BY <2>2
  <1>5. CASE Crash
    <2>1. InMemory \subseteq created
      BY DEF Handed
    <2>2. Lose("crash", InMemory) /\ OnDisk' = OnDisk
      BY <1>5 DEF Crash, InMemory, OnDisk, disk
    <2>3. Given' = Given \cup InMemory
      BY <1>3, <2>1, <2>2, LoseGiven
    <2>4. Sheds(InMemory)
      BY <1>2, <2>1, <2>2, <2>3 DEF Sheds, Held
    <2> QED BY <2>4
  <1>6. CASE PowerFailure
    <2> DEFINE E == queue \cup Elements(records) \cup hidden
                    \cup (Elements(wal) \ Elements(wal'))
    <2>1. E \subseteq created
      BY DEF Handed, InMemory, OnDisk
    <2>2. Lose("power", E) /\ hidden' = {}
      BY <1>6 DEF PowerFailure
    <2>3. OnDisk' \subseteq OnDisk
      BY <1>6, PowerAdds
    <2>4. Held \subseteq OnDisk' \cup E
      BY DEF Held, InMemory, OnDisk
    <2> HIDE DEF E
    <2>5. Given' = Given \cup E
      BY <1>3, <2>1, <2>2, LoseGiven
    <2>6. Sheds(E)
      BY <1>2, <2>1, <2>3, <2>4, <2>5 DEF Sheds, Held
    <2> QED BY <2>6
  <1> QED BY <1>4, <1>5, <1>6

\* Every step is a step of the channel or none of its business.
LEMMA ChannelStep ==
  Inv /\ Handed /\ [Next]_vars => [Channel!Next]_(Channel!vars)
  <1> SUFFICES ASSUME Inv, Handed, [Next]_vars
               PROVE  Channel!Next \/ UNCHANGED Channel!vars
    OBVIOUS
  <1>0. DiskTypeOK /\ HistoryTypeOK /\ records \in Seq(Event)
    BY DEF Inv, TypeOK, ProcessTypeOK
  <1>1. ASSUME UNCHANGED <<records, queue, disk, topic, created, lost>>
        PROVE  Channel!Next
    <2>1. Held' = Held /\ Given' = Given
      BY <1>1 DEF Held, InMemory, OnDisk, Given, disk
    <2>2. Sheds({})
      BY <2>1 DEF Sheds
    <2> QED BY <1>1, <2>2, ShedsMaps
  <1>2. ASSUME NEW e \in Event, BrokerAppend(e)
        PROVE  Channel!Next \/ UNCHANGED Channel!vars
    BY <1>2, DeliverMaps
  <1>3. ASSUME NEW e \in Event, DeliveryOk(e)
        PROVE  UNCHANGED Channel!vars
    <2>1. /\ e \in topic /\ queue' = queue \ {e}
          /\ UNCHANGED <<records, disk, topic, created, lost>>
      BY <1>3 DEF DeliveryOk
    <2>2. /\ \A x \in Event : x # e => (x \in Held' <=> x \in Held)
          /\ Given' = Given
      BY <2>1 DEF Held, InMemory, OnDisk, Given, disk
    <2>3. \A x \in Event : StateOf(x)' = StateOf(x)
      BY <2>1, <2>2 DEF StateOf
    <2>4. [x \in Event |-> StateOf(x)]' = [x \in Event |-> StateOf(x)]
      BY <2>3
    <2> QED BY <2>2, <2>4 DEF Channel!vars
  <1>4. ASSUME NEW e \in Event, DeliveryFailed(e) PROVE Channel!Next
    <2>1. /\ OnFail(e, Spent(budget, "broker")) /\ e \in queue /\ queue' = queue \ {e}
          /\ UNCHANGED <<records, topic, created>>
      BY <1>4 DEF DeliveryFailed
    <2>2. \/ Given' = Given /\ OnDisk' = OnDisk \cup {e}
          \/ Given' = Given \cup {e} /\ OnDisk' = OnDisk
      BY <1>0, <2>1, OnFailSheds
    <2>3. e \in created
      BY <2>1 DEF Handed, InMemory
    <2>4. Sheds({}) \/ Sheds({e})
      BY <2>1, <2>2, <2>3 DEF Sheds, Held, InMemory
    <2> QED BY <2>1, <2>4, ShedsMaps
  <1>5. ASSUME NEW e \in Event, SendEvent(e) PROVE Channel!Next
    BY <1>5, HandMaps
  <1>6. ASSUME TakeRecords, pc \in {"replay", "loop"}, UNCHANGED <<queue, topic, created>>
        PROVE  Channel!Next
    BY <1>6, TakeSheds, ShedsMaps
  <1>7. CASE Replay
    <2>1. CASE TakeRecords
      BY <1>6, <1>7, <2>1 DEF Replay
    <2>2. CASE ~TakeRecords
      BY <1>1, <1>7, <2>2 DEF Replay
    <2> QED BY <2>1, <2>2
  <1>8. CASE Retry
    BY <1>6, <1>8 DEF Retry
  <1>9. CASE Resend
    <2> DEFINE e == Head(records)
    <2>1. /\ records # <<>> /\ Send(e) /\ records' = Tail(records)
          /\ UNCHANGED <<topic, created>>
      BY <1>9 DEF Resend
    <2>2. e \in Event /\ Elements(records) = {e} \cup Elements(Tail(records))
      BY <1>0, <2>1, ElementsTail
    <2> HIDE DEF e
    <2>3. \/ Given' = Given /\ queue' \cup OnDisk' = queue \cup OnDisk \cup {e}
          \/ Given' = Given \cup {e} /\ queue' \cup OnDisk' = queue \cup OnDisk
      BY <1>0, <2>1, <2>2, SendSheds
    <2>4. e \in created
      BY <2>2 DEF Handed, InMemory
    <2>5. Sheds({}) \/ Sheds({e})
      BY <2>1, <2>2, <2>3, <2>4 DEF Sheds, Held, InMemory
    <2> QED BY <2>1, <2>5, ShedsMaps
  <1>10. CASE Resent \/ FlushReturns \/ Start \/ Sigterm \/ LeaveLoop \/ Drained
    BY <1>1, <1>10 DEF Resent, FlushReturns, Start, Sigterm, LeaveLoop, Drained
  <1>11. CASE Stop \/ Crash \/ PowerFailure
    <2>1. UNCHANGED <<topic, created>>
      BY <1>11 DEF Stop, Crash, PowerFailure, Gone
    <2> QED BY <1>11, <2>1, GoneSheds, ShedsMaps
  <1>12. CASE UNCHANGED vars
    BY <1>1, <1>12 DEF vars, disk
  <1> QED BY <1>2, <1>3, <1>4, <1>5, <1>7, <1>8, <1>9, <1>10, <1>11, <1>12, Zenon DEF Next

\* The agent's delivery, with any queue, log and faults, implements the channel:
\* no event is delivered that was not handed over, the last copy of an event
\* goes only in a step that gives it up, and an event that is gone stays gone.
THEOREM Implements == Spec => ImplementsChannel
  <1>1. Init => Handed /\ Channel!Init
    <2> SUFFICES ASSUME Init PROVE Handed /\ Channel!Init
      OBVIOUS
    <2>1. Held = {} /\ topic = {} /\ created = {} /\ logged = {} /\ Given = {}
      BY ElementsEmpty DEF Init, Held, InMemory, OnDisk, Given
    <2>2. \A e \in Event : StateOf(e) = "new"
      BY <2>1 DEF StateOf
    <2> QED BY <2>1, <2>2 DEF Handed, Held, Channel!Init
  <1> QED BY <1>1, HandedStep, ChannelStep, Invariance, PTL
          DEF Spec, ImplementsChannel, Channel!Spec

=============================================================================
