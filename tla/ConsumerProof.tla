--------------------------- MODULE ConsumerProof ---------------------------
(***************************************************************************)
(* For any number of consumers, partitions, paths and faults: the types of *)
(* Consumer, and that a committed offset passes an event that is not in    *)
(* Redis only if it was dropped in a Redis outage or its parsing raised.   *)
(*                                                                         *)
(* LossExplained is not inductive: a commit takes over the position of the *)
(* owner, so the invariant has to say what the owner polled and where      *)
(* those messages are (Held), and that nothing is left in memory when the  *)
(* consumer commits (EmptyAtCommit).                                       *)
(***************************************************************************)
EXTENDS Consumer, TLAPS

\* A consumer in the loop has room for the next message.
Room == \A c \in Consumer : pc[c] \in {"down", "redis", "kafka", "poll"} => Len(batch[c]) < BatchSize

\* A commit follows a flush: the batch is empty.
EmptyAtCommit ==
    \A c \in Consumer :
        pc[c] \in {"commit", "last_commit", "close"} => batch[c] = <<>>

\* Offsets do not run ahead of the log.
InLog ==
    \A p \in Partition : /\ committed[p] <= Len(log[p])
                         /\ position[p] <= Len(log[p])

InBatch(c, p, i) == \E k \in DOMAIN batch[c] : batch[c][k] = <<p, i>>

\* What the owner of p has polled is settled or in the owner's batch.
Held ==
    \A p \in Partition : \A i \in 1..position[p] :
        owner[p] \in Consumer => Settled(p, i) \/ InBatch(owner[p], p, i)

\* A step before the loop.
Starting(c) ==
    \/ Start(c)
    \/ ConnectRedis(c)
    \/ ConnectRedisFail(c)
    \/ CreateKafkaConsumer(c)
    \/ CreateKafkaConsumerFail(c)

Inv == TypeOK /\ Room /\ EmptyAtCommit /\ InLog /\ LossExplained /\ Held

-----------------------------------------------------------------------------
\* Running commands on a set of paths leaves a set of paths.
LEMMA ExecuteType ==
    ASSUME NEW S \in SUBSET Path, NEW ms
    PROVE  Execute(S, ms) \in SUBSET Path
  BY DEF Execute

\* Recording a batch adds offsets, among them those of the batch.
LEMMA RecordType ==
    ASSUME NEW h \in [Partition -> SUBSET Offset],
           NEW b \in Seq(Partition \X Offset)
    PROVE  /\ Record(h, b) \in [Partition -> SUBSET Offset]
           /\ \A p \in Partition : h[p] \subseteq Record(h, b)[p]
           /\ \A p \in Partition : \A k \in DOMAIN b : \A i :
                 b[k] = <<p, i>> => i \in Record(h, b)[p]
  BY DEF Record

\* Parsing a message adds at most one entry to a batch and keeps the others.
LEMMA ParseEventType ==
    ASSUME NEW b \in Seq(Partition \X Offset), NEW p \in Partition, NEW i \in Offset
    PROVE  /\ ParseEvent(b, p, i) \in Seq(Partition \X Offset)
           /\ Len(ParseEvent(b, p, i)) \in {Len(b), Len(b) + 1}
           /\ \A k \in DOMAIN b : /\ k \in DOMAIN ParseEvent(b, p, i)
                                  /\ ParseEvent(b, p, i)[k] = b[k]
           /\ Queued(log[p][i]) =>
                 \E k \in DOMAIN ParseEvent(b, p, i) : ParseEvent(b, p, i)[k] = <<p, i>>
<1>1. CASE Queued(log[p][i])
  <2>1. ParseEvent(b, p, i) = Append(b, <<p, i>>)
    BY <1>1 DEF ParseEvent
  <2>2. <<p, i>> \in Partition \X Offset
    OBVIOUS
  <2>3. /\ Append(b, <<p, i>>) \in Seq(Partition \X Offset)
        /\ Len(Append(b, <<p, i>>)) = Len(b) + 1
        /\ \A k \in 1..Len(b) : Append(b, <<p, i>>)[k] = b[k]
        /\ Append(b, <<p, i>>)[Len(b) + 1] = <<p, i>>
    BY <2>2
  <2>4. DOMAIN b = 1..Len(b) /\ DOMAIN Append(b, <<p, i>>) = 1..(Len(b) + 1) /\ Len(b) \in Nat
    BY <2>3
  <2>. QED  BY <2>1, <2>3, <2>4
<1>2. CASE ~Queued(log[p][i])
  BY <1>2 DEF ParseEvent
<1>. QED  BY <1>1, <1>2

\* The clock of a batch stays within its bound.
LEMMA ElapseType ==
    ASSUME NEW t \in 0..BatchTimeout PROVE Elapse(t) \in 0..BatchTimeout
  BY ConsumerAssumption DEF Elapse

-----------------------------------------------------------------------------
\* Every step keeps the types of the variables of Kafka.
LEMMA KafkaTypeStep ==
    ASSUME TypeOK, [Next]_vars
    PROVE  KafkaTypeOK'
<1>. USE DEF TypeOK, KafkaTypeOK
<1>1. ASSUME NEW p \in Partition, NEW m \in Message, Produce(p, m)
      PROVE  KafkaTypeOK'
  BY <1>1 DEF Produce
<1>2. ASSUME NEW c \in Consumer, NEW p \in Partition, PollMessage(c, p) \/ PollRaises(c, p)
      PROVE  KafkaTypeOK'
  <2>1. /\ position' = [position EXCEPT ![p] = @ + 1]
        /\ UNCHANGED <<log, committed, owner, rejoin>>
    BY <1>2, Zenon DEF PollMessage, PollRaises, Advance
  <2>. QED  BY <2>1
<1>3. ASSUME NEW c \in Consumer, PingFail(c)
      PROVE  KafkaTypeOK'
  <2>1. /\ position' = position
           \/ \E p \in Partition : position' = [position EXCEPT ![p] = @ + 1]
        /\ UNCHANGED <<log, committed, owner, rejoin>>
    BY <1>3, Zenon DEF PingFail, Advance
  <2>. QED  BY <2>1
<1>4. ASSUME NEW c \in Consumer,
             \/ PollNone(c) \/ PollError(c) \/ FlushOk(c) \/ FlushFail(c)
             \/ Sigterm(c) \/ LeaveLoop(c) \/ Start(c) \/ ConnectRedis(c)
             \/ ConnectRedisFail(c) \/ CreateKafkaConsumerFail(c)
      PROVE  KafkaTypeOK'
  BY <1>4 DEF PollNone, PollError, FlushOk, FlushFail, Sigterm, LeaveLoop, Start,
              ConnectRedis, ConnectRedisFail, CreateKafkaConsumerFail, kafka
<1>5. ASSUME NEW c \in Consumer, CommitOk(c) \/ CommitFail(c)
      PROVE  KafkaTypeOK'
  BY <1>5 DEF CommitOk, CommitFail, AfterCommit, StoredOffsets
<1>6. ASSUME NEW c \in Consumer, Close(c) \/ FlushRaises(c) \/ Crash(c)
      PROVE  KafkaTypeOK'
  BY <1>6 DEF Close, FlushRaises, Crash, Exit, Released
<1>7. ASSUME NEW c \in Consumer, CreateKafkaConsumer(c)
      PROVE  KafkaTypeOK'
  BY <1>7 DEF CreateKafkaConsumer
<1>8. CASE Rebalance
  BY <1>8 DEF Rebalance, ResumeAt
<1>9. CASE UNCHANGED vars
  BY <1>9 DEF vars
<1>. QED
  BY <1>1, <1>2, <1>3, <1>4, <1>5, <1>6, <1>7, <1>8, <1>9 DEF Next, Step

\* Every step keeps the types of Redis and of the history.
LEMMA HistoryTypeStep ==
    ASSUME TypeOK, [Next]_vars
    PROVE  HistoryTypeOK'
<1>. USE ConsumerAssumption DEF TypeOK, HistoryTypeOK, Fault, Spend
<1>1. ASSUME NEW p \in Partition, NEW m \in Message, Produce(p, m)
      PROVE  HistoryTypeOK'
  BY <1>1, ExecuteType DEF Produce
<1>2. ASSUME NEW c \in Consumer, NEW p \in Partition, PollMessage(c, p) \/ PollRaises(c, p)
      PROVE  HistoryTypeOK'
  <2>1. /\ \/ raised' = raised
           \/ raised' = [raised EXCEPT ![p] = @ \cup {position[p] + 1}]
        /\ UNCHANGED <<pending, applied, discarded, needed, budget>>
    BY <1>2, Zenon DEF PollMessage, PollRaises, history
  <2>2. position[p] + 1 \in Offset
    BY DEF KafkaTypeOK, Offset
  <2>. QED  BY <2>1, <2>2
<1>3. ASSUME NEW c \in Consumer, PingFail(c)
      PROVE  HistoryTypeOK'
  <2>1. /\ discarded' = discarded
           \/ \E p \in Partition :
                discarded' = [discarded EXCEPT ![p] = @ \cup {position[p] + 1}]
        /\ budget' = [budget EXCEPT !["redis"] = @ - 1]
        /\ budget["redis"] > 0
        /\ UNCHANGED <<pending, applied, raised, needed>>
    BY <1>3, Zenon DEF PingFail
  <2>2. \A p \in Partition : position[p] + 1 \in Offset
    BY DEF KafkaTypeOK, Offset
  <2>. QED  BY <2>1, <2>2
<1>4. ASSUME NEW c \in Consumer,
             \/ PollNone(c) \/ PollError(c) \/ CommitOk(c) \/ CommitFail(c)
             \/ Sigterm(c) \/ LeaveLoop(c) \/ Close(c) \/ FlushRaises(c) \/ Crash(c)
             \/ Starting(c)
      PROVE  HistoryTypeOK'
  BY <1>4 DEF PollNone, PollError, CommitOk, CommitFail, AfterCommit, Sigterm,
              LeaveLoop, Close, FlushRaises, Crash, Exit, Starting, Start, ConnectRedis,
              ConnectRedisFail, CreateKafkaConsumer, CreateKafkaConsumerFail, history
<1>5. ASSUME NEW c \in Consumer, FlushOk(c) \/ FlushFail(c)
      PROVE  HistoryTypeOK'
  <2>1. FlushBatch(batch[c]) \in SUBSET Path
    BY ExecuteType DEF FlushBatch
  <2>2. /\ Record(applied, batch[c]) \in [Partition -> SUBSET Offset]
        /\ Record(discarded, batch[c]) \in [Partition -> SUBSET Offset]
    BY RecordType DEF ProcessTypeOK
  <2>. QED  BY <1>5, <2>1, <2>2 DEF FlushOk, FlushFail
<1>6. CASE Rebalance
  BY <1>6 DEF Rebalance, history
<1>7. CASE UNCHANGED vars
  BY <1>7 DEF vars
<1>. QED
  BY <1>1, <1>2, <1>3, <1>4, <1>5, <1>6, <1>7 DEF Next, Step, Starting

\* Every step keeps the types of the processes and the bound on a batch.
LEMMA ProcessTypeStep ==
    ASSUME TypeOK, Room, EmptyAtCommit, [Next]_vars
    PROVE  ProcessTypeOK' /\ Room' /\ EmptyAtCommit'
<1>. USE ConsumerAssumption DEF TypeOK, ProcessTypeOK, PC, Room, EmptyAtCommit
<1>1. ASSUME NEW p \in Partition, NEW m \in Message, Produce(p, m)
      PROVE  ProcessTypeOK' /\ Room' /\ EmptyAtCommit'
  BY <1>1 DEF Produce, process
<1>2. ASSUME NEW c \in Consumer, NEW p \in Partition, PollMessage(c, p)
      PROVE  ProcessTypeOK' /\ Room' /\ EmptyAtCommit'
  <2>. DEFINE b == ParseEvent(batch[c], p, position[p] + 1)
  <2>1. /\ batch[c] \in Seq(Partition \X Offset)
        /\ Len(batch[c]) < BatchSize
        /\ position[p] + 1 \in Offset
    BY <1>2 DEF PollMessage, Polling, KafkaTypeOK, Offset
  <2>2. b \in Seq(Partition \X Offset)
    BY <2>1, ParseEventType
  <2>3. /\ batch' = [batch EXCEPT ![c] = b]
        /\ pc' = [pc EXCEPT ![c] = IF Len(b) >= BatchSize THEN "flush" ELSE "poll"]
        /\ redis_down' = [redis_down EXCEPT ![c] = FALSE]
        /\ running' = running
    BY <1>2 DEF PollMessage, BatchFull
  <2>4. since' \in [Consumer -> 0..BatchTimeout]
    <3>1. \E t \in {since[c], Elapse(since[c])} : since' = [since EXCEPT ![c] = t]
      BY <1>2, Zenon DEF PollMessage
    <3>. QED  BY <3>1, ElapseType
  <2>. HIDE DEF b
  <2>5. ProcessTypeOK'
    BY <2>2, <2>3, <2>4
  <2>6. Len(b) \in Nat
    BY <2>2
  <2>7. Room' /\ EmptyAtCommit'
    BY <2>3, <2>6
  <2>. QED  BY <2>5, <2>7
<1>2a. ASSUME NEW c \in Consumer, NEW p \in Partition, PollRaises(c, p)
      PROVE  ProcessTypeOK' /\ Room' /\ EmptyAtCommit'
  BY <1>2a DEF PollRaises, Finally
<1>3. ASSUME NEW c \in Consumer, PingFail(c)
      PROVE  ProcessTypeOK' /\ Room' /\ EmptyAtCommit'
  BY <1>3, ElapseType DEF PingFail
<1>4. ASSUME NEW c \in Consumer, PollNone(c)
      PROVE  ProcessTypeOK' /\ Room' /\ EmptyAtCommit'
  BY <1>4, ElapseType DEF PollNone, Polling
<1>5. ASSUME NEW c \in Consumer, PollError(c)
      PROVE  ProcessTypeOK' /\ Room' /\ EmptyAtCommit'
  BY <1>5, ElapseType DEF PollError
<1>6. ASSUME NEW c \in Consumer, FlushOk(c)
      PROVE  ProcessTypeOK' /\ Room' /\ EmptyAtCommit'
  BY <1>6 DEF FlushOk, InLoop
<1>7. ASSUME NEW c \in Consumer, FlushFail(c)
      PROVE  ProcessTypeOK' /\ Room' /\ EmptyAtCommit'
  BY <1>7 DEF FlushFail, InLoop
<1>8. ASSUME NEW c \in Consumer, CommitOk(c) \/ CommitFail(c)
      PROVE  ProcessTypeOK' /\ Room' /\ EmptyAtCommit'
  <2>1. AfterCommit(c)
    BY <1>8 DEF CommitOk, CommitFail
  <2>2. since' \in [Consumer -> 0..BatchTimeout]
    BY <2>1 DEF AfterCommit
  <2>3. /\ pc' = [pc EXCEPT ![c] = IF InLoop(c) THEN "poll" ELSE "close"]
        /\ UNCHANGED <<running, batch, redis_down>>
    BY <2>1 DEF AfterCommit
  <2>4. batch[c] = <<>> /\ Len(<<>>) = 0
    BY <2>1 DEF AfterCommit, Committing
  <2>. QED  BY <2>2, <2>3, <2>4
<1>9. ASSUME NEW c \in Consumer, Sigterm(c) \/ LeaveLoop(c) \/ Starting(c)
      PROVE  ProcessTypeOK' /\ Room' /\ EmptyAtCommit'
  BY <1>9 DEF Sigterm, LeaveLoop, Finally, Starting, Start, ConnectRedis, ConnectRedisFail,
              CreateKafkaConsumer, CreateKafkaConsumerFail, process
<1>10. ASSUME NEW c \in Consumer, Close(c) \/ FlushRaises(c) \/ Crash(c)
      PROVE  ProcessTypeOK' /\ Room' /\ EmptyAtCommit'
  <2>1. /\ pc' = [pc EXCEPT ![c] = "down"]
        /\ running' = [running EXCEPT ![c] = FALSE]
        /\ batch' = [batch EXCEPT ![c] = <<>>]
        /\ redis_down' = [redis_down EXCEPT ![c] = FALSE]
        /\ since' = [since EXCEPT ![c] = 0]
    BY <1>10 DEF Close, FlushRaises, Crash, Exit
  <2>2. <<>> \in Seq(Partition \X Offset) /\ Len(<<>>) = 0
    OBVIOUS
  <2>3. ProcessTypeOK'
    BY <2>1, <2>2
  <2>4. Room' /\ EmptyAtCommit'
    BY <2>1, <2>2
  <2>. QED  BY <2>3, <2>4
<1>11. CASE Rebalance
  BY <1>11 DEF Rebalance, process
<1>12. CASE UNCHANGED vars
  BY <1>12 DEF vars
<1>. QED
  BY <1>1, <1>2, <1>2a, <1>3, <1>4, <1>5, <1>6, <1>7, <1>8, <1>9, <1>10, <1>11, <1>12
  DEF Next, Step, Starting

\* Every step keeps the bound on a batch: only a poll adds to it, and a poll
\* finds room.
LEMMA BatchBoundStep ==
    ASSUME TypeOK, Room, [Next]_vars
    PROVE  \A c \in Consumer : Len(batch'[c]) <= BatchSize
<1>. USE ConsumerAssumption DEF TypeOK, ProcessTypeOK
<1>. DEFINE Goal == \A c \in Consumer : Len(batch'[c]) <= BatchSize
<1>1. ASSUME NEW c \in Consumer, NEW p \in Partition, PollMessage(c, p)
      PROVE  Goal
  <2>1. /\ batch' = [batch EXCEPT ![c] = ParseEvent(batch[c], p, position[p] + 1)]
        /\ pc[c] = "poll"
    BY <1>1, Zenon DEF PollMessage, Polling
  <2>2. position[p] + 1 \in Offset
    BY DEF KafkaTypeOK, Offset
  <2>3. /\ batch[c] \in Seq(Partition \X Offset)
        /\ Len(batch[c]) \in Nat
        /\ Len(batch[c]) < BatchSize
    BY <2>1 DEF Room
  <2>4. Len(ParseEvent(batch[c], p, position[p] + 1)) \in {Len(batch[c]), Len(batch[c]) + 1}
    BY <2>2, <2>3, ParseEventType
  <2>5. Len(ParseEvent(batch[c], p, position[p] + 1)) <= BatchSize
    BY <2>3, <2>4
  <2>. QED  BY <2>1, <2>5
<1>2. ASSUME NEW c \in Consumer, batch' = [batch EXCEPT ![c] = <<>>]
      PROVE  Goal
  <2>1. Len(<<>>) = 0
    OBVIOUS
  <2>. QED  BY <1>2, <2>1
<1>3. ASSUME batch' = batch
      PROVE  Goal
  BY <1>3
<1>. HIDE DEF Goal
<1>4. ASSUME NEW c \in Consumer, Step(c)
      PROVE  Goal
  <2>1. \/ \E p \in Partition : PollMessage(c, p)
        \/ batch' = [batch EXCEPT ![c] = <<>>]
        \/ batch' = batch
    BY <1>4 DEF Step, PollRaises, PingFail, PollNone, PollError, FlushOk, FlushFail,
                CommitOk, CommitFail, AfterCommit, Sigterm, LeaveLoop, Close, FlushRaises,
                Crash, Exit, Start, ConnectRedis, ConnectRedisFail, CreateKafkaConsumer,
                CreateKafkaConsumerFail, process
  <2>. QED  BY <1>1, <1>2, <1>3, <2>1
<1>5. ASSUME \/ Rebalance \/ UNCHANGED vars
             \/ \E p \in Partition, m \in Message : Produce(p, m)
      PROVE  Goal
  <2>1. batch' = batch
    BY <1>5 DEF Rebalance, Produce, process, vars
  <2>. QED  BY <1>3, <2>1
<1>6. Goal
  BY <1>4, <1>5 DEF Next
<1>. QED  BY <1>6 DEF Goal

-----------------------------------------------------------------------------
\* A step only adds to the log and to the history, so what is settled stays
\* settled.
LEMMA Grows ==
    ASSUME TypeOK, [Next]_vars, NEW p \in Partition
    PROVE  /\ Len(log[p]) <= Len(log'[p])
           /\ \A i \in 1..Len(log[p]) : log'[p][i] = log[p][i]
           /\ applied[p] \subseteq applied'[p]
           /\ discarded[p] \subseteq discarded'[p]
           /\ raised[p] \subseteq raised'[p]
<1>. DEFINE Goal == /\ Len(log[p]) <= Len(log'[p])
                    /\ \A i \in 1..Len(log[p]) : log'[p][i] = log[p][i]
                    /\ applied[p] \subseteq applied'[p]
                    /\ discarded[p] \subseteq discarded'[p]
                    /\ raised[p] \subseteq raised'[p]
<1>a. Len(log[p]) \in Nat
  BY DEF TypeOK, KafkaTypeOK
<1>1. ASSUME NEW q \in Partition, NEW m \in Message, Produce(q, m)
      PROVE  Goal
  <2>1. log[p] \in Seq(Message) /\ log[q] \in Seq(Message)
    BY DEF TypeOK, KafkaTypeOK
  <2>2. log' = [log EXCEPT ![q] = Append(@, m)] /\ UNCHANGED <<applied, discarded, raised>>
    BY <1>1 DEF Produce
  <2>3. log'[p] = IF p = q THEN Append(log[q], m) ELSE log[p]
    BY <2>2 DEF TypeOK, KafkaTypeOK
  <2>. QED  BY <1>a, <2>1, <2>2, <2>3
<1>2. ASSUME NEW c \in Consumer, FlushOk(c) \/ FlushFail(c)
      PROVE  Goal
  <2>1. /\ applied[p] \subseteq Record(applied, batch[c])[p]
        /\ discarded[p] \subseteq Record(discarded, batch[c])[p]
    BY DEF Record
  <2>. QED  BY <1>a, <1>2, <2>1 DEF FlushOk, FlushFail, kafka
<1>3. ASSUME NEW c \in Consumer, PingFail(c)
      PROVE  Goal
  <2>1. /\ discarded' = discarded
           \/ \E q \in Partition :
                discarded' = [discarded EXCEPT ![q] = @ \cup {position[q] + 1}]
        /\ UNCHANGED <<log, applied, raised>>
    BY <1>3, Zenon DEF PingFail
  <2>. QED  BY <1>a, <2>1 DEF TypeOK, HistoryTypeOK
<1>3a. ASSUME NEW c \in Consumer, NEW q \in Partition, PollRaises(c, q)
      PROVE  Goal
  <2>1. /\ raised' = [raised EXCEPT ![q] = @ \cup {position[q] + 1}]
        /\ UNCHANGED <<log, applied, discarded>>
    BY <1>3a, Zenon DEF PollRaises
  <2>. QED  BY <1>a, <2>1 DEF TypeOK, HistoryTypeOK
<1>4. CASE UNCHANGED <<log, applied, discarded, raised>>
  BY <1>a, <1>4
<1>5. ASSUME NEW c \in Consumer, Step(c)
      PROVE  Goal
  <2>. DEFINE Records == \/ PingFail(c) \/ FlushOk(c) \/ FlushFail(c)
                         \/ \E q \in Partition : PollRaises(c, q)
  <2>1. CASE Records
    BY <1>2, <1>3, <1>3a, <2>1
  <2>2. ASSUME ~Records
        PROVE  UNCHANGED <<log, applied, discarded, raised>>
    BY <1>5, <2>2
    DEF Step, PollMessage, PollNone, PollError, CommitOk, CommitFail,
        AfterCommit, Sigterm, LeaveLoop, Close, FlushRaises, Crash, Exit, Start,
        ConnectRedis, ConnectRedisFail, CreateKafkaConsumer, CreateKafkaConsumerFail,
        kafka, history
  <2>. QED  BY <1>4, <2>1, <2>2
<1>6. ASSUME Rebalance
      PROVE  Goal
  <2>1. UNCHANGED <<log, applied, discarded, raised>>
    BY <1>6 DEF Rebalance, history
  <2>. QED  BY <1>4, <2>1
<1>7. ASSUME UNCHANGED vars
      PROVE  Goal
  <2>1. UNCHANGED <<log, applied, discarded, raised>>
    BY <1>7 DEF vars
  <2>. QED  BY <1>4, <2>1
<1>. HIDE DEF Goal
<1>8. Goal
  BY <1>1, <1>5, <1>6, <1>7 DEF Next
<1>. QED  BY <1>8 DEF Goal

\* A settled message stays settled.
LEMMA SettledStable ==
    ASSUME TypeOK, [Next]_vars, NEW p \in Partition, NEW i \in 1..Len(log[p]),
           Settled(p, i)
    PROVE  Settled(p, i)'
<1>1. /\ log'[p][i] = log[p][i]
      /\ applied[p] \subseteq applied'[p]
      /\ discarded[p] \subseteq discarded'[p]
      /\ raised[p] \subseteq raised'[p]
  BY Grows
<1>2. \/ ~Reports(log[p][i])
      \/ i \in applied[p]
      \/ i \in discarded[p]
      \/ i \in raised[p]
  BY DEF Settled
<1>3. \/ ~Reports(log'[p][i])
      \/ i \in applied'[p]
      \/ i \in discarded'[p]
      \/ i \in raised'[p]
  BY <1>1, <1>2
<1>. QED  BY <1>3 DEF Settled

\* Every step keeps the offsets within the log.
LEMMA InLogStep ==
    ASSUME TypeOK, InLog, [Next]_vars
    PROVE  InLog'
<1>. SUFFICES ASSUME NEW p \in Partition
              PROVE  committed'[p] <= Len(log'[p]) /\ position'[p] <= Len(log'[p])
  BY DEF InLog
<1>1. /\ Len(log[p]) <= Len(log'[p])
      /\ committed[p] <= Len(log[p]) /\ position[p] <= Len(log[p])
  BY Grows DEF InLog
<1>2. /\ Len(log[p]) \in Nat /\ Len(log'[p]) \in Nat
      /\ committed[p] \in Nat /\ position[p] \in Nat
  BY KafkaTypeStep DEF TypeOK, KafkaTypeOK
<1>3. committed'[p] \in {committed[p], position[p]}
  <2>1. ASSUME NEW c \in Consumer, CommitOk(c) \/ CommitFail(c)
        PROVE  committed'[p] \in {committed[p], position[p]}
    BY <2>1 DEF CommitOk, CommitFail, StoredOffsets
  <2>2. ASSUME NEW c \in Consumer, Step(c), ~CommitOk(c), ~CommitFail(c)
        PROVE  committed' = committed
    BY <2>2 DEF Step, PollMessage, PollRaises, PingFail, PollNone, PollError, FlushOk,
                FlushFail, Sigterm, LeaveLoop, Close, FlushRaises, Crash, Exit, Start,
                ConnectRedis, ConnectRedisFail, CreateKafkaConsumer,
                CreateKafkaConsumerFail, kafka
  <2>3. ASSUME \/ Rebalance \/ UNCHANGED vars
               \/ \E q \in Partition, m \in Message : Produce(q, m)
        PROVE  committed' = committed
    BY <2>3 DEF Rebalance, Produce, vars
  <2>. QED  BY <2>1, <2>2, <2>3 DEF Next
<1>4. position'[p] <= Len(log[p])
  <2>. DEFINE Polled == \E q \in Partition : /\ position[q] < Len(log[q])
                                             /\ position' = [position EXCEPT ![q] = @ + 1]
  <2>1. ASSUME NEW c \in Consumer, NEW q \in Partition,
               PollMessage(c, q) \/ PollRaises(c, q)
        PROVE  Polled
    BY <2>1, Zenon DEF PollMessage, PollRaises, Available, Advance
  <2>2. ASSUME NEW c \in Consumer, PingFail(c)
        PROVE  Polled \/ position' = position
    BY <2>2, Zenon DEF PingFail, Available, Advance
  <2>3. ASSUME NEW c \in Consumer, Step(c), ~PingFail(c),
               ~\E q \in Partition : PollMessage(c, q) \/ PollRaises(c, q)
        PROVE  position' = position
    BY <2>3 DEF Step, PollNone, PollError, FlushOk, FlushFail, CommitOk, CommitFail,
                AfterCommit, Sigterm, LeaveLoop, Close, FlushRaises, Crash, Exit, Start,
                ConnectRedis, ConnectRedisFail, CreateKafkaConsumer,
                CreateKafkaConsumerFail, kafka
  <2>4. ASSUME \/ UNCHANGED vars
               \/ \E q \in Partition, m \in Message : Produce(q, m)
        PROVE  position' = position
    BY <2>4 DEF Produce, vars
  <2>5. CASE Rebalance
    BY <2>5, <1>1 DEF Rebalance, ResumeAt
  <2>6. CASE position' = position
    BY <2>6, <1>1
  <2>7. CASE Polled
    <3>1. PICK q \in Partition : /\ position[q] < Len(log[q])
                                 /\ position' = [position EXCEPT ![q] = @ + 1]
      BY <2>7
    <3>2. position'[p] = IF p = q THEN position[q] + 1 ELSE position[p]
      BY <3>1 DEF TypeOK, KafkaTypeOK
    <3>. QED  BY <3>1, <3>2, <1>1, <1>2
  <2>. HIDE DEF Polled
  <2>. QED  BY <2>1, <2>2, <2>3, <2>4, <2>5, <2>6, <2>7 DEF Next
<1>5. position'[p] \in Nat
  BY KafkaTypeStep DEF KafkaTypeOK
<1>. QED  BY <1>1, <1>2, <1>3, <1>4, <1>5

\* Every step keeps LossExplained: a commit moves to a position below which
\* everything is settled, since the batch of the committing owner is empty.
LEMMA LossStep ==
    ASSUME Inv, [Next]_vars
    PROVE  LossExplained'
<1>. USE DEF Inv
<1>. SUFFICES ASSUME NEW p \in Partition, NEW i \in 1..committed'[p]
              PROVE  i \in DOMAIN log'[p] /\ Settled(p, i)'
  BY DEF LossExplained
<1>1. Len(log[p]) \in Nat /\ committed[p] \in Nat /\ position[p] \in Nat
  BY DEF TypeOK, KafkaTypeOK
<1>2. i \in 1..Len(log[p]) /\ Settled(p, i)
  <2>1. CASE i \in 1..committed[p]
    BY <1>1, <2>1 DEF LossExplained, InLog
  <2>2. CASE i \notin 1..committed[p]
    <3>1. committed' # committed
      BY <2>2
    <3>2. \E c \in Consumer : CommitOk(c) \/ CommitFail(c)
      BY <3>1 DEF Next, Step, Produce, PollMessage, PollRaises, PingFail, PollNone,
                  PollError, FlushOk, FlushFail, Sigterm, LeaveLoop, Close, FlushRaises,
                  Crash, Exit, Start, ConnectRedis, ConnectRedisFail,
                  CreateKafkaConsumer, CreateKafkaConsumerFail, Rebalance, kafka, vars
    <3>3. PICK c \in Consumer : CommitOk(c) \/ CommitFail(c)
      BY <3>2
    <3>4. committed'[p] \in {committed[p],
                             IF owner[p] = c THEN position[p] ELSE committed[p]}
      BY <3>3 DEF CommitOk, CommitFail, StoredOffsets
    <3>5. owner[p] = c /\ i \in 1..position[p]
      BY <2>2, <3>4
    <3>6. batch[c] = <<>>
      BY <3>3 DEF CommitOk, CommitFail, AfterCommit, Committing, EmptyAtCommit
    <3>7. ~InBatch(c, p, i)
      BY <3>6 DEF InBatch
    <3>8. Settled(p, i)
      BY <3>5, <3>7 DEF Held
    <3>. QED  BY <1>1, <3>5, <3>8 DEF InLog
  <2>. QED  BY <2>1, <2>2
<1>3. Len(log[p]) <= Len(log'[p]) /\ Len(log'[p]) \in Nat /\ DOMAIN log'[p] = 1..Len(log'[p])
  BY Grows, KafkaTypeStep DEF KafkaTypeOK
<1>4. Settled(p, i)'
  BY <1>2, SettledStable
<1>. QED  BY <1>1, <1>2, <1>3, <1>4

\* Every step keeps Held.
LEMMA HeldStep ==
    ASSUME Inv, [Next]_vars
    PROVE  Held'
<1>. USE DEF Inv
<1>. SUFFICES ASSUME NEW p \in Partition, NEW i \in 1..position'[p],
                     owner'[p] \in Consumer
              PROVE  Settled(p, i)' \/ InBatch(owner[p], p, i)'
  BY DEF Held
<1>0. Len(log[p]) \in Nat /\ committed[p] \in Nat /\ position[p] \in Nat
  BY DEF TypeOK, KafkaTypeOK
<1>a. ASSUME Settled(p, i), i \in 1..Len(log[p])
      PROVE  Settled(p, i)'
  BY <1>a, SettledStable
<1>b. ASSUME UNCHANGED <<position, owner, batch>>
      PROVE  Settled(p, i)' \/ InBatch(owner[p], p, i)'
  <2>1. i \in 1..Len(log[p])
    BY <1>b, <1>0 DEF InLog
  <2>2. Settled(p, i) \/ InBatch(owner[p], p, i)
    BY <1>b DEF Held
  <2>. QED  BY <1>a, <1>b, <2>1, <2>2 DEF InBatch
<1>. DEFINE Goal == Settled(p, i)' \/ InBatch(owner[p], p, i)'
<1>. HIDE DEF Goal
<1>1. ASSUME NEW c \in Consumer, NEW q \in Partition, PollMessage(c, q)
      PROVE  Goal
  <2>. DEFINE b == ParseEvent(batch[c], q, position[q] + 1)
  <2>1. /\ owner[q] = c /\ position[q] < Len(log[q])
        /\ position' = [position EXCEPT ![q] = @ + 1]
        /\ batch' = [batch EXCEPT ![c] = b]
        /\ owner' = owner
        /\ log[q][position[q] + 1].event # "undecodable"
    BY <1>1, Zenon DEF PollMessage, Available, Advance, Raises
  <2>2. batch[c] \in Seq(Partition \X Offset) /\ position[q] + 1 \in Offset
    BY DEF TypeOK, KafkaTypeOK, ProcessTypeOK, Offset
  <2>3. /\ \A k \in DOMAIN batch[c] : k \in DOMAIN b /\ b[k] = batch[c][k]
        /\ Queued(log[q][position[q] + 1]) =>
              \E k \in DOMAIN b : b[k] = <<q, position[q] + 1>>
    BY <2>2, ParseEventType
  <2>. HIDE DEF b
  <2>4. batch'[c] = b /\ \A d \in Consumer \ {c} : batch'[d] = batch[d]
    BY <2>1 DEF TypeOK, ProcessTypeOK
  <2>5. position'[p] = IF p = q THEN position[q] + 1 ELSE position[p]
    BY <2>1 DEF TypeOK, KafkaTypeOK
  <2>6. CASE i \in 1..position[p]
    <3>1. i \in 1..Len(log[p])
      BY <1>0, <2>6 DEF InLog
    <3>2. Settled(p, i) \/ InBatch(owner[p], p, i)
      BY <2>1, <2>6 DEF Held
    <3>3. InBatch(owner[p], p, i) => InBatch(owner[p], p, i)'
      BY <2>1, <2>3, <2>4 DEF InBatch
    <3>. QED  BY <1>a, <3>1, <3>2, <3>3 DEF Goal
  <2>7. CASE i \notin 1..position[p]
    <3>1. p = q /\ i = position[q] + 1 /\ i \in 1..Len(log[p])
      BY <1>0, <2>1, <2>5, <2>7
    <3>2. CASE Queued(log[p][i])
      <4>1. \E k \in DOMAIN b : b[k] = <<p, i>>
        BY <2>3, <3>1, <3>2
      <4>. QED  BY <2>1, <2>4, <3>1, <4>1 DEF InBatch, Goal
    <3>3. CASE ~Queued(log[p][i])
      <4>1. Settled(p, i)
        BY <2>1, <3>1, <3>3 DEF Settled, Reports
      <4>. QED  BY <1>a, <3>1, <4>1 DEF Goal
    <3>. QED  BY <3>2, <3>3
  <2>. QED  BY <2>6, <2>7
<1>1a. ASSUME NEW c \in Consumer, NEW q \in Partition, PollRaises(c, q)
      PROVE  Goal
  <2>1. /\ position[q] < Len(log[q])
        /\ position' = [position EXCEPT ![q] = @ + 1]
        /\ raised' = [raised EXCEPT ![q] = @ \cup {position[q] + 1}]
        /\ batch' = batch /\ owner' = owner
    BY <1>1a, Zenon DEF PollRaises, Available, Advance
  <2>2. position'[p] = IF p = q THEN position[q] + 1 ELSE position[p]
    BY <2>1 DEF TypeOK, KafkaTypeOK
  <2>3. CASE i \in 1..position[p]
    <3>1. i \in 1..Len(log[p])
      BY <1>0, <2>3 DEF InLog
    <3>2. Settled(p, i) \/ InBatch(owner[p], p, i)
      BY <2>1, <2>3 DEF Held
    <3>. QED  BY <1>a, <2>1, <3>1, <3>2 DEF InBatch, Goal
  <2>4. CASE i \notin 1..position[p]
    <3>1. p = q /\ i = position[q] + 1 /\ i \in 1..Len(log[p])
      BY <1>0, <2>1, <2>2, <2>4
    <3>2. i \in raised'[p]
      BY <2>1, <3>1 DEF TypeOK, HistoryTypeOK
    <3>. QED  BY <3>2 DEF Settled, Goal
  <2>. QED  BY <2>3, <2>4
<1>2. ASSUME NEW c \in Consumer, PingFail(c)
      PROVE  Goal
  <2>1. owner' = owner /\ batch' = batch
    BY <1>2, Zenon DEF PingFail
  <2>2. CASE i \in 1..position[p]
    <3>1. i \in 1..Len(log[p])
      BY <1>0, <2>2 DEF InLog
    <3>2. Settled(p, i) \/ InBatch(owner[p], p, i)
      BY <2>1, <2>2 DEF Held
    <3>. QED  BY <1>a, <2>1, <3>1, <3>2 DEF InBatch, Goal
  <2>3. CASE i \notin 1..position[p]
    <3>1. \/ position' = position
          \/ \E q \in Partition :
                /\ position' = [position EXCEPT ![q] = @ + 1]
                /\ discarded' = [discarded EXCEPT ![q] = @ \cup {position[q] + 1}]
      BY <1>2, Zenon DEF PingFail, Advance
    <3>2. PICK q \in Partition :
                /\ position' = [position EXCEPT ![q] = @ + 1]
                /\ discarded' = [discarded EXCEPT ![q] = @ \cup {position[q] + 1}]
      BY <2>3, <3>1
    <3>3. position'[p] = IF p = q THEN position[q] + 1 ELSE position[p]
      BY <3>2 DEF TypeOK, KafkaTypeOK
    <3>4. p = q /\ i = position[q] + 1
      BY <1>0, <2>3, <3>3
    <3>5. i \in discarded'[p]
      BY <3>2, <3>4 DEF TypeOK, HistoryTypeOK
    <3>. QED  BY <3>5 DEF Settled, Goal
  <2>. QED  BY <2>2, <2>3
<1>3. ASSUME NEW c \in Consumer, FlushOk(c) \/ FlushFail(c)
      PROVE  Goal
  <2>1. /\ UNCHANGED <<log, position, owner>>
        /\ batch' = [batch EXCEPT ![c] = <<>>]
        /\ \/ applied' = Record(applied, batch[c])
           \/ discarded' = Record(discarded, batch[c])
    BY <1>3 DEF FlushOk, FlushFail, kafka
  <2>2. i \in 1..Len(log[p])
    BY <1>0, <2>1 DEF InLog
  <2>3. Settled(p, i) \/ InBatch(owner[p], p, i)
    BY <2>1 DEF Held
  <2>4. CASE InBatch(c, p, i)
    <3>1. PICK k \in DOMAIN batch[c] : batch[c][k] = <<p, i>>
      BY <2>4 DEF InBatch
    <3>2. /\ i \in Record(applied, batch[c])[p]
          /\ i \in Record(discarded, batch[c])[p]
      BY <3>1, RecordType DEF TypeOK, ProcessTypeOK, HistoryTypeOK
    <3>3. i \in applied'[p] \cup discarded'[p]
      BY <2>1, <3>2
    <3>. QED  BY <3>3 DEF Settled, Goal
  <2>5. CASE owner[p] # c /\ InBatch(owner[p], p, i)
    <3>1. batch'[owner[p]] = batch[owner[p]] /\ owner'[p] = owner[p]
      BY <2>1, <2>5 DEF TypeOK, ProcessTypeOK
    <3>. QED  BY <2>5, <3>1 DEF InBatch, Goal
  <2>. QED  BY <1>a, <2>2, <2>3, <2>4, <2>5 DEF Goal
<1>4. ASSUME NEW c \in Consumer, Close(c) \/ FlushRaises(c) \/ Crash(c)
      PROVE  Goal
  <2>1. /\ owner' = Released(c) /\ position' = position
        /\ batch' = [batch EXCEPT ![c] = <<>>]
    BY <1>4 DEF Close, FlushRaises, Crash, Exit
  <2>2. owner'[p] = owner[p] /\ owner[p] # c
    BY <2>1, ConsumerAssumption DEF Released
  <2>3. batch'[owner'[p]] = batch[owner[p]]
    BY <2>1, <2>2 DEF TypeOK, ProcessTypeOK
  <2>4. i \in 1..Len(log[p])
    BY <1>0, <2>1 DEF InLog
  <2>5. Settled(p, i) \/ InBatch(owner[p], p, i)
    BY <2>1, <2>2 DEF Held
  <2>. QED  BY <1>a, <2>3, <2>4, <2>5 DEF InBatch, Goal
<1>5. ASSUME Rebalance
      PROVE  Goal
  <2>1. i \in 1..committed[p]
    BY <1>5 DEF Rebalance, ResumeAt
  <2>2. i \in 1..Len(log[p]) /\ Settled(p, i)
    BY <1>0, <2>1 DEF LossExplained, InLog
  <2>. QED  BY <1>a, <2>2 DEF Goal
<1>6. ASSUME NEW c \in Consumer,
             \/ PollNone(c) \/ PollError(c) \/ CommitOk(c) \/ CommitFail(c)
             \/ Sigterm(c) \/ LeaveLoop(c) \/ Starting(c)
      PROVE  Goal
  <2>1. UNCHANGED <<position, owner, batch>>
    BY <1>6 DEF PollNone, PollError, CommitOk, CommitFail, AfterCommit, Sigterm,
                LeaveLoop, Starting, Start, ConnectRedis, ConnectRedisFail,
                CreateKafkaConsumer, CreateKafkaConsumerFail, kafka, process
  <2>. QED  BY <1>b, <2>1 DEF Goal
<1>7. ASSUME NEW q \in Partition, NEW m \in Message, Produce(q, m)
      PROVE  Goal
  <2>1. UNCHANGED <<position, owner, batch>>
    BY <1>7 DEF Produce, process
  <2>. QED  BY <1>b, <2>1 DEF Goal
<1>8. ASSUME UNCHANGED vars
      PROVE  Goal
  <2>1. UNCHANGED <<position, owner, batch>>
    BY <1>8 DEF vars
  <2>. QED  BY <1>b, <2>1 DEF Goal
<1>9. Goal
  BY <1>1, <1>1a, <1>2, <1>3, <1>4, <1>5, <1>6, <1>7, <1>8 DEF Next, Step, Starting
<1>. QED  BY <1>9 DEF Goal

-----------------------------------------------------------------------------
\* The inductive invariant holds in every reachable state.
THEOREM Invariance == Spec => []Inv
<1>1. Init => Inv
  <2>. SUFFICES ASSUME Init PROVE Inv
    OBVIOUS
  <2>. USE ConsumerAssumption DEF Init
  <2>0. <<>> \in Seq(Message)
    OBVIOUS
  <2>1. KafkaTypeOK
    <3>1. log \in [Partition -> Seq(Message)]
      BY <2>0
    <3>2. owner \in [Partition -> Consumer \cup {NoOne}]
      OBVIOUS
    <3>. QED  BY <3>1, <3>2 DEF KafkaTypeOK
  <2>2. ProcessTypeOK  BY DEF ProcessTypeOK, PC
  <2>3. HistoryTypeOK  BY DEF HistoryTypeOK
  <2>4. \A c \in Consumer : Len(batch[c]) = 0
    OBVIOUS
  <2>5. TypeOK /\ Room  BY <2>1, <2>2, <2>3, <2>4 DEF TypeOK, Room
  <2>6. EmptyAtCommit  BY DEF EmptyAtCommit
  <2>7. InLog  BY DEF InLog
  <2>8. LossExplained /\ Held  BY DEF LossExplained, Held
  <2>. QED  BY <2>5, <2>6, <2>7, <2>8 DEF Inv
<1>2. Inv /\ [Next]_vars => Inv'
  <2>. SUFFICES ASSUME Inv, [Next]_vars PROVE Inv'
    OBVIOUS
  <2>1. TypeOK /\ Room /\ EmptyAtCommit /\ InLog
    BY DEF Inv
  <2>2. KafkaTypeOK' /\ HistoryTypeOK' /\ ProcessTypeOK' /\ Room' /\ EmptyAtCommit'
    BY <2>1, KafkaTypeStep, HistoryTypeStep, ProcessTypeStep
  <2>3. \A c \in Consumer : Len(batch'[c]) <= BatchSize
    BY <2>1, BatchBoundStep
  <2>4. TypeOK'
    BY <2>2, <2>3 DEF TypeOK
  <2>5. InLog' /\ LossExplained' /\ Held'
    BY <2>1, InLogStep, LossStep, HeldStep
  <2>. QED  BY <2>2, <2>4, <2>5 DEF Inv
<1>. QED  BY <1>1, <1>2, PTL DEF Spec

\* The types hold, and no batch outgrows BATCH_SIZE (main.py, the size test
\* after parse_event).
THEOREM TypeCorrect == Spec => []TypeOK
  BY Invariance, PTL DEF Inv

\* safe_commit never commits past an event that is not in Redis, unless
\* flush_batch or the loop dropped it because Redis failed, or parse_event
\* raised on it.
THEOREM CommitSafe == Spec => []LossExplained
  BY Invariance, PTL DEF Inv

\* No Redis call will fail, and nothing has been dropped.
NoOutage == budget["redis"] = 0 /\ NothingDiscarded

\* Nothing is dropped while no Redis call fails.
LEMMA DropNeedsFailure ==
    ASSUME TypeOK, NoOutage, [Next]_vars
    PROVE  NoOutage'
<1>0. budget \in [Fault -> Nat] /\ "redis" \in Fault
  BY DEF TypeOK, HistoryTypeOK, Fault
<1>1. ASSUME NEW c \in Consumer, Step(c)
      PROVE  /\ discarded' = discarded
             /\ budget' = budget \/ \E f \in Fault : f # "redis" /\ Spend(f)
  <2>1. ~PingFail(c) /\ ~FlushFail(c) /\ ~ConnectRedisFail(c)
    BY DEF NoOutage, PingFail, FlushFail, ConnectRedisFail, Spend
  <2>. QED
    BY <1>1, <2>1
    DEF Step, PollMessage, PollRaises, PollNone, PollError, FlushOk, CommitOk, CommitFail,
        AfterCommit, Sigterm, LeaveLoop, Close, FlushRaises, Crash, Exit, Start,
        ConnectRedis, CreateKafkaConsumer, CreateKafkaConsumerFail, Fault, history
<1>2. ASSUME \/ Rebalance \/ UNCHANGED vars
             \/ \E p \in Partition, m \in Message : Produce(p, m)
      PROVE  discarded' = discarded /\ budget' = budget
  BY <1>2 DEF Rebalance, Produce, vars, history
<1>3. /\ discarded' = discarded
      /\ budget' = budget \/ \E f \in Fault : f # "redis" /\ Spend(f)
  BY <1>1, <1>2 DEF Next
<1>4. budget'["redis"] = budget["redis"]
  BY <1>0, <1>3 DEF Spend
<1>. QED  BY <1>3, <1>4 DEF NoOutage, NothingDiscarded

\* Parsing raised only on messages of the log that make it raise.
RaisedOnly == \A p \in Partition : \A i \in raised[p] :
                  i \in 1..Len(log[p]) /\ Raises(log[p][i])

LEMMA RaisedOnlyStep ==
    ASSUME TypeOK, RaisedOnly, [Next]_vars
    PROVE  RaisedOnly'
<1>. SUFFICES ASSUME NEW p \in Partition, NEW i \in raised'[p]
              PROVE  i \in 1..Len(log'[p]) /\ Raises(log'[p][i])
  BY DEF RaisedOnly
<1>1. i \in 1..Len(log[p]) /\ Raises(log[p][i])
  <2>1. CASE i \in raised[p]
    BY <2>1 DEF RaisedOnly
  <2>2. CASE i \notin raised[p]
    <3>1. raised' # raised
      BY <2>2
    <3>2. \E c \in Consumer, q \in Partition : PollRaises(c, q)
      BY <3>1 DEF Next, Step, Produce, PollMessage, PingFail, PollNone, PollError,
                  FlushOk, FlushFail, CommitOk, CommitFail, AfterCommit, Sigterm,
                  LeaveLoop, Close, FlushRaises, Crash, Exit, Start, ConnectRedis,
                  ConnectRedisFail, CreateKafkaConsumer, CreateKafkaConsumerFail,
                  Rebalance, history, vars
    <3>3. PICK c \in Consumer, q \in Partition : PollRaises(c, q)
      BY <3>2
    <3>4. /\ raised' = [raised EXCEPT ![q] = @ \cup {position[q] + 1}]
          /\ position[q] < Len(log[q]) /\ Raises(log[q][position[q] + 1])
      BY <3>3, Zenon DEF PollRaises, Available
    <3>5. p = q /\ i = position[q] + 1
      BY <2>2, <3>4 DEF TypeOK, HistoryTypeOK
    <3>6. Len(log[q]) \in Nat /\ position[q] \in Nat
      BY DEF TypeOK, KafkaTypeOK
    <3>. QED  BY <3>4, <3>5, <3>6
  <2>. QED  BY <2>1, <2>2
<1>2. /\ Len(log[p]) <= Len(log'[p]) /\ log'[p][i] = log[p][i]
      /\ Len(log[p]) \in Nat /\ Len(log'[p]) \in Nat
  BY <1>1, Grows, KafkaTypeStep DEF TypeOK, KafkaTypeOK
<1>. QED  BY <1>1, <1>2

\* An event whose offset is committed has reached Redis, or its parsing raises.
ReachedOrRaises ==
    \A p \in Partition : \A i \in 1..committed[p] :
        Reports(log[p][i]) => i \in applied[p] \/ Raises(log[p][i])

\* If no Redis call ever fails, an event whose offset is committed has reached
\* Redis, in spite of crashes, signals, rebalances and failed commits, unless
\* parse_event raises on it: then the commit of the finally clause may pass it.
THEOREM ReachedWithoutOutage ==
    ASSUME Budget["redis"] = 0
    PROVE  Spec => []ReachedOrRaises
<1>1. Init => NoOutage /\ RaisedOnly
  BY DEF Init, NoOutage, NothingDiscarded, RaisedOnly
<1>2. TypeOK /\ NoOutage /\ RaisedOnly /\ [Next]_vars => NoOutage' /\ RaisedOnly'
  BY DropNeedsFailure, RaisedOnlyStep
<1>3. LossExplained /\ NoOutage /\ RaisedOnly => ReachedOrRaises
  <2>. SUFFICES ASSUME LossExplained, NoOutage, RaisedOnly, NEW p \in Partition,
                       NEW i \in 1..committed[p], Reports(log[p][i])
                PROVE  i \in applied[p] \/ Raises(log[p][i])
    BY DEF ReachedOrRaises
  <2>1. i \in applied[p] \/ i \in discarded[p] \/ i \in raised[p]
    BY DEF LossExplained, Settled
  <2>. QED  BY <2>1 DEF NoOutage, NothingDiscarded, RaisedOnly
<1>. QED  BY <1>1, <1>2, <1>3, TypeCorrect, CommitSafe, PTL DEF Spec

\* If moreover every message can be decoded, at-least-once holds: the two
\* places that drop messages when Redis fails and the commit past a message that
\* was not parsed are the only ones that break it.
THEOREM AtLeastOnceIfReadable ==
    ASSUME Budget["redis"] = 0, \A m \in Message : ~Raises(m)
    PROVE  Spec => []AtLeastOnce
<1>1. TypeOK /\ LossExplained /\ ReachedOrRaises => AtLeastOnce
  <2>. SUFFICES ASSUME TypeOK, LossExplained, ReachedOrRaises, NEW p \in Partition,
                       NEW i \in 1..committed[p], Reports(log[p][i])
                PROVE  i \in applied[p]
    BY DEF AtLeastOnce
  <2>1. log[p] \in Seq(Message) /\ i \in DOMAIN log[p]
    BY DEF TypeOK, KafkaTypeOK, LossExplained
  <2>2. log[p][i] \in Message
    BY <2>1
  <2>. QED  BY <2>2 DEF ReachedOrRaises
<1>. QED  BY <1>1, TypeCorrect, CommitSafe, ReachedWithoutOutage, PTL

=============================================================================
