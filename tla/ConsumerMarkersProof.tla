------------------------ MODULE ConsumerMarkersProof ------------------------
(***************************************************************************)
(* One consumer leaves exactly the markers of the events, for any number   *)
(* of partitions no two of which carry events of one path, any log, batch  *)
(* size and number of crashes, replays and repeated transactions.          *)
(*                                                                         *)
(* MarkersExact speaks of the moments when everything is consumed.  The    *)
(* invariant has to say what "pending" is in between: it agrees with the   *)
(* whole log on every path that no message past the committed offset       *)
(* touches (CommittedAgrees), and on every path that neither the batch nor *)
(* a message still to be polled touches (PolledAgrees).  A replay keeps    *)
(* this because a batch holds its messages in the order of the log and     *)
(* without gaps (InOrder).                                                 *)
(***************************************************************************)
EXTENDS ConsumerProof

Touches(m, x) == Sets(m, x) \/ Clears(m, x)

\* No path has events in two partitions.
Separate ==
    \A p, q \in Partition : p # q =>
        \A i \in DOMAIN log[p], j \in DOMAIN log[q] : \A x \in Path :
            ~(Touches(log[p][i], x) /\ Touches(log[q][j], x))

\* No message of p after offset i touches x.
Quiet(p, i, x) == \A j \in DOMAIN log[p] : j > i => ~Touches(log[p][j], x)

\* Message k of the batch of c.
Entry(c, k) == log[batch[c][k][1]][batch[c][k][2]]

\* No message of the batch touches x.
Ignores(c, x) == \A k \in DOMAIN batch[c] : ~Touches(Entry(c, k), x)

\* The consumer has nothing: no partition and no batch.
Fresh(c) == /\ \A p \in Partition : owner[p] = NoOne
            /\ batch[c] = <<>>

\* The consumer has every partition.
OwnsAll(c) == \A p \in Partition : owner[p] = c

\* A rebalance finds a consumer that has nothing.
Assignment(c) ==
    /\ OwnsAll(c) \/ Fresh(c)
    /\ rejoin \/ ~Member(c) => Fresh(c)

\* The batch follows the log: its offsets are past the committed one, ascend in
\* each partition, and leave no queued message out up to the position.
InOrder(c) ==
    /\ OwnsAll(c) => \A p \in Partition : committed[p] <= position[p]
    /\ \A k \in DOMAIN batch[c] :
          /\ committed[batch[c][k][1]] < batch[c][k][2]
          /\ batch[c][k][2] <= position[batch[c][k][1]]
    /\ \A k, l \in DOMAIN batch[c] :
          k < l /\ batch[c][k][1] = batch[c][l][1] => batch[c][k][2] < batch[c][l][2]
    /\ \A k \in DOMAIN batch[c] : \A p \in Partition : \A j \in 1..position[p] :
          p = batch[c][k][1] /\ batch[c][k][2] <= j /\ Queued(log[p][j]) => InBatch(c, p, j)

\* A path has to carry a marker if the last event on it in its partition set one.
NeededLogged == needed = {x \in Path : \E p \in Partition : x \in Execute({}, log[p])}

Agrees(x) == x \in pending <=> x \in needed

CommittedAgrees ==
    \A x \in Path : (\A p \in Partition : Quiet(p, committed[p], x)) => Agrees(x)

PolledAgrees(c) ==
    OwnsAll(c) =>
        \A x \in Path : 
            (\A p \in Partition : Quiet(p, position[p], x)) /\ Ignores(c, x) => Agrees(x)

MarkersInv(c) ==
    /\ Assignment(c)
    /\ NothingDiscarded => InOrder(c) /\ CommittedAgrees /\ PolledAgrees(c)

-----------------------------------------------------------------------------
\* A message that touches a path is queued.
LEMMA TouchesQueued ==
    ASSUME NEW m, NEW x, Touches(m, x)
    PROVE  Queued(m)
  BY DEF Touches, Sets, Clears, Queued

\* No message both sets and clears a path.
LEMMA SetsNotClears ==
    ASSUME NEW m, NEW x
    PROVE  ~(Sets(m, x) /\ Clears(m, x))
  BY DEF Sets, Clears

\* Commands that do not touch x leave it as it is.
LEMMA ExecuteIgnores ==
    ASSUME NEW S \in SUBSET Path, NEW ms, NEW x \in Path,
           \A k \in DOMAIN ms : ~Touches(ms[k], x)
    PROVE  x \in Execute(S, ms) <=> x \in S
  BY DEF Execute, Touches

\* What one message does to a path.
LEMMA ExecuteOne ==
    ASSUME NEW S \in SUBSET Path, NEW m, NEW x \in Path
    PROVE  x \in Execute(S, <<m>>) <=> Sets(m, x) \/ (x \in S /\ ~Clears(m, x))
<1>1. DOMAIN <<m>> = {1} /\ <<m>>[1] = m
  OBVIOUS
<1>. QED  BY <1>1 DEF Execute

\* What the whole log of a partition says about a path.
LEMMA ExecuteLog ==
    ASSUME NEW ms, NEW x \in Path
    PROVE  x \in Execute({}, ms) <=>
              \E i \in DOMAIN ms : /\ Sets(ms[i], x)
                                   /\ \A j \in DOMAIN ms : j > i => ~Clears(ms[j], x)
  BY DEF Execute

\* A log with one message more: whether x needs a marker changes as one command
\* does it.
LEMMA ExecuteAppend ==
    ASSUME NEW ms \in Seq(Message), NEW m \in Message, NEW x \in Path
    PROVE  x \in Execute({}, Append(ms, m)) <=>
              Sets(m, x) \/ (x \in Execute({}, ms) /\ ~Clears(m, x))
<1>. DEFINE n == Len(ms)
            ns == Append(ms, m)
<1>1. /\ n \in Nat /\ DOMAIN ms = 1..n /\ DOMAIN ns = 1..(n + 1)
      /\ ns[n + 1] = m /\ \A i \in 1..n : ns[i] = ms[i]
  OBVIOUS
<1>2. ASSUME Sets(m, x) PROVE x \in Execute({}, ns)
  <2>1. \A j \in DOMAIN ns : ~(j > n + 1)
    BY <1>1
  <2>2. n + 1 \in DOMAIN ns /\ Sets(ns[n + 1], x)
    BY <1>1, <1>2
  <2>. QED  BY <2>1, <2>2, ExecuteLog
<1>3. ASSUME x \in Execute({}, ms), ~Clears(m, x) PROVE x \in Execute({}, ns)
  <2>1. PICK i \in DOMAIN ms : /\ Sets(ms[i], x)
                               /\ \A j \in DOMAIN ms : j > i => ~Clears(ms[j], x)
    BY <1>3, ExecuteLog
  <2>2. i \in DOMAIN ns /\ Sets(ns[i], x)
    BY <1>1, <2>1
  <2>3. ASSUME NEW j \in DOMAIN ns, j > i PROVE ~Clears(ns[j], x)
    <3>1. CASE j = n + 1
      BY <1>1, <1>3, <3>1
    <3>2. CASE j \in 1..n
      BY <1>1, <2>1, <2>3, <3>2
    <3>. QED  BY <1>1, <3>1, <3>2
  <2>. QED  BY <2>2, <2>3, ExecuteLog
<1>4. ASSUME x \in Execute({}, ns), ~Sets(m, x)
      PROVE  x \in Execute({}, ms) /\ ~Clears(m, x)
  <2>1. PICK i \in DOMAIN ns : /\ Sets(ns[i], x)
                               /\ \A j \in DOMAIN ns : j > i => ~Clears(ns[j], x)
    BY <1>4, ExecuteLog
  <2>2. i \in 1..n
    BY <1>1, <1>4, <2>1
  <2>3. Sets(ms[i], x) /\ \A j \in DOMAIN ms : j > i => ~Clears(ms[j], x)
    BY <1>1, <2>1, <2>2
  <2>4. ~Clears(ns[n + 1], x)
    BY <1>1, <2>1, <2>2
  <2>. QED  BY <1>1, <2>2, <2>3, <2>4, ExecuteLog
<1>. QED  BY <1>2, <1>3, <1>4

\* Every step keeps NeededLogged while the partitions are separate.
LEMMA NeededStep ==
    ASSUME TypeOK, NeededLogged, Separate', [Next]_vars
    PROVE  NeededLogged'
<1>1. ASSUME NEW p \in Partition, NEW m \in Message, Produce(p, m)
      PROVE  NeededLogged'
  <2>1. /\ log \in [Partition -> Seq(Message)] /\ needed \in SUBSET Path
        /\ log[p] \in Seq(Message)
    BY DEF TypeOK, KafkaTypeOK, HistoryTypeOK
  <2>2. /\ log' = [log EXCEPT ![p] = Append(log[p], m)]
        /\ needed' = Execute(needed, <<m>>)
    BY <1>1, Zenon DEF Produce
  <2>3. /\ log'[p] = Append(log[p], m)
        /\ \A q \in Partition \ {p} : log'[q] = log[q]
    BY <2>1, <2>2
  <2>4. needed' \in SUBSET Path
    BY <2>1, <2>2, ExecuteType
  <2>5. ASSUME NEW x \in Path
        PROVE  x \in needed' <=> \E q \in Partition : x \in Execute({}, log'[q])
    <3>1. x \in needed' <=> Sets(m, x) \/ (x \in needed /\ ~Clears(m, x))
      BY <2>1, <2>2, ExecuteOne
    <3>2. x \in Execute({}, log'[p]) <=>
              Sets(m, x) \/ (x \in Execute({}, log[p]) /\ ~Clears(m, x))
      BY <2>1, <2>3, ExecuteAppend
    <3>3. x \in needed <=> \E q \in Partition : x \in Execute({}, log[q])
      BY DEF NeededLogged
    <3>4. ASSUME NEW q \in Partition \ {p}, x \in Execute({}, log[q])
          PROVE  ~Clears(m, x)
      <4>1. PICK i \in DOMAIN log[q] : Sets(log[q][i], x)
        BY <3>4, ExecuteLog
      <4>2. /\ Len(log[p]) + 1 \in DOMAIN log'[p] /\ log'[p][Len(log[p]) + 1] = m
            /\ i \in DOMAIN log'[q] /\ log'[q][i] = log[q][i]
        BY <2>1, <2>3, <4>1
      <4>. QED  BY <4>1, <4>2 DEF Separate, Touches
    <3>. QED  BY <2>3, <3>1, <3>2, <3>3, <3>4
  <2>. QED  BY <2>4, <2>5 DEF NeededLogged
<1>2. ASSUME NEW c \in Consumer, Step(c)
      PROVE  UNCHANGED <<log, needed>>
  BY <1>2 DEF Step, PollMessage, PollRaises, PingFail, PollNone, PollError, FlushOk,
              FlushFail, CommitOk, CommitFail, AfterCommit, Sigterm, LeaveLoop, Close,
              FlushRaises, Crash, Exit, Start, ConnectRedis, ConnectRedisFail,
              CreateKafkaConsumer, CreateKafkaConsumerFail, kafka, history
<1>3. ASSUME Rebalance \/ UNCHANGED vars
      PROVE  UNCHANGED <<log, needed>>
  BY <1>3 DEF Rebalance, history, vars
<1>. QED  BY <1>1, <1>2, <1>3 DEF Next, NeededLogged

-----------------------------------------------------------------------------
(***************************************************************************)
(* The steps of the only consumer c, by what they do to the variables the  *)
(* invariant is about.                                                     *)
(***************************************************************************)
Stays(c) == (Member(c)' <=> Member(c)) /\ rejoin' = rejoin

\* A message of p was polled and parsed.
Polled(c, p) ==
    /\ owner[p] = c
    /\ position[p] < Len(log[p])
    /\ position' = [position EXCEPT ![p] = position[p] + 1]
    /\ batch'[c] = ParseEvent(batch[c], p, position[p] + 1)
    /\ UNCHANGED <<log, needed, committed, owner, pending>>

\* The batch has run in Redis.
Applied(c) ==
    /\ pending' = FlushBatch(batch[c])
    /\ batch'[c] = <<>>
    /\ UNCHANGED <<log, needed, committed, position, owner>>

\* The batch is gone, and Redis has not run it.
Dropped(c) ==
    /\ discarded' = Record(discarded, batch[c])
    /\ batch'[c] = <<>>
    /\ UNCHANGED <<log, needed, committed, position, owner, pending>>

\* A polled message was dropped while Redis was down.
Skipped(c) ==
    /\ \E p \in Partition : discarded'[p] # {}
    /\ UNCHANGED <<owner, batch>>

\* Kafka was asked to store the position.
Committed(c) ==
    /\ batch[c] = <<>>
    /\ batch' = batch
    /\ committed' \in {committed, StoredOffsets(c)}
    /\ UNCHANGED <<log, needed, position, owner, pending>>

\* Nothing of interest happened.
Idled(c) == UNCHANGED <<log, needed, committed, position, owner, batch, pending>>

\* Every step of the consumer is one of these.
LEMMA StepKinds ==
    ASSUME Inv, NEW c \in Consumer, Step(c)
    PROVE  \/ Stays(c) /\ \E p \in Partition : Polled(c, p)
           \/ Stays(c) /\ (Applied(c) \/ Dropped(c) \/ Skipped(c) \/ Committed(c))
           \/ Idled(c) /\ (Stays(c) \/ ~Member(c))
           \/ Exit(c)
<1>. DEFINE Goal == \/ Stays(c) /\ \E p \in Partition : Polled(c, p)
                    \/ Stays(c) /\ (Applied(c) \/ Dropped(c) \/ Skipped(c) \/ Committed(c))
                    \/ Idled(c) /\ (Stays(c) \/ ~Member(c))
                    \/ Exit(c)
<1>0. /\ pc \in [Consumer -> PC] /\ batch \in [Consumer -> Seq(Partition \X Offset)]
      /\ discarded \in [Partition -> SUBSET Offset] /\ position \in [Partition -> Nat]
  BY DEF Inv, TypeOK, ProcessTypeOK, HistoryTypeOK, KafkaTypeOK
<1>1. ASSUME NEW p \in Partition, PollMessage(c, p) PROVE Goal
  <2>1. /\ owner[p] = c /\ position[p] < Len(log[p])
        /\ position' = [position EXCEPT ![p] = position[p] + 1]
        /\ batch' = [batch EXCEPT ![c] = ParseEvent(batch[c], p, position[p] + 1)]
        /\ UNCHANGED <<log, committed, owner, rejoin, pending, needed>>
        /\ pc[c] = "poll"
        /\ \E l \in {"flush", "poll"} : pc' = [pc EXCEPT ![c] = l]
    BY <1>1, Zenon DEF PollMessage, Polling, Available, Advance, history
  <2>2. batch'[c] = ParseEvent(batch[c], p, position[p] + 1)
    BY <1>0, <2>1
  <2>3. Stays(c)
    BY <1>0, <2>1 DEF Stays, Member
  <2>. QED  BY <2>1, <2>2, <2>3 DEF Polled
<1>2. ASSUME NEW p \in Partition, PollRaises(c, p) PROVE Goal
  <2>1. /\ owner[p] = c /\ position[p] < Len(log[p])
        /\ position' = [position EXCEPT ![p] = position[p] + 1]
        /\ log[p][position[p] + 1].event = "undecodable"
        /\ UNCHANGED <<log, committed, owner, rejoin, pending, needed, batch>>
        /\ pc[c] = "poll"
        /\ \E l \in {"last_flush", "close"} : pc' = [pc EXCEPT ![c] = l]
    BY <1>2, Zenon DEF PollRaises, Polling, Available, Advance, Finally, Raises
  <2>2. batch'[c] = ParseEvent(batch[c], p, position[p] + 1)
    BY <2>1 DEF ParseEvent, Queued
  <2>3. Stays(c)
    BY <1>0, <2>1 DEF Stays, Member
  <2>. QED  BY <2>1, <2>2, <2>3 DEF Polled
<1>3. ASSUME PingFail(c) PROVE Goal
  <2>1. /\ UNCHANGED <<log, committed, owner, rejoin, pc, batch, pending, needed>>
        /\ \/ position' = position
           \/ \E p \in Partition : discarded' = [discarded EXCEPT ![p] = @ \cup {position[p] + 1}]
    BY <1>3, Zenon DEF PingFail
  <2>2. Stays(c)
    BY <2>1 DEF Stays, Member
  <2>3. CASE position' = position
    BY <2>1, <2>2, <2>3 DEF Idled
  <2>4. ASSUME NEW p \in Partition, discarded' = [discarded EXCEPT ![p] = @ \cup {position[p] + 1}]
        PROVE  Goal
    <3>1. discarded'[p] # {}
      BY <1>0, <2>4
    <3>. QED  BY <2>1, <2>2, <3>1 DEF Skipped
  <2>. QED  BY <2>1, <2>3, <2>4
<1>4. ASSUME PollNone(c) \/ PollError(c) \/ Sigterm(c) \/ LeaveLoop(c) PROVE Goal
  <2>1. /\ UNCHANGED <<log, committed, position, owner, rejoin, batch, pending, needed>>
        /\ \/ pc' = pc
           \/ pc[c] = "poll" /\ \E l \in {"flush", "poll", "last_flush", "close"} :
                                   pc' = [pc EXCEPT ![c] = l]
    BY <1>4, Zenon DEF PollNone, PollError, Sigterm, LeaveLoop, Polling, Finally, kafka, history
  <2>2. Stays(c)
    BY <1>0, <2>1 DEF Stays, Member
  <2>. QED  BY <2>1, <2>2 DEF Idled
<1>5. ASSUME FlushOk(c) \/ FlushFail(c) PROVE Goal
  <2>1. /\ UNCHANGED <<log, committed, position, owner, rejoin, needed>>
        /\ batch' = [batch EXCEPT ![c] = <<>>]
        /\ pc[c] \in {"flush", "last_flush"}
        /\ \E l \in {"commit", "last_commit", "poll", "close"} : pc' = [pc EXCEPT ![c] = l]
        /\ \/ pending' = FlushBatch(batch[c])
           \/ discarded' = Record(discarded, batch[c]) /\ pending' = pending
    BY <1>5, Zenon DEF FlushOk, FlushFail, Flushing, kafka
  <2>2. Stays(c) /\ batch'[c] = <<>>
    BY <1>0, <2>1 DEF Stays, Member
  <2>. QED  BY <2>1, <2>2 DEF Applied, Dropped
<1>6. ASSUME CommitOk(c) \/ CommitFail(c) PROVE Goal
  <2>1. /\ UNCHANGED <<log, position, owner, rejoin, batch, pending, needed>>
        /\ committed' \in {committed, StoredOffsets(c)}
        /\ pc[c] \in {"commit", "last_commit"}
        /\ \E l \in {"poll", "close"} : pc' = [pc EXCEPT ![c] = l]
    BY <1>6 DEF CommitOk, CommitFail, AfterCommit, Committing, history
  <2>2. Stays(c)
    BY <1>0, <2>1 DEF Stays, Member
  <2>3. batch[c] = <<>>
    BY <2>1 DEF Inv, EmptyAtCommit
  <2>. QED  BY <2>1, <2>2, <2>3 DEF Committed
<1>7. ASSUME Starting(c) PROVE Goal
  <2>1. /\ UNCHANGED <<log, committed, position, owner, batch, pending, needed>>
        /\ pc[c] \in {"down", "redis", "kafka"}
    BY <1>7 DEF Starting, Start, ConnectRedis, ConnectRedisFail, CreateKafkaConsumer,
                CreateKafkaConsumerFail, kafka, process, history
  <2>. QED  BY <2>1 DEF Idled, Member
<1>8. ASSUME Close(c) \/ FlushRaises(c) \/ Crash(c) PROVE Goal
  BY <1>8 DEF Close, FlushRaises, Crash
<1>9. \/ \E p \in Partition : PollMessage(c, p) \/ PollRaises(c, p)
      \/ PingFail(c) \/ PollNone(c) \/ PollError(c) \/ FlushOk(c) \/ FlushFail(c)
      \/ CommitOk(c) \/ CommitFail(c) \/ Sigterm(c) \/ LeaveLoop(c) \/ Close(c)
      \/ FlushRaises(c) \/ Crash(c) \/ Starting(c)
  BY DEF Step, Starting
<1>. HIDE DEF Goal
<1>10. Goal
  BY <1>1, <1>2, <1>3, <1>4, <1>5, <1>6, <1>7, <1>8, <1>9
<1>. QED  BY <1>10 DEF Goal

\* Every step keeps the assignment: only a rebalance gives partitions, and it
\* finds the consumer with an empty batch.
LEMMA AssignmentStep ==
    ASSUME NEW c, Consumer = {c}, Inv, Assignment(c), [Next]_vars
    PROVE  Assignment(c)'
<1>0. /\ owner \in [Partition -> Consumer \cup {NoOne}] /\ c \in Consumer
      /\ batch \in [Consumer -> Seq(Partition \X Offset)]
  BY DEF Inv, TypeOK, KafkaTypeOK, ProcessTypeOK
<1>a. ASSUME UNCHANGED owner, batch'[c] \in {batch[c], <<>>}, Stays(c) \/ ~Member(c)
      PROVE  Assignment(c)'
  BY <1>a DEF Assignment, Stays, OwnsAll, Fresh
<1>1. ASSUME NEW p \in Partition, NEW m \in Message, Produce(p, m) PROVE Assignment(c)'
  <2>1. UNCHANGED owner /\ batch' = batch /\ Stays(c)
    BY <1>1 DEF Produce, process, Stays, Member
  <2>. QED  BY <1>a, <2>1
<1>2. ASSUME Step(c) PROVE Assignment(c)'
  <2>1. ASSUME NEW p \in Partition, Polled(c, p), Stays(c) PROVE Assignment(c)'
    <3>1. ~Fresh(c)
      BY <2>1, <1>0, ConsumerAssumption DEF Polled, Fresh
    <3>2. OwnsAll(c) /\ ~rejoin /\ Member(c)
      BY <3>1 DEF Assignment
    <3>. QED  BY <2>1, <3>2 DEF Assignment, OwnsAll, Polled, Stays
  <2>2. ASSUME Applied(c) \/ Dropped(c) \/ Skipped(c) \/ Committed(c), Stays(c)
        PROVE  Assignment(c)'
    <3>1. owner' = owner /\ batch'[c] \in {batch[c], <<>>}
      BY <2>2 DEF Applied, Dropped, Skipped, Committed
    <3>. QED  BY <1>a, <2>2, <3>1
  <2>3. ASSUME Idled(c), Stays(c) \/ ~Member(c) PROVE Assignment(c)'
    <3>1. owner' = owner /\ batch' = batch
      BY <2>3 DEF Idled
    <3>. QED  BY <1>a, <2>3, <3>1
  <2>4. ASSUME Exit(c) PROVE Assignment(c)'
    <3>1. batch'[c] = <<>> /\ \A p \in Partition : owner'[p] = NoOne
      BY <1>0, <2>4 DEF Exit, Released
    <3>. QED  BY <3>1 DEF Assignment, Fresh
  <2>. QED  BY <1>0, <1>2, <2>1, <2>2, <2>3, <2>4, StepKinds
<1>3. ASSUME Rebalance PROVE Assignment(c)'
  <2>1. /\ \A p \in Partition : owner'[p] = c
        /\ rejoin' = FALSE /\ pc' = pc
        /\ pc[c] = "poll"
    BY <1>3 DEF Rebalance, process
  <2>. QED  BY <2>1 DEF Assignment, OwnsAll, Member
<1>4. ASSUME UNCHANGED vars PROVE Assignment(c)'
  <2>1. UNCHANGED owner /\ batch' = batch /\ Stays(c)
    BY <1>4 DEF vars, Stays, Member
  <2>. QED  BY <1>a, <2>1
<1>. QED  BY <1>1, <1>2, <1>3, <1>4 DEF Next

\* Once something is discarded it stays so.
LEMMA DiscardStays ==
    ASSUME TypeOK, [Next]_vars, NothingDiscarded'
    PROVE  NothingDiscarded
  BY Grows DEF NothingDiscarded

\* What Append does to a batch.
LEMMA AppendEntry ==
    ASSUME NEW b \in Seq(Partition \X Offset), NEW e \in Partition \X Offset
    PROVE  /\ Len(b) \in Nat /\ DOMAIN b = 1..Len(b)
           /\ DOMAIN Append(b, e) = 1..(Len(b) + 1)
           /\ \A k \in 1..Len(b) : Append(b, e)[k] = b[k]
           /\ Append(b, e)[Len(b) + 1] = e
  OBVIOUS

\* A batch that Redis did not run and that is not empty is recorded as discarded.
LEMMA DroppedEmpty ==
    ASSUME Inv, NEW c \in Consumer, Dropped(c), NothingDiscarded'
    PROVE  batch[c] = <<>>
<1>1. batch[c] \in Seq(Partition \X Offset) /\ discarded \in [Partition -> SUBSET Offset]
  BY DEF Inv, TypeOK, ProcessTypeOK, HistoryTypeOK
<1>. SUFFICES ASSUME batch[c] # <<>> PROVE FALSE
  OBVIOUS
<1>2. 1 \in DOMAIN batch[c] /\ batch[c][1] \in Partition \X Offset
  BY <1>1
<1>3. PICK p \in Partition, i \in Offset : batch[c][1] = <<p, i>>
  BY <1>2
<1>4. i \in Record(discarded, batch[c])[p]
  BY <1>1, <1>2, <1>3, RecordType
<1>. QED  BY <1>4 DEF Dropped, NothingDiscarded

\* A poll keeps the batch in order.
LEMMA InOrderPolled ==
    ASSUME Inv, NEW c \in Consumer, InOrder(c), OwnsAll(c),
           NEW p \in Partition, Polled(c, p)
    PROVE  InOrder(c)'
<1>. DEFINE b == batch[c]
            i == position[p] + 1
            d == batch'[c]
<1>1. /\ b \in Seq(Partition \X Offset)
      /\ position \in [Partition -> Nat] /\ committed \in [Partition -> Nat]
      /\ i \in Offset /\ i \in Nat
  BY DEF Inv, TypeOK, ProcessTypeOK, KafkaTypeOK, Offset
<1>2. /\ position'[p] = i
      /\ \A q \in Partition \ {p} : position'[q] = position[q]
      /\ \A q \in Partition : position'[q] \in Nat
      /\ committed' = committed /\ log' = log
      /\ d = ParseEvent(b, p, i)
      /\ position[p] < i
  BY <1>1 DEF Polled
<1>3. \A q \in Partition : /\ committed[q] <= position[q] /\ position[q] <= position'[q]
                           /\ committed[q] \in Nat /\ position[q] \in Nat
  <2>1. \A q \in Partition : committed[q] <= position[q]
    BY DEF InOrder
  <2>2. ASSUME NEW q \in Partition PROVE position[q] <= position'[q]
    <3>1. position[q] \in Nat
      BY <1>1
    <3>2. CASE q = p
      BY <1>1, <1>2, <3>1, <3>2
    <3>3. CASE q # p
      BY <1>2, <3>1, <3>3
    <3>. QED  BY <3>2, <3>3
  <2>. QED  BY <1>1, <2>1, <2>2
<1>4. \A k \in DOMAIN b : /\ b[k] \in Partition \X Offset
                          /\ b[k][1] \in Partition /\ b[k][2] \in Nat
                          /\ committed[b[k][1]] < b[k][2] /\ b[k][2] <= position[b[k][1]]
  BY <1>1 DEF InOrder, Offset
\* The old entries, and the new one if there is one.
<1>5. \/ d = b /\ ~Queued(log[p][i])
      \/ /\ Queued(log[p][i])
         /\ DOMAIN d = 1..(Len(b) + 1) /\ DOMAIN b = 1..Len(b) /\ Len(b) \in Nat
         /\ \A k \in 1..Len(b) : d[k] = b[k]
         /\ d[Len(b) + 1] = <<p, i>>
  <2>1. CASE Queued(log[p][i])
    <3>1. d = Append(b, <<p, i>>) /\ <<p, i>> \in Partition \X Offset
      BY <1>1, <1>2, <2>1 DEF ParseEvent
    <3>. QED  BY <1>1, <2>1, <3>1, AppendEntry
  <2>2. CASE ~Queued(log[p][i])
    BY <1>2, <2>2 DEF ParseEvent
  <2>. QED  BY <2>1, <2>2
<1>6. \A k \in DOMAIN b : k \in DOMAIN d /\ d[k] = b[k]
  BY <1>5
<1>7. \A k \in DOMAIN d : k \in DOMAIN b \/ (d[k] = <<p, i>> /\ Queued(log[p][i])
                                             /\ \A l \in DOMAIN d : l <= k)
  BY <1>5
<1>. HIDE DEF b, d, i
<1>8. \A q \in Partition : committed'[q] <= position'[q]
  BY <1>2, <1>3
<1>9. ASSUME NEW k \in DOMAIN d
      PROVE  committed'[d[k][1]] < d[k][2] /\ d[k][2] <= position'[d[k][1]]
  <2>1. CASE k \in DOMAIN b
    BY <1>2, <1>3, <1>4, <1>6, <2>1
  <2>2. CASE d[k] = <<p, i>>
    BY <1>1, <1>2, <1>3, <2>2
  <2>. QED  BY <1>7, <2>1, <2>2
<1>10. ASSUME NEW k \in DOMAIN d, NEW l \in DOMAIN d, k < l, d[k][1] = d[l][1]
       PROVE  d[k][2] < d[l][2]
  <2>0. DOMAIN b \subseteq Nat /\ DOMAIN d \subseteq Nat
    <3>1. DOMAIN b \subseteq Nat
      BY <1>1 DEF b
    <3>. QED  BY <1>5, <3>1
  <2>1. k \in DOMAIN b
    BY <1>7, <1>10, <2>0
  <2>2. CASE l \in DOMAIN b
    BY <1>6, <1>10, <2>1, <2>2 DEF InOrder, b
  <2>3. CASE d[l] = <<p, i>>
    <3>1. b[k][1] = p /\ b[k][2] <= position[p] /\ b[k][2] \in Nat
      BY <1>4, <1>6, <1>10, <2>1, <2>3
    <3>. QED  BY <1>1, <1>2, <1>3, <1>6, <2>1, <2>3, <3>1
  <2>. QED  BY <1>7, <2>2, <2>3
<1>11. ASSUME NEW k \in DOMAIN d, NEW q \in Partition, NEW j \in 1..position'[q],
              q = d[k][1], d[k][2] <= j, Queued(log'[q][j])
       PROVE  \E l \in DOMAIN d : d[l] = <<q, j>>
  <2>1. CASE q = p /\ j = i
    <3>1. Queued(log[p][i])
      BY <1>2, <1>11, <2>1
    <3>2. Len(b) + 1 \in DOMAIN d /\ d[Len(b) + 1] = <<p, i>>
      BY <1>5, <3>1
    <3>. QED  BY <2>1, <3>2
  <2>2. CASE ~(q = p /\ j = i)
    <3>1. j \in 1..position[q]
      BY <1>1, <1>2, <1>3, <2>2 DEF i
    <3>2. k \in DOMAIN b
      BY <1>1, <1>2, <1>3, <1>7, <1>11, <2>2, <3>1
    <3>3. \E l \in DOMAIN b : b[l] = <<q, j>>
      BY <1>2, <1>6, <1>11, <3>1, <3>2 DEF InOrder, InBatch, b
    <3>. QED  BY <1>6, <3>3
  <2>. QED  BY <2>1, <2>2
<1>. QED  BY <1>8, <1>9, <1>10, <1>11 DEF InOrder, InBatch, d

\* Every step keeps the batch in order.
LEMMA InOrderStep ==
    ASSUME NEW c, Consumer = {c}, Inv, Assignment(c), InOrder(c), [Next]_vars,
           NothingDiscarded'
    PROVE  InOrder(c)'
<1>0. /\ owner \in [Partition -> Consumer \cup {NoOne}] /\ c \in Consumer
      /\ batch \in [Consumer -> Seq(Partition \X Offset)]
      /\ log \in [Partition -> Seq(Message)]
      /\ position \in [Partition -> Nat] /\ committed \in [Partition -> Nat]
  BY DEF Inv, TypeOK, KafkaTypeOK, ProcessTypeOK
<1>a. ASSUME batch'[c] = <<>>,
             OwnsAll(c)' => \A p \in Partition : committed'[p] <= position'[p]
      PROVE  InOrder(c)'
  BY <1>a DEF InOrder
<1>1. ASSUME NEW p \in Partition, NEW m \in Message, Produce(p, m) PROVE InOrder(c)'
  <2>1. UNCHANGED <<owner, batch, committed, position>>
    BY <1>1 DEF Produce, process
  <2>2. \A q \in Partition : \A j \in 1..position[q] : log'[q][j] = log[q][j]
    <3>1. \A q \in Partition : position[q] <= Len(log[q]) /\ Len(log[q]) \in Nat
      BY <1>0 DEF Inv, InLog
    <3>2. \A q \in Partition : \A j \in 1..Len(log[q]) : log'[q][j] = log[q][j]
      BY Grows DEF Inv
    <3>. QED  BY <1>0, <3>1, <3>2
  <2>. QED  BY <2>1, <2>2 DEF InOrder, OwnsAll, InBatch
<1>2. ASSUME Step(c) PROVE InOrder(c)'
  <2>1. ASSUME NEW p \in Partition, Polled(c, p) PROVE InOrder(c)'
    <3>1. OwnsAll(c)
      BY <1>0, <2>1, ConsumerAssumption DEF Polled, Assignment, Fresh
    <3>. QED  BY <1>0, <2>1, <3>1, InOrderPolled
  <2>2. ASSUME Applied(c) \/ Dropped(c) PROVE InOrder(c)'
    BY <1>a, <2>2 DEF Applied, Dropped, InOrder, OwnsAll
  <2>3. ~Skipped(c)
    BY DEF Skipped, NothingDiscarded
  <2>4. ASSUME Committed(c) PROVE InOrder(c)'
    <3>1. /\ batch'[c] = <<>> /\ UNCHANGED <<owner, position>>
          /\ \/ committed' = committed
             \/ committed' = [p \in Partition |-> IF owner[p] = c THEN position[p] ELSE committed[p]]
      BY <2>4 DEF Committed, StoredOffsets
    <3>2. OwnsAll(c) => \A p \in Partition : committed'[p] <= position[p]
      BY <1>0, <3>1 DEF InOrder, OwnsAll
    <3>. QED  BY <1>a, <3>1, <3>2 DEF OwnsAll
  <2>5. ASSUME Idled(c) PROVE InOrder(c)'
    BY <2>5 DEF Idled, InOrder, OwnsAll, InBatch
  <2>6. ASSUME Exit(c) PROVE InOrder(c)'
    <3>1. batch'[c] = <<>> /\ \A p \in Partition : owner'[p] = NoOne
      BY <1>0, <2>6 DEF Exit, Released
    <3>. QED  BY <1>0, <1>a, <3>1, ConsumerAssumption DEF OwnsAll
  <2>. QED  BY <1>0, <1>2, <2>1, <2>2, <2>3, <2>4, <2>5, <2>6, StepKinds
<1>3. ASSUME Rebalance PROVE InOrder(c)'
  <2>1. batch'[c] = <<>> /\ position' = committed /\ committed' = committed
    BY <1>3 DEF Rebalance, ResumeAt, process, Assignment, Fresh
  <2>. QED  BY <1>0, <1>a, <2>1
<1>4. ASSUME UNCHANGED vars PROVE InOrder(c)'
  BY <1>4 DEF vars, InOrder, OwnsAll, InBatch
<1>. QED  BY <1>1, <1>2, <1>3, <1>4 DEF Next

-----------------------------------------------------------------------------
\* A new message touches no path that is quiet after it, and does not change
\* whether such a path needs a marker.
LEMMA ProducedQuiet ==
    ASSUME Inv, NEW p \in Partition, NEW m \in Message, Produce(p, m), NEW x \in Path,
           NEW i \in [Partition -> Nat],
           \A q \in Partition : i[q] <= Len(log[q]),
           \A q \in Partition : \A j \in DOMAIN log'[q] : j > i[q] => ~Touches(log'[q][j], x)
    PROVE  /\ \A q \in Partition : Quiet(q, i[q], x)
           /\ x \in needed' <=> x \in needed
<1>1. /\ log \in [Partition -> Seq(Message)] /\ needed \in SUBSET Path
      /\ log[p] \in Seq(Message) /\ Len(log[p]) \in Nat
  BY DEF Inv, TypeOK, KafkaTypeOK, HistoryTypeOK
<1>2. /\ log' = [log EXCEPT ![p] = Append(log[p], m)]
      /\ needed' = Execute(needed, <<m>>)
  BY Zenon DEF Produce
<1>3. /\ log'[p] = Append(log[p], m)
      /\ \A q \in Partition \ {p} : log'[q] = log[q]
  BY <1>1, <1>2
<1>4. /\ Len(log[p]) + 1 \in DOMAIN log'[p] /\ log'[p][Len(log[p]) + 1] = m
      /\ \A j \in DOMAIN log[p] : j \in DOMAIN log'[p] /\ log'[p][j] = log[p][j]
  BY <1>1, <1>3
<1>5. ~Touches(m, x)
  <2>1. Len(log[p]) + 1 > i[p]
    BY <1>1
  <2>. QED  BY <1>4, <2>1
<1>6. x \in needed' <=> x \in needed
  BY <1>1, <1>2, <1>5, ExecuteOne DEF Touches
<1>7. \A q \in Partition : Quiet(q, i[q], x)
  BY <1>3, <1>4 DEF Quiet
<1>. QED  BY <1>6, <1>7

\* Running a batch that ignores x leaves x as it is.
LEMMA AppliedIgnores ==
    ASSUME Inv, NEW c \in Consumer, Applied(c), NEW x \in Path, Ignores(c, x)
    PROVE  x \in pending' <=> x \in pending
<1>. DEFINE ms == [k \in DOMAIN batch[c] |-> log[batch[c][k][1]][batch[c][k][2]]]
<1>1. pending' = Execute(pending, ms) /\ pending \in SUBSET Path
  BY DEF Applied, FlushBatch, Inv, TypeOK, HistoryTypeOK
<1>2. \A k \in DOMAIN ms : ~Touches(ms[k], x)
  BY DEF Ignores, Entry
<1>. HIDE DEF ms
<1>. QED  BY <1>1, <1>2, ExecuteIgnores

\* Every step keeps CommittedAgrees: what is run lies past the committed offset,
\* and a commit comes when everything polled has run.
LEMMA CommittedStep ==
    ASSUME NEW c, Consumer = {c}, Inv, Assignment(c), InOrder(c), [Next]_vars,
           NothingDiscarded', CommittedAgrees, PolledAgrees(c)
    PROVE  CommittedAgrees'
<1>0. /\ committed \in [Partition -> Nat] /\ c \in Consumer
      /\ batch[c] \in Seq(Partition \X Offset)
      /\ \A p \in Partition : /\ log[p] \in Seq(Message) /\ Len(log[p]) \in Nat
                              /\ DOMAIN log[p] = 1..Len(log[p])
                              /\ committed[p] <= Len(log[p]) /\ position[p] <= Len(log[p])
                              /\ position[p] \in Nat
  BY DEF Inv, TypeOK, KafkaTypeOK, ProcessTypeOK, InLog
<1>a. ASSUME UNCHANGED <<log, needed, committed, pending>>
      PROVE  CommittedAgrees'
  BY <1>a DEF CommittedAgrees, Quiet, Agrees
<1>1. ASSUME NEW p \in Partition, NEW m \in Message, Produce(p, m) PROVE CommittedAgrees'
  <2>1. committed' = committed /\ pending' = pending
    BY <1>1 DEF Produce
  <2>2. ASSUME NEW x \in Path,
               \A q \in Partition : \A j \in DOMAIN log'[q] :
                  j > committed[q] => ~Touches(log'[q][j], x)
        PROVE  x \in pending' <=> x \in needed'
    <3>1. /\ \A q \in Partition : Quiet(q, committed[q], x)
          /\ x \in needed' <=> x \in needed
      BY <1>0, <1>1, <2>2, ProducedQuiet
    <3>. QED  BY <2>1, <3>1 DEF CommittedAgrees, Agrees
  <2>. QED  BY <2>1, <2>2 DEF CommittedAgrees, Quiet, Agrees
<1>2. ASSUME Step(c) PROVE CommittedAgrees'
  <2>1. ASSUME (\E p \in Partition : Polled(c, p)) \/ Dropped(c) \/ Idled(c) \/ Exit(c)
        PROVE  CommittedAgrees'
    <3>1. UNCHANGED <<log, needed, committed, pending>>
      BY <2>1 DEF Polled, Dropped, Idled, Exit, history
    <3>. QED  BY <1>a, <3>1
  <2>2. ASSUME Applied(c) PROVE CommittedAgrees'
    <3>1. UNCHANGED <<log, needed, committed>>
      BY <2>2 DEF Applied
    <3>2. ASSUME NEW x \in Path, \A p \in Partition : Quiet(p, committed[p], x)
          PROVE  Ignores(c, x)
      <4>. SUFFICES ASSUME NEW k \in DOMAIN batch[c] PROVE ~Touches(Entry(c, k), x)
        BY DEF Ignores
      <4>1. /\ batch[c][k][1] \in Partition /\ batch[c][k][2] \in Nat
            /\ batch[c][k][2] \in DOMAIN log[batch[c][k][1]]
            /\ batch[c][k][2] > committed[batch[c][k][1]]
        <5>1. /\ batch[c][k][1] \in Partition /\ batch[c][k][2] \in Nat \ {0}
          BY <1>0 DEF Offset
        <5>2. /\ committed[batch[c][k][1]] < batch[c][k][2]
              /\ batch[c][k][2] <= position[batch[c][k][1]]
          BY DEF InOrder
        <5>. QED  BY <1>0, <5>1, <5>2
      <4>. QED  BY <3>2, <4>1 DEF Quiet, Entry
    <3>3. ASSUME NEW x \in Path, \A p \in Partition : Quiet(p, committed[p], x)
          PROVE  x \in pending' <=> x \in needed
      BY <1>0, <2>2, <3>2, <3>3, AppliedIgnores DEF CommittedAgrees, Agrees
    <3>. QED  BY <3>1, <3>3 DEF CommittedAgrees, Quiet, Agrees
  <2>3. ~Skipped(c)
    BY DEF Skipped, NothingDiscarded
  <2>4. ASSUME Committed(c) PROVE CommittedAgrees'
    <3>1. /\ batch[c] = <<>> /\ UNCHANGED <<log, needed, pending>>
          /\ \/ committed' = committed
             \/ committed' = [p \in Partition |-> IF owner[p] = c THEN position[p] ELSE committed[p]]
      BY <2>4 DEF Committed, StoredOffsets
    <3>2. CASE committed' = committed
      BY <1>a, <3>1, <3>2
    <3>3. CASE OwnsAll(c) /\ committed' # committed
      <4>1. \A p \in Partition : committed'[p] = position[p]
        BY <3>1, <3>3 DEF OwnsAll
      <4>2. \A x \in Path : Ignores(c, x)
        BY <3>1 DEF Ignores
      <4>3. \A x \in Path : (\A p \in Partition : Quiet(p, position[p], x)) => Agrees(x)
        BY <3>3, <4>2 DEF PolledAgrees
      <4>. QED  BY <3>1, <4>1, <4>3 DEF CommittedAgrees, Quiet, Agrees
    <3>4. CASE Fresh(c)
      <4>1. committed' = committed
        BY <1>0, <3>1, <3>4, ConsumerAssumption DEF Fresh
      <4>. QED  BY <1>a, <3>1, <4>1
    <3>. QED  BY <3>2, <3>3, <3>4 DEF Assignment
  <2>. QED  BY <1>0, <1>2, <2>1, <2>2, <2>3, <2>4, StepKinds
<1>3. ASSUME Rebalance \/ UNCHANGED vars PROVE CommittedAgrees'
  BY <1>3, <1>a DEF Rebalance, history, vars
<1>. QED  BY <1>1, <1>2, <1>3 DEF Next

\* A batch that touches x decides whether x carries a marker, and decides it as
\* the whole log does, if no message after the position touches x.
LEMMA AppliedTouches ==
    ASSUME Inv, Separate, NeededLogged, NEW c \in Consumer, InOrder(c), Applied(c),
           NEW x \in Path, ~Ignores(c, x),
           \A p \in Partition : Quiet(p, position[p], x)
    PROVE  x \in pending' <=> x \in needed
<1>. DEFINE b == batch[c]
            ms == [k \in DOMAIN b |-> log[b[k][1]][b[k][2]]]
<1>1. pending' = Execute(pending, ms)
  BY DEF Applied, FlushBatch
<1>2. /\ b \in Seq(Partition \X Offset) /\ DOMAIN b \subseteq Nat
      /\ log \in [Partition -> Seq(Message)]
      /\ \A p \in Partition : /\ DOMAIN log[p] = 1..Len(log[p]) /\ Len(log[p]) \in Nat
                              /\ position[p] \in Nat /\ position[p] <= Len(log[p])
  BY DEF Inv, TypeOK, ProcessTypeOK, KafkaTypeOK, InLog
<1>3. ASSUME NEW k \in DOMAIN b
      PROVE  /\ b[k][1] \in Partition /\ b[k][2] \in DOMAIN log[b[k][1]]
             /\ b[k][2] \in Nat /\ b[k][2] <= position[b[k][1]]
             /\ ms[k] = log[b[k][1]][b[k][2]]
  <2>1. b[k][1] \in Partition /\ b[k][2] \in Nat \ {0}
    BY <1>2 DEF Offset
  <2>2. b[k][2] <= position[b[k][1]]
    BY DEF InOrder
  <2>. QED  BY <1>2, <2>1, <2>2
<1>4. DOMAIN ms = DOMAIN b
  OBVIOUS
<1>5. \A k, l \in DOMAIN b : k < l /\ b[k][1] = b[l][1] => b[k][2] < b[l][2]
  BY DEF InOrder
\* A message that touches x and comes after one of the batch is in the batch.
<1>6. ASSUME NEW k \in DOMAIN b, NEW p \in Partition, p = b[k][1],
             NEW j \in DOMAIN log[p], b[k][2] <= j, Touches(log[p][j], x)
      PROVE  \E l \in DOMAIN b : b[l] = <<p, j>>
  <2>1. j \in 1..position[p]
    BY <1>2, <1>6 DEF Quiet
  <2>2. Queued(log[p][j])
    BY <1>6, TouchesQueued
  <2>. QED  BY <1>6, <2>1, <2>2 DEF InOrder, InBatch
<1>7. x \in needed <=>
         \E p \in Partition : \E i \in DOMAIN log[p] :
            Sets(log[p][i], x) /\ \A j \in DOMAIN log[p] : j > i => ~Clears(log[p][j], x)
  BY ExecuteLog DEF NeededLogged
<1>. HIDE DEF b, ms
\* The last word of the batch on x is the last word of the log.
<1>8. ASSUME NEW k \in DOMAIN b, Sets(ms[k], x),
             \A l \in DOMAIN b : l > k => ~Clears(ms[l], x)
      PROVE  x \in needed /\ x \in Execute(pending, ms)
  <2>. DEFINE p == b[k][1]
              i == b[k][2]
  <2>1. p \in Partition /\ i \in DOMAIN log[p] /\ Sets(log[p][i], x) /\ i \in Nat
    BY <1>3, <1>8
  <2>2. ASSUME NEW j \in DOMAIN log[p], j > i PROVE ~Clears(log[p][j], x)
    <3>. SUFFICES ASSUME Clears(log[p][j], x) PROVE FALSE
      OBVIOUS
    <3>0. j \in Nat
      BY <1>2, <2>1
    <3>1. PICK l \in DOMAIN b : b[l] = <<p, j>>
      BY <1>6, <2>1, <2>2, <3>0 DEF Touches
    <3>2. ~(l < k) /\ l # k
      BY <1>5, <2>1, <2>2, <3>0, <3>1
    <3>3. l > k
      BY <1>2, <3>2
    <3>. QED  BY <1>3, <1>8, <3>1, <3>3
  <2>3. x \in needed
    BY <1>7, <2>1, <2>2
  <2>4. x \in Execute(pending, ms)
    BY <1>4, <1>8 DEF Execute
  <2>. QED  BY <2>3, <2>4
\* If a message of the batch sets x and no message of the log clears x after it,
\* no message of the batch does.
<1>9. ASSUME NEW k \in DOMAIN b, NEW p \in Partition, p = b[k][1], Sets(ms[k], x),
             \A j \in DOMAIN log[p] : j > b[k][2] => ~Clears(log[p][j], x)
      PROVE  x \in Execute(pending, ms)
  <2>1. ASSUME NEW l \in DOMAIN b, l > k PROVE ~Clears(ms[l], x)
    <3>1. CASE b[l][1] = p
      <4>1. b[l][2] > b[k][2]
        BY <1>2, <1>3, <1>5, <1>9, <2>1, <3>1
      <4>. QED  BY <1>3, <1>9, <3>1, <4>1
    <3>2. CASE b[l][1] # p
      BY <1>3, <1>9, <3>2 DEF Separate, Touches
    <3>. QED  BY <3>1, <3>2
  <2>. QED  BY <1>8, <1>9, <2>1
<1>10. PICK k \in DOMAIN b : Touches(ms[k], x)
  BY DEF Ignores, Entry, b, ms
<1>11. ASSUME x \in Execute(pending, ms) PROVE x \in needed
  <2>1. \/ \E l \in DOMAIN b : Sets(ms[l], x) /\ \A h \in DOMAIN b : h > l => ~Clears(ms[h], x)
        \/ \A l \in DOMAIN b : ~Clears(ms[l], x)
    BY <1>4, <1>11 DEF Execute
  <2>2. CASE \A l \in DOMAIN b : ~Clears(ms[l], x)
    BY <1>8, <1>10, <2>2 DEF Touches
  <2>. QED  BY <1>8, <2>1, <2>2
<1>12. ASSUME x \in needed PROVE x \in Execute(pending, ms)
  <2>1. PICK p \in Partition : \E i \in DOMAIN log[p] :
            Sets(log[p][i], x) /\ \A j \in DOMAIN log[p] : j > i => ~Clears(log[p][j], x)
    BY <1>7, <1>12
  <2>2. PICK i \in DOMAIN log[p] :
            Sets(log[p][i], x) /\ \A j \in DOMAIN log[p] : j > i => ~Clears(log[p][j], x)
    BY <2>1
  <2>3. b[k][1] = p
    BY <1>3, <1>10, <2>2 DEF Separate, Touches
  <2>4. i \in Nat /\ b[k][2] \in Nat
    BY <1>2, <1>3
  <2>5. CASE b[k][2] <= i
    <3>1. PICK l \in DOMAIN b : b[l] = <<p, i>>
      BY <1>6, <2>2, <2>3, <2>5 DEF Touches
    <3>2. b[l][1] = p /\ b[l][2] = i /\ Sets(ms[l], x)
      BY <1>3, <2>2, <3>1
    <3>. QED  BY <1>9, <2>2, <3>2
  <2>6. CASE i < b[k][2]
    <3>1. Sets(ms[k], x)
      BY <1>3, <1>10, <2>2, <2>3, <2>6 DEF Touches
    <3>2. \A j \in DOMAIN log[p] : j > b[k][2] => ~Clears(log[p][j], x)
      BY <1>2, <2>2, <2>4, <2>6
    <3>. QED  BY <1>9, <2>3, <3>1, <3>2
  <2>. QED  BY <2>4, <2>5, <2>6
<1>. QED  BY <1>1, <1>11, <1>12

\* Every step keeps PolledAgrees.
LEMMA PolledStep ==
    ASSUME NEW c, Consumer = {c}, Inv, Assignment(c), InOrder(c), [Next]_vars,
           NothingDiscarded', CommittedAgrees, PolledAgrees(c), Separate, NeededLogged
    PROVE  PolledAgrees(c)'
<1>0. /\ position \in [Partition -> Nat] /\ c \in Consumer
      /\ batch \in [Consumer -> Seq(Partition \X Offset)]
      /\ batch[c] \in Seq(Partition \X Offset)
      /\ \A p \in Partition : /\ log[p] \in Seq(Message) /\ Len(log[p]) \in Nat
                              /\ DOMAIN log[p] = 1..Len(log[p])
                              /\ position[p] <= Len(log[p])
                              /\ position[p] \in Nat
  BY DEF Inv, TypeOK, KafkaTypeOK, ProcessTypeOK, InLog
<1>a. ASSUME UNCHANGED <<log, needed, position, owner, batch, pending>>
      PROVE  PolledAgrees(c)'
  BY <1>a DEF PolledAgrees, OwnsAll, Quiet, Ignores, Entry, Agrees
\* The messages of the batch are in the log.
<1>b. ASSUME NEW k \in DOMAIN batch[c]
      PROVE  /\ batch[c][k][1] \in Partition
             /\ batch[c][k][2] \in 1..Len(log[batch[c][k][1]])
  <2>1. /\ batch[c][k][1] \in Partition /\ batch[c][k][2] \in Nat \ {0}
    BY <1>0 DEF Offset
  <2>2. batch[c][k][2] <= position[batch[c][k][1]]
    BY DEF InOrder
  <2>. QED  BY <1>0, <2>1, <2>2
<1>1. ASSUME NEW p \in Partition, NEW m \in Message, Produce(p, m) PROVE PolledAgrees(c)'
  <2>1. UNCHANGED <<position, pending, owner, batch>>
    BY <1>1 DEF Produce, process
  <2>2. \A k \in DOMAIN batch[c] : log'[batch[c][k][1]][batch[c][k][2]] = Entry(c, k)
    BY <1>b, Grows DEF Entry, Inv
  <2>3. ASSUME OwnsAll(c), NEW x \in Path,
               \A q \in Partition : \A j \in DOMAIN log'[q] :
                  j > position[q] => ~Touches(log'[q][j], x),
               Ignores(c, x)
        PROVE  x \in pending' <=> x \in needed'
    <3>1. /\ \A q \in Partition : Quiet(q, position[q], x)
          /\ x \in needed' <=> x \in needed
      BY <1>0, <1>1, <2>3, ProducedQuiet
    <3>. QED  BY <2>1, <2>3, <3>1 DEF PolledAgrees, Agrees
  <2>4. \A x \in Path : Ignores(c, x)' <=> Ignores(c, x)
    BY <2>1, <2>2 DEF Ignores, Entry
  <2>. QED  BY <2>1, <2>3, <2>4 DEF PolledAgrees, OwnsAll, Quiet, Agrees
<1>2. ASSUME NEW p \in Partition, Polled(c, p) PROVE PolledAgrees(c)'
  <2>. DEFINE i == position[p] + 1
              d == batch'[c]
  <2>1. /\ UNCHANGED <<log, needed, owner, pending>>
        /\ position' = [position EXCEPT ![p] = i]
        /\ d = ParseEvent(batch[c], p, i)
        /\ i \in Nat /\ i \in DOMAIN log[p] /\ i \in Offset
    BY <1>0, <1>2 DEF Polled, Offset
  <2>2. /\ position'[p] = i /\ \A q \in Partition \ {p} : position'[q] = position[q]
    BY <1>0, <2>1
  <2>3. /\ \A k \in DOMAIN batch[c] : k \in DOMAIN d /\ d[k] = batch[c][k]
        /\ Queued(log[p][i]) => \E k \in DOMAIN d : d[k] = <<p, i>>
    <3>. HIDE DEF i, d
    <3>1. batch[c] \in Seq(Partition \X Offset) /\ i \in Offset /\ d = ParseEvent(batch[c], p, i)
      BY <1>0, <2>1
    <3>2. /\ \A k \in DOMAIN batch[c] : /\ k \in DOMAIN ParseEvent(batch[c], p, i)
                                        /\ ParseEvent(batch[c], p, i)[k] = batch[c][k]
          /\ Queued(log[p][i]) =>
                \E k \in DOMAIN ParseEvent(batch[c], p, i) : ParseEvent(batch[c], p, i)[k] = <<p, i>>
      BY <3>1, ParseEventType
    <3>. QED  BY <3>1, <3>2
  <2>4. ASSUME OwnsAll(c), NEW x \in Path,
               \A q \in Partition : Quiet(q, position'[q], x),
               \A k \in DOMAIN d : ~Touches(log[d[k][1]][d[k][2]], x)
        PROVE  Agrees(x)
    <3>1. Ignores(c, x)
      BY <2>3, <2>4 DEF Ignores, Entry
    <3>2. ~Touches(log[p][i], x)
      <4>1. CASE Queued(log[p][i])
        BY <2>3, <2>4, <4>1
      <4>2. CASE ~Queued(log[p][i])
        BY <4>2, TouchesQueued
      <4>. QED  BY <4>1, <4>2
    <3>3. ASSUME NEW q \in Partition PROVE Quiet(q, position[q], x)
      <4>1. CASE q = p
        <5>1. ASSUME NEW j \in DOMAIN log[p], j > position[p] PROVE ~Touches(log[p][j], x)
          <6>1. j = i \/ j > position'[p]
            BY <1>0, <2>2, <5>1
          <6>. QED  BY <2>4, <3>2, <5>1, <6>1 DEF Quiet
        <5>. QED  BY <4>1, <5>1 DEF Quiet
      <4>2. CASE q # p
        BY <2>2, <2>4, <4>2
      <4>. QED  BY <4>1, <4>2
    <3>. QED  BY <2>4, <3>1, <3>3 DEF PolledAgrees
  <2>. QED  BY <2>1, <2>4 DEF PolledAgrees, OwnsAll, Quiet, Ignores, Entry, Agrees
<1>3. ASSUME Applied(c) PROVE PolledAgrees(c)'
  <2>1. UNCHANGED <<log, needed, position, owner>>
    BY <1>3 DEF Applied
  <2>2. ASSUME OwnsAll(c), NEW x \in Path, \A p \in Partition : Quiet(p, position[p], x)
        PROVE  x \in pending' <=> x \in needed
    <3>1. CASE Ignores(c, x)
      BY <1>0, <1>3, <2>2, <3>1, AppliedIgnores DEF PolledAgrees, Agrees
    <3>2. CASE ~Ignores(c, x)
      BY <1>0, <1>3, <2>2, <3>2, AppliedTouches
    <3>. QED  BY <3>1, <3>2
  <2>. QED  BY <2>1, <2>2 DEF PolledAgrees, OwnsAll, Quiet, Agrees
<1>4. ASSUME Dropped(c) PROVE PolledAgrees(c)'
  <2>1. batch[c] = <<>>
    BY <1>0, <1>4, DroppedEmpty
  <2>2. UNCHANGED <<log, needed, position, owner, pending>> /\ batch'[c] = batch[c]
    BY <1>4, <2>1 DEF Dropped
  <2>. QED  BY <2>2 DEF PolledAgrees, OwnsAll, Quiet, Ignores, Entry, Agrees
<1>5. ~Skipped(c)
  BY DEF Skipped, NothingDiscarded
<1>6. ASSUME Committed(c) \/ Idled(c) PROVE PolledAgrees(c)'
  BY <1>6, <1>a DEF Committed, Idled
<1>7. ASSUME Exit(c) PROVE PolledAgrees(c)'
  <2>1. /\ \A p \in Partition : owner'[p] # c
        /\ UNCHANGED <<log, needed, pending>>
    BY <1>0, <1>7, ConsumerAssumption DEF Exit, Released, history
  <2>2. OwnsAll(c)' => Partition = {}
    BY <2>1 DEF OwnsAll
  <2>3. Partition = {} => \A x \in Path : Agrees(x)
    BY DEF CommittedAgrees
  <2>. QED  BY <2>1, <2>2, <2>3 DEF PolledAgrees, Agrees
<1>8. ASSUME Rebalance PROVE PolledAgrees(c)'
  <2>1. position' = committed /\ UNCHANGED <<log, needed, pending>>
    BY <1>8 DEF Rebalance, ResumeAt, history
  <2>. QED  BY <2>1 DEF PolledAgrees, CommittedAgrees, Quiet, Agrees
<1>9. ASSUME UNCHANGED vars PROVE PolledAgrees(c)'
  BY <1>9, <1>a DEF vars
<1>10. ASSUME Step(c) PROVE PolledAgrees(c)'
  BY <1>0, <1>2, <1>3, <1>4, <1>5, <1>6, <1>7, <1>10, StepKinds
<1>. QED  BY <1>1, <1>8, <1>9, <1>10 DEF Next

-----------------------------------------------------------------------------
\* One consumer that reads partitions of which no two carry events of one path
\* leaves exactly the markers of the events in their order: replaying messages
\* from the committed offset and running a transaction twice do no harm
\* (ConsumerProcessor.flush_batch before safe_commit).
THEOREM OneConsumerExact ==
    ASSUME NEW c, Consumer = {c}
    PROVE  Spec /\ []Separate => []MarkersExact
<1>1. Init => NeededLogged /\ MarkersInv(c)
  <2>. SUFFICES ASSUME Init PROVE NeededLogged /\ MarkersInv(c)
    OBVIOUS
  <2>1. \A p \in Partition : log[p] = <<>> /\ owner[p] = NoOne
    BY DEF Init
  <2>2. batch[c] = <<>> /\ pending = {} /\ needed = {} /\ c # NoOne
    BY ConsumerAssumption DEF Init
  <2>3. \A p \in Partition : Execute({}, log[p]) = {}
    BY <2>1 DEF Execute
  <2>4. NeededLogged
    BY <2>2, <2>3 DEF NeededLogged
  <2>5. Assignment(c)
    BY <2>1, <2>2 DEF Assignment, Fresh
  <2>6. InOrder(c)
    BY <2>1, <2>2 DEF InOrder, OwnsAll
  <2>7. CommittedAgrees /\ PolledAgrees(c)
    BY <2>2 DEF CommittedAgrees, PolledAgrees, Agrees
  <2>. QED  BY <2>4, <2>5, <2>6, <2>7 DEF MarkersInv
<1>2. Inv /\ Separate /\ Separate' /\ NeededLogged /\ MarkersInv(c) /\ [Next]_vars
         => NeededLogged' /\ MarkersInv(c)'
  <2>. SUFFICES ASSUME Inv, Separate, Separate', NeededLogged, MarkersInv(c), [Next]_vars
                PROVE  NeededLogged' /\ MarkersInv(c)'
    OBVIOUS
  <2>1. NeededLogged'
    BY NeededStep DEF Inv
  <2>2. Assignment(c)'
    BY AssignmentStep DEF MarkersInv
  <2>3. ASSUME NothingDiscarded'
        PROVE  InOrder(c)' /\ CommittedAgrees' /\ PolledAgrees(c)'
    <3>1. NothingDiscarded
      BY <2>3, DiscardStays DEF Inv
    <3>2. Assignment(c) /\ InOrder(c) /\ CommittedAgrees /\ PolledAgrees(c)
      BY <3>1 DEF MarkersInv
    <3>. QED  BY <2>3, <3>2, InOrderStep, CommittedStep, PolledStep
  <2>. QED  BY <2>1, <2>2, <2>3 DEF MarkersInv
<1>3. Inv /\ MarkersInv(c) => MarkersExact
  <2>. SUFFICES ASSUME Inv, MarkersInv(c), Quiescent, NothingDiscarded
                PROVE  pending = needed
    BY DEF MarkersExact
  <2>1. OwnsAll(c) /\ batch[c] = <<>>
    BY DEF Quiescent, OwnsAll, Inv, TypeOK, KafkaTypeOK
  <2>2. \A x \in Path : Ignores(c, x) /\ \A p \in Partition : Quiet(p, position[p], x)
    <3>1. \A p \in Partition : \A j \in DOMAIN log[p] : ~(j > position[p])
      BY DEF Quiescent, Inv, TypeOK, KafkaTypeOK
    <3>. QED  BY <2>1, <3>1 DEF Ignores, Quiet
  <2>3. \A x \in Path : x \in pending <=> x \in needed
    BY <2>1, <2>2 DEF MarkersInv, PolledAgrees, Agrees
  <2>. QED  BY <2>3 DEF Inv, TypeOK, HistoryTypeOK
<1>. QED  BY <1>1, <1>2, <1>3, Invariance, PTL DEF Spec

\* With one partition the events of all hosts are in one order, and one consumer
\* leaves exact markers whichever paths the hosts share; none is missing.
THEOREM SingleExact ==
    ASSUME NEW c, NEW p, Consumer = {c}, Partition = {p}
    PROVE  Spec => [](MarkersExact /\ MarkersComplete)
<1>1. Separate
  BY DEF Separate
<1>2. MarkersExact => MarkersComplete
  BY DEF MarkersExact, MarkersComplete
<1>. QED  BY <1>1, <1>2, OneConsumerExact, PTL

=============================================================================
