------------------------------ MODULE Consumer ------------------------------
(***************************************************************************)
(* backup-consumer (consumer/main.py, consumer/consumer.py): daemons of    *)
(* one Kafka consumer group that copy the agents' events into the Redis    *)
(* hash "pending".                                                         *)
(*                                                                         *)
(* Each consumer is one thread: it polls a message, parses it into its     *)
(* in-memory batch, and when the batch is full, or old enough at a poll    *)
(* that returned nothing, runs the batch as one Redis transaction and then *)
(* commits its position to Kafka.  Poll with parse, Redis transaction and  *)
(* commit are separate steps: a crash, a message or another consumer's     *)
(* step may come between them.                                             *)
(*                                                                         *)
(* Kafka (the log, the committed offsets, the group protocol) and Redis    *)
(* are external and modelled as the code uses them.  The agents publish    *)
(* with key=hostname, so a partition stands for the agents of some hosts   *)
(* that share the file system.                                             *)
(***************************************************************************)
EXTENDS Markers

CONSTANTS
    Consumer,           \* Consumer daemons of the group
    Partition,          \* Partitions of the topic
    NoOne,              \* The owner of an unassigned partition
    Message,            \* The messages the agents publish
    BatchSize,          \* BATCH_SIZE
    BatchTimeout,       \* BATCH_TIMEOUT, in poll timeouts (1 s)
    MaxLog,             \* Bound on the length of a partition
    Budget              \* Bound on the number of faults of each kind

Fault == {"redis", "kafka", "crash", "sigterm"}

ASSUME ConsumerAssumption ==
    /\ NoOne \notin Consumer
    /\ Message \subseteq EventMessage
    /\ BatchSize \in Nat \ {0}
    /\ BatchTimeout \in Nat
    /\ MaxLog \in Nat
    /\ Budget \in [Fault -> Nat]

VARIABLES
    \* Kafka
    log,                \* log[p]: messages of partition p, offset = index
    committed,          \* committed[p]: messages before the committed offset
    position,           \* position[p]: messages its owner has polled
    owner,              \* owner[p]: the consumer p is assigned to
    rejoin,             \* A member joined or left since the last assignment
    \* The consumer processes
    pc,                 \* Where in main() the consumer is
    running,            \* running, cleared by sig_handler
    batch,              \* processor._batch, as <<partition, offset>> pairs
    redis_down,         \* redis_down
    since,              \* now - batch_start_time, saturated at BatchTimeout
    \* Redis
    pending,            \* The keys of the hash "pending"
    \* What happened (history)
    applied,            \* applied[p]: offsets whose commands ran in Redis
    discarded,          \* discarded[p]: offsets a consumer polled and dropped
    raised,             \* raised[p]: offsets whose parsing raised
    needed,             \* Keys "pending" has if every event whose path
                        \* Python can read runs in order
    budget              \* Faults that may still happen

kafka == <<log, committed, position, owner, rejoin>>
process == <<pc, running, batch, redis_down, since>>
history == <<applied, discarded, raised, needed>>
vars == <<log, committed, position, owner, rejoin, pc, running, batch,
          redis_down, since, pending, applied, discarded, raised, needed, budget>>

PC == {"down", "redis", "kafka", "poll", "flush", "commit", "last_flush",
       "last_commit", "close"}
Offset == Nat \ {0}

Init ==
    /\ log = [p \in Partition |-> <<>>]
    /\ committed = [p \in Partition |-> 0]
    /\ position = [p \in Partition |-> 0]
    /\ owner = [p \in Partition |-> NoOne]
    /\ rejoin = FALSE
    /\ pc = [c \in Consumer |-> "down"]
    /\ running = [c \in Consumer |-> FALSE]
    /\ batch = [c \in Consumer |-> <<>>]
    /\ redis_down = [c \in Consumer |-> FALSE]
    /\ since = [c \in Consumer |-> 0]
    /\ pending = {}
    /\ applied = [p \in Partition |-> {}]
    /\ discarded = [p \in Partition |-> {}]
    /\ raised = [p \in Partition |-> {}]
    /\ needed = {}
    /\ budget = Budget

Spend(f) == /\ budget[f] > 0
            /\ budget' = [budget EXCEPT ![f] = @ - 1]

-----------------------------------------------------------------------------
(***************************************************************************)
(* Operators for what the handlers compute.                                *)
(***************************************************************************)

\* One poll timeout more on the clock of the batch.
Elapse(t) == IF t < BatchTimeout THEN t + 1 ELSE t

\* parse_event: a message that is queued is appended to the batch.
ParseEvent(b, p, i) == IF Queued(log[p][i]) THEN Append(b, <<p, i>>) ELSE b

\* Mutant: the size test is off by one.
BatchFullLate(b) == Len(b) > BatchSize

BatchFull(b) == Len(b) >= BatchSize

\* Mutant: only a full batch is flushed.
BatchNeverExpires(b, t) == FALSE

\* The test of a poll that returned no message.
BatchExpired(b, t) == b # <<>> /\ t >= BatchTimeout

\* Mutant: the pipeline runs all its HSETs first and then its HDELs.
FlushBatchHdelLast(b) ==
    LET ms == [k \in DOMAIN b |-> log[b[k][1]][b[k][2]]] IN
    {x \in Execute(pending, ms) : \A k \in DOMAIN ms : ~Clears(ms[k], x)}

\* The keys of "pending" after the pipeline of batch b.
FlushBatch(b) ==
    Execute(pending, [k \in DOMAIN b |-> log[b[k][1]][b[k][2]]])

\* A command of batch b cannot be encoded.
Unencodable(b) == \E k \in DOMAIN b : log[b[k][1]][b[k][2]].event = "unencodable"

\* h with the offsets of batch b added.
Record(h, b) ==
    [p \in Partition |->
        h[p] \cup {b[k][2] : k \in {l \in DOMAIN b : b[l][1] = p}}]

\* commit() without arguments: the offsets after the last polled messages of
\* the partitions assigned to c.
StoredOffsets(c) ==
    [p \in Partition |-> IF owner[p] = c THEN position[p] ELSE committed[p]]

\* What the group keeps of the partitions of a member that left.
Released(c) == [p \in Partition |-> IF owner[p] = c THEN NoOne ELSE owner[p]]

\* Where a new owner starts: the committed offset of each partition, or the
\* beginning (auto.offset.reset) if there is none.
ResumeAt == committed

-----------------------------------------------------------------------------
(***************************************************************************)
(* The agents.                                                             *)
(***************************************************************************)
Produce(p, m) ==
    /\ Len(log[p]) < MaxLog
    /\ log' = [log EXCEPT ![p] = Append(@, m)]
    /\ needed' = Execute(needed, <<m>>)
    /\ UNCHANGED <<committed, position, owner, rejoin, process, pending,
                   applied, discarded, raised, budget>>

-----------------------------------------------------------------------------
(***************************************************************************)
(* One iteration of the loop up to the decision to flush.  Time passes     *)
(* only in poll: 1 s when nothing comes, 0 or 1 s when something does.     *)
(* When redis_down holds the iteration first pings Redis.                  *)
(***************************************************************************)
Polling(c) == pc[c] = "poll" /\ running[c]

Available(c, p) == owner[p] = c /\ position[p] < Len(log[p])

Advance(p) == position' = [position EXCEPT ![p] = @ + 1]

Raises(m) == m.event = "undecodable"

\* A message came, and Redis is up as far as the consumer knows.
PollMessage(c, p) ==
    /\ Polling(c)
    /\ Available(c, p)
    /\ ~Raises(log[p][position[p] + 1])
    /\ Advance(p)
    /\ redis_down' = [redis_down EXCEPT ![c] = FALSE]
    /\ LET b == ParseEvent(batch[c], p, position[p] + 1) IN
       /\ batch' = [batch EXCEPT ![c] = b]
       /\ pc' = [pc EXCEPT ![c] = IF BatchFull(b) THEN "flush" ELSE "poll"]
    /\ \E t \in {since[c], Elapse(since[c])} : since' = [since EXCEPT ![c] = t]
    /\ UNCHANGED <<log, committed, owner, rejoin, running, pending, history,
                   budget>>

\* What the finally clause does first.
Finally(c) == IF batch[c] # <<>> THEN "last_flush" ELSE "close"

\* A message came whose parsing raises: the exception leaves the loop.  The
\* message counts as polled, so a commit of the finally clause passes it.
PollRaises(c, p) ==
    /\ Polling(c)
    /\ Available(c, p)
    /\ Raises(log[p][position[p] + 1])
    /\ Advance(p)
    /\ redis_down' = [redis_down EXCEPT ![c] = FALSE]
    /\ pc' = [pc EXCEPT ![c] = Finally(c)]
    /\ raised' = [raised EXCEPT ![p] = @ \cup {position[p] + 1}]
    /\ UNCHANGED <<log, committed, owner, rejoin, running, batch, since,
                   pending, applied, discarded, needed, budget>>

\* The ping fails: whatever poll returned is dropped and the loop continues.
PingFail(c) ==
    /\ Polling(c)
    /\ redis_down[c]
    /\ Spend("redis")
    /\ since' = [since EXCEPT ![c] = Elapse(@)]
    /\ \/ UNCHANGED <<position, discarded>>
       \/ \E p \in Partition :
            /\ Available(c, p)
            /\ Advance(p)
            /\ discarded' = [discarded EXCEPT ![p] = @ \cup {position[p] + 1}]
    /\ UNCHANGED <<log, committed, owner, rejoin, pc, running, batch,
                   redis_down, pending, applied, raised, needed>>

\* Mutant: the commit of an expired batch comes before its flush.
PollNoneCommitFirst(c) ==
    /\ Polling(c)
    /\ redis_down' = [redis_down EXCEPT ![c] = FALSE]
    /\ LET t == Elapse(since[c]) IN
       /\ since' = [since EXCEPT ![c] = t]
       /\ pc' = [pc EXCEPT ![c] =
                    IF BatchExpired(batch[c], t) THEN "commit" ELSE "poll"]
    /\ UNCHANGED <<kafka, running, batch, pending, history, budget>>

\* Nothing came for a second.
PollNone(c) ==
    /\ Polling(c)
    /\ redis_down' = [redis_down EXCEPT ![c] = FALSE]
    /\ LET t == Elapse(since[c]) IN
       /\ since' = [since EXCEPT ![c] = t]
       /\ pc' = [pc EXCEPT ![c] =
                    IF BatchExpired(batch[c], t) THEN "flush" ELSE "poll"]
    /\ UNCHANGED <<kafka, running, batch, pending, history, budget>>

\* An error event (end of partition or a broker error) came.
PollError(c) ==
    /\ Polling(c)
    /\ redis_down' = [redis_down EXCEPT ![c] = FALSE]
    /\ since' = [since EXCEPT ![c] = Elapse(@)]
    /\ UNCHANGED <<kafka, pc, running, batch, pending, history, budget>>

-----------------------------------------------------------------------------
(***************************************************************************)
(* flush_batch and safe_commit, in the loop or in the finally clause.      *)
(***************************************************************************)
InLoop(c) == pc[c] \in {"flush", "commit"}

Flushing(c) == pc[c] \in {"flush", "last_flush"}

Committing(c) == pc[c] \in {"commit", "last_commit"}

FlushOk(c) ==
    /\ Flushing(c)
    /\ ~Unencodable(batch[c])
    /\ pending' = FlushBatch(batch[c])
    /\ applied' = Record(applied, batch[c])
    /\ batch' = [batch EXCEPT ![c] = <<>>]
    /\ pc' = [pc EXCEPT ![c] = IF InLoop(c) THEN "commit" ELSE "last_commit"]
    /\ UNCHANGED <<kafka, running, redis_down, since, discarded, raised, needed,
                   budget>>

\* The pipeline raises: Redis may or may not have executed the transaction.
\* The batch is cleared all the same, and the position stays where it is.
FlushFail(c) ==
    /\ Flushing(c)
    /\ Spend("redis")
    /\ \/ /\ ~Unencodable(batch[c])
          /\ pending' = FlushBatch(batch[c])
          /\ applied' = Record(applied, batch[c])
          /\ UNCHANGED discarded
       \/ /\ discarded' = Record(discarded, batch[c])
          /\ UNCHANGED <<pending, applied>>
    /\ batch' = [batch EXCEPT ![c] = <<>>]
    /\ redis_down' = [redis_down EXCEPT ![c] = @ \/ InLoop(c)]
    /\ pc' = [pc EXCEPT ![c] = IF InLoop(c) THEN "poll" ELSE "close"]
    /\ UNCHANGED <<kafka, running, since, raised, needed>>

\* What follows a commit, whether it succeeded or not.
AfterCommit(c) ==
    /\ Committing(c)
    /\ since' = [since EXCEPT ![c] = IF InLoop(c) THEN 0 ELSE @]
    /\ pc' = [pc EXCEPT ![c] = IF InLoop(c) THEN "poll" ELSE "close"]
    /\ UNCHANGED <<log, position, owner, rejoin, running, batch, redis_down,
                   pending, history>>

CommitOk(c) ==
    /\ AfterCommit(c)
    /\ committed' = StoredOffsets(c)
    /\ UNCHANGED budget

\* commit raises; the broker may have stored the offsets before.
CommitFail(c) ==
    /\ AfterCommit(c)
    /\ Spend("kafka")
    /\ committed' \in {committed, StoredOffsets(c)}

-----------------------------------------------------------------------------
(***************************************************************************)
(* The life of a consumer process.                                         *)
(***************************************************************************)

\* SIGTERM or SIGINT.  An exception that leaves the loop (the hlen of the
\* progress line is not guarded) reaches the finally clause in the same way.
Sigterm(c) ==
    /\ pc[c] # "down"
    /\ running[c]
    /\ Spend("sigterm")
    /\ running' = [running EXCEPT ![c] = FALSE]
    /\ UNCHANGED <<kafka, pc, batch, redis_down, since, pending, history>>

\* The loop ends; the finally clause flushes what is left.
LeaveLoop(c) ==
    /\ pc[c] = "poll"
    /\ ~running[c]
    /\ pc' = [pc EXCEPT ![c] = Finally(c)]
    /\ UNCHANGED <<kafka, running, batch, redis_down, since, pending, history,
                   budget>>

\* The consumer has subscribed.
Member(c) == pc[c] \notin {"down", "redis", "kafka"}

\* The process is gone: its memory is lost, its partitions are released.
Exit(c) ==
    /\ pc' = [pc EXCEPT ![c] = "down"]
    /\ running' = [running EXCEPT ![c] = FALSE]
    /\ batch' = [batch EXCEPT ![c] = <<>>]
    /\ redis_down' = [redis_down EXCEPT ![c] = FALSE]
    /\ since' = [since EXCEPT ![c] = 0]
    /\ owner' = Released(c)
    /\ rejoin' = (rejoin \/ Member(c))
    /\ UNCHANGED <<log, committed, position, pending, history>>

Close(c) == pc[c] = "close" /\ Exit(c) /\ UNCHANGED budget

\* The pipeline cannot be encoded: the exception is none of Redis and leaves the
\* loop with the batch uncleared, the finally clause flushes it again, the same
\* exception ends the process, and nothing was sent.
FlushRaises(c) ==
    /\ Flushing(c)
    /\ Unencodable(batch[c])
    /\ Exit(c)
    /\ UNCHANGED budget

Crash(c) == pc[c] # "down" /\ Spend("crash") /\ Exit(c)

\* main() up to the loop: the process starts, connects to Redis and then to
\* Kafka.  Until it has subscribed it is no member of the group, and until it is
\* in the loop a signal ends it at once (Crash).
Start(c) ==
    /\ pc[c] = "down"
    /\ pc' = [pc EXCEPT ![c] = "redis"]
    /\ UNCHANGED <<kafka, running, batch, redis_down, since, pending, history,
                   budget>>

ConnectRedis(c) ==
    /\ pc[c] = "redis"
    /\ pc' = [pc EXCEPT ![c] = "kafka"]
    /\ UNCHANGED <<kafka, running, batch, redis_down, since, pending, history,
                   budget>>

\* The ping fails and is tried again after a while; an error of another kind, or
\* of the HLEN that follows, ends the process.
ConnectRedisFail(c) ==
    /\ pc[c] = "redis"
    /\ Spend("redis")
    /\ \E l \in {"redis", "down"} : pc' = [pc EXCEPT ![c] = l]
    /\ UNCHANGED <<kafka, running, batch, redis_down, since, pending, history>>

\* The brokers answered: subscribe, install the signal handlers, enter the loop.
CreateKafkaConsumer(c) ==
    /\ pc[c] = "kafka"
    /\ pc' = [pc EXCEPT ![c] = "poll"]
    /\ running' = [running EXCEPT ![c] = TRUE]
    /\ rejoin' = TRUE
    /\ UNCHANGED <<log, committed, position, owner, batch, redis_down, since,
                   pending, history, budget>>

\* list_topics fails: the consumer object is closed and made anew after a while.
CreateKafkaConsumerFail(c) ==
    /\ pc[c] = "kafka"
    /\ Spend("kafka")
    /\ UNCHANGED <<kafka, process, pending, history>>

\* The group assigns the partitions anew once every member is in poll.  The
\* consumer registers no callback: a batch in memory is kept, unflushed.
Rebalance ==
    /\ rejoin
    /\ \A c \in Consumer : Member(c) => pc[c] = "poll"
    /\ \E c \in Consumer : pc[c] = "poll"
    /\ \E a \in [Partition -> {c \in Consumer : pc[c] = "poll"}] : owner' = a
    /\ position' = ResumeAt
    /\ rejoin' = FALSE
    /\ UNCHANGED <<log, committed, process, pending, history, budget>>

-----------------------------------------------------------------------------
Step(c) ==
    \/ \E p \in Partition : PollMessage(c, p) \/ PollRaises(c, p)
    \/ PingFail(c)
    \/ PollNone(c)
    \/ PollError(c)
    \/ FlushOk(c)
    \/ FlushFail(c)
    \/ CommitOk(c)
    \/ CommitFail(c)
    \/ Sigterm(c)
    \/ LeaveLoop(c)
    \/ Close(c)
    \/ FlushRaises(c)
    \/ Crash(c)
    \/ Start(c)
    \/ ConnectRedis(c)
    \/ ConnectRedisFail(c)
    \/ CreateKafkaConsumer(c)
    \/ CreateKafkaConsumerFail(c)

Next ==
    \/ \E p \in Partition, m \in Message : Produce(p, m)
    \/ \E c \in Consumer : Step(c)
    \/ Rebalance

Spec == Init /\ [][Next]_vars

(***************************************************************************)
(* The loop runs, systemd (or the operator) starts the process again, and  *)
(* Kafka delivers what a consumer has not polled and assigns partitions.   *)
(***************************************************************************)
Fairness ==
    /\ \A c \in Consumer :
          /\ \A p \in Partition :
                WF_vars(PollMessage(c, p)) /\ WF_vars(PollRaises(c, p))
          /\ WF_vars(PollNone(c))
          /\ WF_vars(FlushOk(c))
          /\ WF_vars(FlushRaises(c))
          /\ WF_vars(CommitOk(c))
          /\ WF_vars(LeaveLoop(c))
          /\ WF_vars(Close(c))
          /\ WF_vars(Start(c))
          /\ WF_vars(ConnectRedis(c))
          /\ WF_vars(CreateKafkaConsumer(c))
    /\ WF_vars(Rebalance)

FairSpec == Spec /\ Fairness

-----------------------------------------------------------------------------
(***************************************************************************)
(* Properties.                                                             *)
(***************************************************************************)

KafkaTypeOK ==
    /\ log \in [Partition -> Seq(Message)]
    /\ committed \in [Partition -> Nat]
    /\ position \in [Partition -> Nat]
    /\ owner \in [Partition -> Consumer \cup {NoOne}]
    /\ rejoin \in BOOLEAN

ProcessTypeOK ==
    /\ pc \in [Consumer -> PC]
    /\ running \in [Consumer -> BOOLEAN]
    /\ batch \in [Consumer -> Seq(Partition \X Offset)]
    /\ redis_down \in [Consumer -> BOOLEAN]
    /\ since \in [Consumer -> 0..BatchTimeout]

HistoryTypeOK ==
    /\ pending \in SUBSET Path
    /\ needed \in SUBSET Path
    /\ applied \in [Partition -> SUBSET Offset]
    /\ discarded \in [Partition -> SUBSET Offset]
    /\ raised \in [Partition -> SUBSET Offset]
    /\ budget \in [Fault -> Nat]

\* The variables have their types, and a batch never outgrows BATCH_SIZE:
\* the size test of the loop runs after every message that is queued.
TypeOK ==
    /\ KafkaTypeOK
    /\ ProcessTypeOK
    /\ HistoryTypeOK
    /\ \A c \in Consumer : Len(batch[c]) <= BatchSize

\* Message i of partition p tells of no file that changed, or its command has
\* run, or a consumer dropped it because Redis did not answer, or parse_event
\* raised on it.
Settled(p, i) == \/ ~Reports(log[p][i])
                 \/ i \in applied[p] \cup discarded[p] \cup raised[p]

\* An offset is committed only past settled messages: crashes, restarts,
\* rebalances and failed or repeated commits lose nothing.  An event is lost in
\* three places only: flush_batch clears the batch of a failed transaction, the
\* loop drops what poll returned when the ping fails, and the finally clause
\* commits past a message whose parsing raised, with Redis up.
LossExplained ==
    \A p \in Partition : \A i \in 1..committed[p] :
        i \in DOMAIN log[p] /\ Settled(p, i)

\* "flush 성공 후에만 Kafka commit -> at-least-once": an event whose offset is
\* committed has reached Redis, Redis outage or not, whatever its path holds.
AtLeastOnce ==
    \A p \in Partition : \A i \in 1..committed[p] :
        Reports(log[p][i]) => i \in applied[p]

\* Every message is polled by the partition's owner and no batch is open.
Quiescent ==
    /\ \A p \in Partition : owner[p] # NoOne /\ position[p] = Len(log[p])
    /\ \A c \in Consumer : batch[c] = <<>>

NothingDiscarded == \A p \in Partition : discarded[p] = {}

\* One consumer reading one partition leaves exactly the markers of the
\* events in their order (those whose path Python can read), however often it
\* crashed, replayed messages from the committed offset or repeated a
\* transaction in between.
MarkersExact == Quiescent /\ NothingDiscarded => pending = needed

\* "HSET은 idempotent -> 중복 처리 무해": once everything is consumed, every
\* file that changed carries its marker, whatever was processed twice.
MarkersComplete == Quiescent /\ NothingDiscarded => needed \subseteq pending

\* Every queued message reaches Redis in the end if Redis answers and the
\* stream pauses, whatever crashes, restarts, rebalances and failed commits
\* happen on the way.
EventuallyApplied ==
    \A p \in Partition : \A i \in 1..MaxLog :
        (i \in DOMAIN log[p] /\ Queued(log[p][i])) ~> (i \in applied[p])

=============================================================================
