# file-tracker: TLA+ specifications

file-tracker is an incremental backup pipeline for a shared file system. An
agent on every host watches file changes with eBPF and publishes them to Kafka;
consumer daemons collect them in Redis as markers ("this file has to be looked
at"); a backup run, started by a timer, hands the marked files to restic.

This directory holds models of the pipeline's stages, the TLC configurations
that check them on small instances, and proofs of their main safety properties
checked by TLAPS.

## The system

| part | code | state it keeps | operations |
|---|---|---|---|
| probe | `src/bpf/probe.bpf.c` | ring buffer, dedup map (inode, time) | emit on write, truncate, utimes, unlink, rename |
| event handling | `src/main.cpp` (`handle_event`, `build_json`) | the pending half of a rename | pair renames, filter by prefix, hand on |
| debouncer | `src/debouncer.cpp` | one entry (first_seen, last_seen) per path | `on_event`, `tick`, `flush_all` |
| delivery | `src/main.cpp`, `src/kafka_producer.cpp`, `src/wal.cpp` | the producer's queue, the write-ahead log | `send`, delivery report, `append`, `read_all`, `truncate`, replay, retry, shutdown |
| consumer | `consumer/main.py`, `consumer/consumer.py` | batch, `redis_down`, Kafka position, the hash `pending` | poll, `parse_event`, `flush_batch`, `safe_commit` |
| backup run | `backup/backup.py` | `backup:lock`, `pending`, `processing`, `backup:last_run`, jobs of a thread pool | lock, RENAME, HSCAN, `backup_repo`, restore, DEL, release |
| prune run | `backup/prune.py` | `backup:lock`, the snapshots | lock, list the repositories, `restic forget`, release |
| CLI | `backup/cli.py` | none; reads the snapshots | status, snapshots, restore |
| configuration | `src/config.cpp` | none that changes | read once |

They interact through three queues or hashes: the agent's callbacks, all on
one thread (ring buffer, debouncer callback, delivery report), the Kafka topic keyed by
hostname, and the Redis hash `pending`, which consumers fill while a backup run
renames it to `processing`.

What is hard to test in it: probes on several CPUs whose events interleave in the
ring; writes that the dedup map suppresses; crashes between a Redis transaction and the Kafka
commit; batches kept over a rebalance; hosts whose events overtake each other; a
log that is truncated before its records are delivered; torn records; limits of
queue and log; a run killed between RENAME and DEL; a lock that expires under its
holder; repositories that fail while others succeed; snapshots that each hold only a few
files. `PROJECT.json` lists each at
its line under "hazards", with the properties that cover it.

## Modules

| module | models | main abstraction |
|---|---|---|
| `Markers` | message values and their effect on the keys of `pending` | the value stored with a key is dropped: no reader uses it |
| `Consumer` | the consumer group: start, loop, flush, commit, signals, exceptions, crash, restart, rebalance | a message in a batch is its partition and offset; time is the number of poll timeouts, saturated at BATCH_TIMEOUT |
| `Backup` | backup and prune runs on several nodes | a Redis call is a step that may fail before or after its effect; restic stores a set of files; `dirty` are the files whose content is in no snapshot |
| `BackupService` | what the runs promise: one set of markers, no runs, no failures | abstract; `Backup` implements it |
| `Snapshots` | what backups add to the repositories, prune removes and the CLI finds | a path is the sequence of its names; a run on one repository is a step; the clock counts days |
| `Delivery` | the agent from `send` to the topic, with the log | the log file is its readable records, a number of records from the first torn one on, and the intact events among those |
| `EventChannel` | what the delivery promises: events that are held until they are delivered or given up | abstract; `Delivery` implements it |
| `Debouncer` | the debouncer and its clock | time points are ages; one clock step ages all |
| `Agent` | system calls, probes, dedup map, ring buffer and `handle_event`; extends `Debouncer` | a call is in flight while its probe emits; its effect comes after |
| `MC*` | constants of the TLC instances | |
| `*Proof` | inductive invariants, lemmas and theorems | |

The modules meet at their queues and hashes: `Agent` composes the probe and the
event handling with the debouncer; the reports of the debouncer are the events of
`Delivery`, its topic is the log of `Consumer`, and the `pending` that `Consumer`
fills is the one `Backup` empties (there, `Modify`, `Rename` and `Delete` stand
for all stages before). `Snapshots` looks at the result of `Backup` over days.

### Consumer

`PollMessage`, `PingFail`, `PollNone` and `PollError` are the four ways an
iteration of the loop in `main()` can go up to its decision to flush; `FlushOk`
and `FlushFail` are `flush_batch`, `CommitOk` and `CommitFail` are `safe_commit`,
both for the loop and for the finally clause; `Sigterm`, `LeaveLoop`, `Close`,
`Crash` and `Start` are the life of the process. A failed transaction or commit
may have taken effect. `Start`, `ConnectRedis` and `CreateKafkaConsumer`, with
their failures, are `main()` before the loop: until it has subscribed the process
is no member of the group. Two kinds of message raise exceptions that the code
does not catch: "undecodable" (an overlong UTF-8 form, which `json_escape` lets
through) leaves the loop from `parse_event` (`PollRaises`), "unencodable" (an
encoded surrogate) is parsed and makes every flush of its batch raise
(`FlushRaises`). Both report a file that changed (`Reports`). An undecodable
message counts as polled, so if the batch holds something, the flush and commit of
the finally clause pass it. `Rebalance` assigns partitions once all members are in
poll; the code registers no callback, so batches survive it. `applied`,
`discarded`, `raised` and `needed` record what happened and influence nothing;
`needed` has the markers of the events whose path Python can read.

### Backup

`pc[n]` follows `run_backup` and `_run_backup_inner`, `job[n][r]` the future of a
repository. `RedisFail` is an exception in any Redis call, which the finally
clause turns into a release of the lock. `Kill` stands for signals, the systemd
timeout and power loss. `Expire` is the TTL: with `Overrun = FALSE` only a run
that is gone loses its lock, because `TimeoutStartSec=7200` kills a run before
the 7200 s that count from its SET; with `Overrun = TRUE` runs started by hand
are included. `RepoManager.ensure` appears as its result: `tasks` has one job
per repository, so its branch for a second thread is never taken.

`BackupService` has three sets: marked, dirty and unread. Markers are added by
changes of files only and go only when the file is stored, reported as unreadable
or of no repository; only marked files are stored. `Backup` maps marked to
`pending \cup processing`, so RENAME, the restore of failed paths, a killed run
and its resumption are stutters, and `DEL processing` is `Clear`.

### Snapshots

restic is given a list of files, so a snapshot holds the files that were marked
for one run and no others. `BackupRepo` and `BackupFails` are `backup_repo` for
the markers of a repository (return codes 0 and 3, no file left, final failure),
`PruneRepo` is `restic forget --keep-within` as the code calls it: restic groups
snapshots by host and list of paths and keeps those of a group that are later than
`keep_days` before its newest one (one exactly that old goes). The
commands of the CLI change nothing and are operators: `CmdStatus`,
`CmdSnapshots`, `CmdRestore`. `ListRepos` works on the object names of the bucket
and `GetRepoId` on the names of a path. `taken` remembers every snapshot ever made.

### Delivery

`pc` follows `main()`: replay, resend, flush, loop, drain, final. `OnFail` is the
failure callback with `append`, called by `Send` when the queue is full and by
`DeliveryFailed`. Results the code ignores (append, fflush, both fopen of
truncate) are faults of kind "disk". `lost[c]` records what was given up and why.
WalMax counts the records at which the file reaches `wal_max_bytes`; in bytes the
file may exceed the limit by the last record. The queue is a set: a copy of an event that is still queued is
not counted a second time.

`EventChannel` has one state per event: new, held, delivered or gone. `Delivery`
maps an event in the topic to delivered, any other one in the queue, in the records
being sent again or in the log to held, and one that was handed to `send` and is in
none of them to gone. Truncating a log without torn records, resending, failed deliveries that append, stops
and starts are then stutters; every other step is `Hand`, `Deliver` or `GiveUp` of
what it adds to `lost`.

### Debouncer and Agent

`OnDelete` and `OnMtime` are `on_event`, `Tick` and `FlushAll` the other two.
`TickGap` is the longest time between two ticks (the poll timeout of 100 ms and,
in an iteration that retries the log, the 5 s of the flush; at start the probes are
attached before the log is replayed, with a flush of 10 s before the first tick).

`VfsWrite` (also `do_truncate`), `VfsUtimes`, `VfsUnlink` and `VfsRename` are the
kprobes at the entry of a call, with `dedup_check` where the code has it;
`EmitEvent` is one `bpf_ringbuf_output`, which fails when the ring is full;
`Return` is the rest of the call, which changes the file or fails, and which no
probe sees. Calls on names exclude each other per directory and renames between
directories per device, as the VFS does. `HandleEvent` is `handle_event` with its
three branches, `AgentTick` and `AgentStop` are the loop and its end, `Evict` is
the LRU map at its limit. `changed` are the watched paths written to since their
last report, `excused` those for which a known cause may hide the next writes,
until a tick has reported the path with no call in flight.

## Runs

All runs take less than two minutes.

| run | instance | shows |
|---|---|---|
| ConsumerSingle | 1 consumer, 1 partition, 6 kinds of message, log of 3, batch of 2; 2 Redis, 1 Kafka, 1 crash, 1 signal | TypeOK, LossExplained, MarkersExact |
| ConsumerGroup | 2 consumers, 1 partition, log of 2; 1 Kafka, 1 crash, 1 signal | LossExplained under hand-over, EventuallyApplied |
| ConsumerOutage | 1 consumer, 1 Redis failure | AtLeastOnce **violated** |
| ConsumerStale | 2 consumers, no fault but a rebalance | MarkersComplete **violated** |
| ConsumerPoison | 1 consumer, no fault, a message that cannot be decoded | EventuallyApplied **violated** |
| BackupRuns | 2 backup runs, 1 prune run, 2 repositories and a path without one, 2 workers, 2 attempts; 2 changes, 1 Redis, 2 restic, 1 partial, 1 kill | TypeOK, MutualExclusion, NoLostMarker, Accounting, EventuallyStored, ImplementsService |
| SnapshotsKept | 3 files, 2 repositories, one of them named config; keep_days 2, 3 days, 1 unreadable file | TypeOK, NewestKept, RecentKept, StatusTrue |
| SnapshotsRestore | 2 files of one repository | RestoreFinds **violated** |
| DeliveryFaults | 2 events, queue of 1, log of 2; 3 broker, 1 disk, 1 crash, 1 power, 1 signal | TypeOK, Accounted, CleanStop, EventuallyDelivered, ImplementsChannel |
| DeliveryCrash | 1 broker failure, 1 crash | LoggedPreserved **violated** |
| AgentEvents | a watched path and one outside, 1 inode, 2 CPUs, ring of 2; quiet 2, max_wait 2, gap 1, dedup 1, call 1; any number of writes and 1 other call, restart or eviction | AgentTypeOK, ChangesCovered, BoundedDelay, NothingForgotten, RateLimit, EventuallyReported |
| AgentRename | 2 directories of 2 names, 2 CPUs, 2 renames | RenamesPaired **violated** |

The bounds: a log of 3 with batches of 2 gives a full batch, an expired one and
messages behind a commit; two repositories give every mix of results; a queue
smaller than the number of events, and a log that torn records fill, reach their
limits. In AgentEvents writes on two CPUs fill the ring of 2, the periods are the
shortest that the assumption on them allows, so that the dedup map and tick race,
and max_wait is reached by writes that go on; a file renamed out of the watched
directory and a number used again need one call each. In SnapshotsKept three days
with a retention of two make a snapshot that is just old enough to be forgotten and
one that is a day too young.
Faults are bounded per kind by `Budget`, so that faults of different
kinds meet and the state space is finite. The theorems do not depend on these
bounds.

Deadlock is checked in the Backup, Snapshots and Agent runs. In the Consumer and
Delivery runs `MaxLog`, the events and the budgets can be used up, after which
an idle system stops; they say `CHECK_DEADLOCK FALSE`.

### The violated properties

Each states a sentence of the repository and fails by what the code does; the
quotations are in `PROJECT.json` under "findings".

* **AtLeastOnce**: a failed pipeline clears the batch and the position is not set
  back, so the next commit passes the dropped messages.
  `LossExplained` is what holds instead: an event is lost in three places, where
  flush_batch clears the batch of a failed pipeline, where the loop drops what it
  polled because the ping failed, and where the finally clause commits past a
  message whose parsing raised. The third needs no failing Redis call: one message
  in the batch and an undecodable one behind it are enough (ConsumerPoison's
  instance, checked for AtLeastOnce, shows it), although `consumer/README.md:11`
  promises a commit only after the write to Redis. Without a failing Redis call an
  event that is passed is applied or undecodable (proved: `ReachedWithoutOutage`),
  and if all messages can be decoded AtLeastOnce itself holds (proved:
  `AtLeastOnceIfReadable`).
* **MarkersComplete**: a rename's HDEL is not idempotent in the presence of newer
  events: it removes a newer marker when a batch outlives a rebalance. With one
  consumer nothing is missing and `MarkersExact` holds (proved), on one partition
  or on partitions that share no path. The repository's README creates the topic
  with 10 partitions keyed by host, so hosts that write to one path are outside of
  what is proved.
* **EventuallyApplied** (ConsumerPoison): a message whose bytes Python cannot
  decode ends the daemon; with an empty batch nothing is committed, and the
  restarted daemon reads it again, for ever. With a batch that is not empty the
  finally clause commits past it, and it is lost instead. With decodable messages
  the property holds (ConsumerGroup).
* **LoggedPreserved**: the log is truncated before its records are delivered. It
  holds while nothing was given up, and if only deliveries fail until the log is
  full (proved: `LoggedUnlessGivenUp`, `LoggedUnlessFull`).
* **RestoreFinds**: `restore` without `-s` reads restic's latest snapshot, which
  holds only the files of the last run, restores nothing and reports success.
  `NewestKept` is what holds instead: with the right `-s` the file is found. Without
  `-s` a success means the file if the last snapshot of the repository holds all
  that the kept ones hold (proved: `RestoreFindsIfWhole`).
* **RenamesPaired**: the two events of a rename are paired by their order in the
  ring, and renames on two CPUs interleave. It holds if the probes of renames do not
  overlap and the ring drops nothing, whatever other events come in between
  (proved: `RenamesPairedApart`).

One passing property contradicts a sentence of the repository. **NewestKept** says
that the newest snapshot of a file is never removed, and a file that was deleted is
no exception: prune measures `--keep-within` from the newest snapshot of a list of
paths, no later snapshot lists a deleted file, and so its last copy stays for ever.
`docs/TDD.md:317` explains why delete events may be ignored by the opposite: "삭제된
파일은 이전 스냅샷에 이미 보존. 보존기간(keep_days) 후 prune에서 자동 정리." (the deleted
file is preserved in earlier snapshots, and prune cleans up automatically after
keep_days). Nothing is lost by it, but the repositories keep every deleted file, and
a snapshot of every list of paths that a run ever had.

Seen while modelling, without a run of their own: with `Overrun = TRUE` (a run
started by hand, which no systemd timeout ends) `MutualExclusion` fails, because
nothing renews the lock; a torn first record keeps all records behind it from
being sent again, which is why `EventuallyDelivered` exempts `hidden`; max_wait is
tested only when another event of the path comes, so `BoundedDelay` is the bound
that is kept; two devices whose files share an inode number suppress each other's
events, which is an exception of `ChangesCovered`; two hard links of one file would
do so as well, since the dedup map is keyed by the inode number
(`probe.bpf.c:112`): a write by the second name within the dedup interval is
reported, if at all, under the first. The model has one name per file, so that
exception is outside of what `ChangesCovered` shows.

### Fairness

* Consumer: weak fairness of the loop's steps, of the exceptions a message causes,
  of Start (`Restart=on-failure`, or the operator), of the two connections (the
  code tries for ever) and of Rebalance. No fairness for failures.
* Backup: weak fairness of every run's steps, of the release and of Expire
  (Redis removes expired keys). Strong fairness of "some node takes the lock":
  the daily timers try again and again, and a prune run holds the lock for at
  most two hours a week.
* Delivery: weak fairness of the thread's steps, of Start and of the broker for
  a message that stays queued; strong fairness of `DeliveryOk`, because reports
  are served in every `poll(0)` and `flush` but not while records are resent. A
  ring buffer error ends the agent with exit code 0, after which systemd does
  not restart it: Start is then the operator's.
* Agent: weak fairness of calls in flight (the kernel), of HandleEvent and
  AgentTick (the loop polls with a timeout of 100 ms and ticks each time) and of
  the clock. None of AgentStart: a stop excuses the writes it hides.

## Proofs

All theorems hold for every value of the constants under the named ASSUME of the
module (`ConsumerAssumption`, `BackupAssumption`, `DeliveryAssumption`,
`DebouncerAssumption`, `SnapshotsAssumption`, `AgentAssumption`), which TLC
evaluates on the runs' instances. `AgentAssumption` requires the quiet period to
be at least the dedup interval and the longest call together: the defaults are
10 s and 1 s. The code does not check it, and with a shorter `quiet_ms` writes can
go unreported.

* **ConsumerProof**: `TypeCorrect`, `CommitSafe`, `ReachedWithoutOutage`,
  `AtLeastOnceIfReadable`.
  LossExplained is not inductive: a commit copies the position, so the invariant
  must say that every message an owner has polled is settled or in that owner's
  batch, and that a consumer about to commit has an empty batch; positions and
  committed offsets stay within the log. With `Budget["redis"] = 0` nothing is ever
  dropped, and only messages of the log that make the parser raise are recorded in
  `raised`: what LossExplained leaves is an event that was applied or is undecodable,
  and without undecodable messages it is AtLeastOnce.
* **ConsumerMarkersProof**: `OneConsumerExact`, for one consumer and the hypothesis
  `[]Separate` (no path has events in two partitions), and `SingleExact`, for one
  consumer and one partition, where Separate is always true. MarkersExact only speaks
  of the moments when all is consumed. The invariant compares `pending` and the
  markers of the whole log path by path: they agree on a path that no message past
  the committed offset touches, and on one that neither the batch nor a message
  still to be polled touches. A batch holds consecutive messages in the order of the
  log, so applying it extends the first set of paths to the second, and applying it
  again after a replay changes nothing the last message of each path did not decide.
  No induction over the log is needed: the transaction is a function that the last
  command of a path determines.
* **BackupProof**: `TypeCorrect`, `CountsAddUp`, and, for `~Overrun`, `RunsExclude`
  and `MarkersSafe`. The invariant of the last two ties the lock to the run that is
  active, keeps processing empty up to the RENAME and unchanged in the run's tasks
  afterwards, and follows a dirty file through the job of its repository: queued,
  restored to pending, stored or unread. Accounting needs that the counters are the
  sums over the repositories that are finished, and that the paths of two
  repositories are disjoint; it does not need the lock.
* **BackupServiceProof**: `Implements`, the refinement, for `~Overrun`. It uses the
  invariant of BackupProof and one fact more: what a run works on is still in
  processing, so that a restore brings back no marker that is gone.
* **SnapshotsProof**: `TypeCorrect`, `NewestStays`, `RecentStays`, `StatusIsTrue`,
  `LastIsRestored`, `RestoreFindsIfWhole`. The invariant says why a snapshot may be
  gone: one of the same list, at least keep_days later, was taken. That one may be
  gone as well, but
  only for a still later one, so the newest of a list is there; a repository with
  snapshots has a newest one, which is carried along instead of proved by induction.
  For restores, no two snapshots of a repository have the same time, so restic's
  latest is the last one taken.
* **DeliveryProof**: `TypeCorrect`, `EventsAccounted`, `StopsCleanly`,
  `LoggedUnlessGivenUp`, `LoggedUnlessFull`, `Implements`. Accounted needs that
  records are in memory only while they are resent (a truncation replaces them) and
  that a dead process has no queue; CleanStop needs that only a torn record hides
  others. The theorems on the log and the refinement need that what is held, logged
  or in the topic was handed to `send`. For the refinement every step is shown to
  add to `lost` just the events whose copies it takes away. `LoggedUnlessFull`
  assumes no disk, crash or power faults: the log is then open whenever the agent
  runs, has no torn record, and the size limit is the only cause left.
* **DebouncerProof**: `TypeCorrect`, `DelayBounded`, `ModificationsKept`,
  `ReportsApart`. BoundedDelay follows from two windows: first_seen to last_seen
  is at most max_wait, last_seen is older than the quiet period only by the time
  since the last tick. RateLimit needs that an entry is younger than the last
  report of its path.
* **AgentProof**: `Implements` (every step of the agent is a step of the debouncer
  or leaves it alone), `AgentDebounces` (so its three properties hold in the
  agent), `AgentTypeCorrect`, `WritesCovered`, `RenamesPairedApart`. ChangesCovered
  needs that a map entry which still suppresses writes is no younger than the
  debouncer's last_seen, and that a call in flight looked at the map at most CallTime
  ago. `RenamesPairedApart` has two hypotheses on the behaviour, that the probes of
  two renames do not overlap and that no event is dropped at a full ring; its
  invariant says that a rename_to behind a rename_from in the ring, or behind the
  pending one, is of the same call.

The larger inductive invariants were checked by TLC on small instances before they
were proved. Every safety property of the passing runs is stated by a theorem. Only
model-checked: the liveness properties (EventuallyApplied, EventuallyStored,
EventuallyDelivered, EventuallyReported), because fairness is out of the prover's
reach, and that each violated property fails.

## Not modelled

* Hard links: a file of `Agent` has one name.
* `build_path` and the walk over dentries: a path of `Agent` is what they yield.
  The walk ends after 20 levels or at the root of the mount, so a path may lack
  its prefix: it is then one of `Outside`.
* `json_escape` byte by byte: only the two kinds of output that Python rejects.
* How restic reads the list of files (newlines, patterns): external.
* Configuration (read once), the CLI's argument parser, logging, counters and
  metrics.
* restic's repository format, MinIO, Kafka's replication: external.
* Redis' persistence: a Redis that loses its data on a restart loses markers, and
  no code handles that.

## Plan

1. An abstract specification of the consumer group, as `BackupService` and
   `EventChannel` are for their stages, and the proof that `Consumer` implements it.
2. `Pipeline`: consumer and backup composed over one topic with several
   partitions, and the reordering that the agent's log causes.
