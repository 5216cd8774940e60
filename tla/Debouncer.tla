----------------------------- MODULE Debouncer -----------------------------
(***************************************************************************)
(* The agent's debouncer (src/debouncer.cpp, include/debouncer.h): one     *)
(* entry per modified path, which turns a burst of mtime events into one   *)
(* report.                                                                 *)
(*                                                                         *)
(* The debouncer is called by the main loop only: on_event for the events  *)
(* of ring_buffer__poll, tick once per iteration, flush_all at shutdown.   *)
(* Its time points are modelled by their ages in units of the clock, so    *)
(* that now - first_seen is first[p]; a step of the clock ages them all.   *)
(***************************************************************************)
EXTENDS Naturals

CONSTANTS
    Path,               \* Paths of events that passed the prefix filter
    QuietPeriod,        \* quiet_period_
    MaxWait,            \* max_wait_
    TickGap             \* Longest time between two ticks of the main loop

ASSUME DebouncerAssumption ==
    /\ QuietPeriod \in Nat
    /\ MaxWait \in Nat
    /\ TickGap \in Nat

VARIABLES
    up,                 \* The agent runs
    entries,            \* The paths that have an entry
    first,              \* first[p]: age of first_seen
    last,               \* last[p]: age of last_seen
    sinceTick,          \* Time since the last tick
    \* What happened (history)
    fired,              \* Paths the last step reported as mtime_change
    sinceFire,          \* sinceFire[p]: time since that report, saturated
    unreported,         \* Paths modified since their last report
    crashed             \* Paths whose entry went with a crash since then

vars == <<up, entries, first, last, sinceTick, fired, sinceFire, unreported,
          crashed>>

\* The least time between two reports of a path.
MinGap == IF QuietPeriod <= MaxWait THEN QuietPeriod ELSE MaxWait

Init ==
    /\ up = TRUE
    /\ entries = {}
    /\ first = [p \in Path |-> 0]
    /\ last = [p \in Path |-> 0]
    /\ sinceTick = 0
    /\ fired = {}
    /\ sinceFire = [p \in Path |-> MinGap]
    /\ unreported = {}
    /\ crashed = {}

\* The entries of P are erased; an absent entry has ages 0.
Erase(P) ==
    /\ entries' = entries \ P
    /\ first' = [p \in Path |-> IF p \in P THEN 0 ELSE first[p]]
    /\ last' = [p \in Path |-> IF p \in P THEN 0 ELSE last[p]]

\* cb_(p, EVENT_MTIME) for every p in P, seen by the history.
Report(P) ==
    /\ fired' = P
    /\ sinceFire' = [p \in Path |-> IF p \in P THEN 0 ELSE sinceFire[p]]
    /\ unreported' = unreported \ P
    /\ crashed' = crashed \ P

-----------------------------------------------------------------------------
\* on_event of a delete: the entry is erased and the delete reported.
OnDelete(p) ==
    /\ up
    /\ Erase({p})
    /\ unreported' = unreported \ {p}
    /\ crashed' = crashed \ {p}
    /\ fired' = {}
    /\ UNCHANGED <<up, sinceTick, sinceFire>>

\* A new entry, or a later last_seen for the entry there is.
Touch(p) ==
    /\ entries' = entries \cup {p}
    /\ last' = [last EXCEPT ![p] = 0]
    /\ first' = [first EXCEPT ![p] = IF p \in entries THEN @ ELSE 0]
    /\ fired' = {}
    /\ unreported' = unreported \cup {p}
    /\ UNCHANGED <<sinceFire, crashed>>

\* Mutant: max_wait is counted from the last event.
OverdueSinceLast(p) == p \in entries /\ last[p] >= MaxWait

Overdue(p) == p \in entries /\ first[p] >= MaxWait

\* Mutant: an overdue entry is reported and kept.
OnMtimeKeep(p) ==
    /\ up
    /\ \/ Overdue(p) /\ Report({p}) /\ UNCHANGED <<entries, first, last>>
       \/ ~Overdue(p) /\ Touch(p)
    /\ UNCHANGED <<up, sinceTick>>

\* on_event of any other event: an overdue entry is reported, together with
\* this event, and not made anew.
OnMtime(p) ==
    /\ up
    /\ \/ Overdue(p) /\ Erase({p}) /\ Report({p})
       \/ ~Overdue(p) /\ Touch(p)
    /\ UNCHANGED <<up, sinceTick>>

\* Mutant: the quiet period is counted from the first event.
QuietEntriesSinceFirst == {p \in entries : first[p] >= QuietPeriod}

\* The entries tick finds quiet.
QuietEntries == {p \in entries : last[p] >= QuietPeriod}

Tick ==
    /\ up
    /\ Erase(QuietEntries)
    /\ Report(QuietEntries)
    /\ sinceTick' = 0
    /\ UNCHANGED up

\* Mutant: flush_all reports only the entries that are quiet already.
FlushQuiet == QuietEntries

\* What flush_all reports: every entry.
FlushSet == entries

\* The loop is left and the agent ends.
FlushAll ==
    /\ up
    /\ Erase(entries)
    /\ Report(FlushSet)
    /\ up' = FALSE
    /\ UNCHANGED sinceTick

\* The process dies with its entries.
Crash ==
    /\ up
    /\ Erase(entries)
    /\ crashed' = crashed \cup entries
    /\ fired' = {}
    /\ up' = FALSE
    /\ UNCHANGED <<sinceTick, sinceFire, unreported>>

Start ==
    /\ ~up
    /\ up' = TRUE
    /\ sinceTick' = 0
    /\ fired' = {}
    /\ UNCHANGED <<entries, first, last, sinceFire, unreported, crashed>>

\* The clock, which cannot pass the moment the next tick is due.
Advance ==
    /\ up => sinceTick < TickGap
    /\ first' = [p \in Path |-> IF p \in entries THEN first[p] + 1 ELSE 0]
    /\ last' = [p \in Path |-> IF p \in entries THEN last[p] + 1 ELSE 0]
    /\ sinceTick' = IF up THEN sinceTick + 1 ELSE sinceTick
    /\ fired' = {}
    /\ sinceFire' = [p \in Path |-> IF sinceFire[p] < MinGap
                                      THEN sinceFire[p] + 1 ELSE sinceFire[p]]
    /\ UNCHANGED <<up, entries, unreported, crashed>>

Next ==
    \/ \E p \in Path : OnDelete(p) \/ OnMtime(p)
    \/ Tick
    \/ FlushAll
    \/ Crash
    \/ Start
    \/ Advance

Spec == Init /\ [][Next]_vars

-----------------------------------------------------------------------------
(***************************************************************************)
(* Properties.                                                             *)
(***************************************************************************)

\* The variables have their types, and first_seen is not after last_seen.
TypeOK ==
    /\ up \in BOOLEAN
    /\ entries \in SUBSET Path
    /\ first \in [Path -> Nat]
    /\ last \in [Path -> Nat]
    /\ \A p \in Path : last[p] <= first[p]
    /\ sinceTick \in 0..TickGap
    /\ fired \in SUBSET Path
    /\ sinceFire \in [Path -> 0..MinGap]
    /\ unreported \in SUBSET Path
    /\ crashed \in SUBSET Path

\* A path that is modified without pause is still reported: no entry gets
\* older than max_wait, the quiet period and one gap between ticks together.
BoundedDelay == \A p \in entries : first[p] <= MaxWait + QuietPeriod + TickGap

\* A burst gives one report: while the agent runs, two reports of a path are
\* the quiet period (or max_wait, if that is shorter) apart.  The flush at
\* shutdown is exempt.
RateLimit ==
    [][up /\ up' => \A p \in fired' : sinceFire[p] >= MinGap]_vars

\* No modification is forgotten: a path modified since its last report (of a
\* modification or of its deletion) has an entry that will be reported, in
\* the loop or by the flush at shutdown, unless the process died with it.
NothingForgotten == unreported \subseteq entries \cup crashed

=============================================================================
