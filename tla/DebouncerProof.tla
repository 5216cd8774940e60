--------------------------- MODULE DebouncerProof ---------------------------
(***************************************************************************)
(* Proofs about Debouncer, for every set of paths and every configuration  *)
(* of the two periods.                                                     *)
(*                                                                         *)
(* The delay of an entry is bounded because two clocks bound it: between   *)
(* first_seen and last_seen lies at most max_wait (a later event reports   *)
(* the entry), and last_seen is older than the quiet period only by the    *)
(* time since the last tick.                                               *)
(***************************************************************************)
EXTENDS Debouncer, TLAPS

\* What on_event and tick keep true of an entry's two time points.
Windows ==
    \A p \in entries : /\ first[p] <= last[p] + MaxWait
                       /\ last[p] <= QuietPeriod + sinceTick

\* An entry was made after the last report of its path.
Fresh == \A p \in entries : sinceFire[p] >= MinGap \/ sinceFire[p] >= first[p]

\* flush_all and a crash leave no entry.
DownEmpty == ~up => entries = {}

\* The inductive invariant.
Inv == TypeOK /\ DownEmpty /\ Windows /\ Fresh /\ NothingForgotten

LEMMA MinGapType == MinGap \in Nat /\ MinGap <= QuietPeriod /\ MinGap <= MaxWait
  BY DebouncerAssumption DEF MinGap

LEMMA InitInv == Init => Inv
  BY DebouncerAssumption, MinGapType
  DEF Init, Inv, TypeOK, DownEmpty, Windows, Fresh, NothingForgotten

\* Every action keeps the types.
LEMMA TypeStep == TypeOK /\ [Next]_vars => TypeOK'
  <1> SUFFICES ASSUME TypeOK, [Next]_vars PROVE TypeOK'
    OBVIOUS
  <1> USE DebouncerAssumption, MinGapType DEF TypeOK
  <1>1. ASSUME NEW p \in Path, OnDelete(p) PROVE TypeOK'
    BY <1>1 DEF OnDelete, Erase
  <1>2. ASSUME NEW p \in Path, OnMtime(p) PROVE TypeOK'
    <2>1. CASE Overdue(p)
      BY <1>2, <2>1 DEF OnMtime, Erase, Report
    <2>2. CASE ~Overdue(p)
      BY <1>2, <2>2 DEF OnMtime, Touch
    <2> QED BY <2>1, <2>2
  <1>3. CASE Tick
    BY <1>3 DEF Tick, Erase, Report, QuietEntries
  <1>4. CASE FlushAll
    <2>1. up' = FALSE /\ UNCHANGED sinceTick
      BY <1>4 DEF FlushAll
    <2>2. /\ entries' \in SUBSET Path /\ fired' \in SUBSET Path
          /\ unreported' \in SUBSET Path /\ crashed' \in SUBSET Path
      BY <1>4 DEF FlushAll, Erase, Report, FlushSet
    <2>3. /\ first' \in [Path -> Nat] /\ last' \in [Path -> Nat]
          /\ \A p \in Path : last'[p] <= first'[p]
      BY <1>4 DEF FlushAll, Erase
    <2>4. sinceFire' \in [Path -> 0..MinGap]
      BY <1>4 DEF FlushAll, Report
    <2> QED BY <2>1, <2>2, <2>3, <2>4
  <1>5. CASE Crash
    <2>1. up' = FALSE /\ fired' = {} /\ UNCHANGED <<sinceTick, sinceFire, unreported>>
      BY <1>5 DEF Crash
    <2>2. entries' \in SUBSET Path /\ crashed' \in SUBSET Path
      BY <1>5 DEF Crash, Erase
    <2>3. /\ first' \in [Path -> Nat] /\ last' \in [Path -> Nat]
          /\ \A p \in Path : last'[p] <= first'[p]
      BY <1>5 DEF Crash, Erase
    <2> QED BY <2>1, <2>2, <2>3
  <1>6. CASE Start
    BY <1>6 DEF Start
  <1>7. CASE Advance
    BY <1>7 DEF Advance
  <1>8. CASE UNCHANGED vars
    BY <1>8 DEF vars
  <1> QED BY <1>1, <1>2, <1>3, <1>4, <1>5, <1>6, <1>7, <1>8 DEF Next

\* Every action keeps the rest of the invariant.
LEMMA ClockStep == Inv /\ [Next]_vars => (DownEmpty /\ Windows /\ Fresh)'
  <1> SUFFICES ASSUME Inv, [Next]_vars PROVE (DownEmpty /\ Windows /\ Fresh)'
    OBVIOUS
  <1> USE DebouncerAssumption, MinGapType DEF Inv, TypeOK, DownEmpty, Windows, Fresh
  <1>1. ASSUME NEW p \in Path, OnDelete(p) PROVE (DownEmpty /\ Windows /\ Fresh)'
    BY <1>1 DEF OnDelete, Erase
  <1>2. ASSUME NEW p \in Path, OnMtime(p) PROVE (DownEmpty /\ Windows /\ Fresh)'
    <2>1. CASE Overdue(p)
      BY <1>2, <2>1 DEF OnMtime, Erase, Report
    <2>2. CASE ~Overdue(p)
      BY <1>2, <2>2 DEF OnMtime, Touch, Overdue
    <2> QED BY <2>1, <2>2
  <1>3. CASE Tick
    BY <1>3 DEF Tick, Erase, Report, QuietEntries
  <1>4. CASE FlushAll
    BY <1>4 DEF FlushAll, Erase
  <1>5. CASE Crash
    BY <1>5 DEF Crash, Erase
  <1>6. CASE Start
    BY <1>6 DEF Start
  <1>7. CASE Advance
    BY <1>7 DEF Advance
  <1>8. CASE UNCHANGED vars
    BY <1>8 DEF vars
  <1> QED BY <1>1, <1>2, <1>3, <1>4, <1>5, <1>6, <1>7, <1>8 DEF Next

LEMMA ForgetStep == Inv /\ [Next]_vars => NothingForgotten'
  <1> SUFFICES ASSUME Inv, [Next]_vars PROVE NothingForgotten'
    OBVIOUS
  <1> USE DEF Inv, NothingForgotten
  <1>1. CASE \E p \in Path : OnDelete(p)
    BY <1>1 DEF OnDelete, Erase
  <1>2. ASSUME NEW p \in Path, OnMtime(p) PROVE NothingForgotten'
    BY <1>2 DEF OnMtime, Erase, Report, Touch
  <1>3. CASE Tick
    BY <1>3 DEF Tick, Erase, Report, QuietEntries
  <1>4. CASE FlushAll
    BY <1>4 DEF FlushAll, Erase, Report, FlushSet
  <1>5. CASE Crash
    BY <1>5 DEF Crash, Erase
  <1>6. CASE Start \/ Advance
    BY <1>6 DEF Start, Advance
  <1>7. CASE UNCHANGED vars
    BY <1>7 DEF vars
  <1> QED BY <1>1, <1>2, <1>3, <1>4, <1>5, <1>6, <1>7 DEF Next

\* The inductive invariant holds in every reachable state.
THEOREM Invariance == Spec => []Inv
  <1>1. Inv /\ [Next]_vars => Inv'
    BY TypeStep, ClockStep, ForgetStep DEF Inv
  <1> QED BY <1>1, InitInv, PTL DEF Spec

\* The debouncer's variables keep their types and no entry's last_seen lies
\* before its first_seen.
THEOREM TypeCorrect == Spec => []TypeOK
  <1>1. Inv => TypeOK
    BY DEF Inv
  <1> QED BY <1>1, Invariance, PTL

\* Whatever events come, no entry waits longer than max_wait, the quiet period
\* and one gap between ticks.
THEOREM DelayBounded == Spec => []BoundedDelay
  <1>1. Inv => BoundedDelay
    <2> SUFFICES ASSUME Inv, NEW p \in entries
                 PROVE  first[p] <= MaxWait + QuietPeriod + TickGap
      BY DEF BoundedDelay
    <2>1. first[p] \in Nat /\ last[p] \in Nat /\ sinceTick \in 0..TickGap
      BY DEF Inv, TypeOK
    <2>2. first[p] <= last[p] + MaxWait /\ last[p] <= QuietPeriod + sinceTick
      BY DEF Inv, Windows
    <2> QED BY <2>1, <2>2, DebouncerAssumption
  <1> QED BY <1>1, Invariance, PTL

\* No modification is forgotten by on_event, tick or flush_all.
THEOREM ModificationsKept == Spec => []NothingForgotten
  <1>1. Inv => NothingForgotten
    BY DEF Inv
  <1> QED BY <1>1, Invariance, PTL

\* While the agent runs, on_event and tick report a path at most once in the
\* shorter of the two periods.
THEOREM ReportsApart == Spec => RateLimit
  <1> DEFINE Apart == up /\ up' => \A p \in fired' : sinceFire[p] >= MinGap
  <1>1. Inv /\ [Next]_vars => [Apart]_vars
    <2> SUFFICES ASSUME Inv, Next, up, up' PROVE \A p \in fired' : sinceFire[p] >= MinGap
      BY DEF Apart
    <2> USE DebouncerAssumption, MinGapType DEF Inv, TypeOK, Fresh
    <2>1. CASE \E p \in Path : OnDelete(p)
      BY <2>1 DEF OnDelete
    <2>2. ASSUME NEW p \in Path, OnMtime(p) PROVE \A q \in fired' : sinceFire[q] >= MinGap
      BY <2>2 DEF OnMtime, Overdue, Report, Touch
    <2>3. CASE Tick
      BY <2>3 DEF Tick, Report, QuietEntries
    <2>4. CASE FlushAll \/ Crash
      BY <2>4 DEF FlushAll, Crash
    <2>5. CASE Start \/ Advance
      BY <2>5 DEF Start, Advance
    <2> QED BY <2>1, <2>2, <2>3, <2>4, <2>5 DEF Next
  <1> QED BY <1>1, Invariance, PTL DEF Spec, RateLimit

=============================================================================
