---------------------------- MODULE EventChannel ----------------------------
(***************************************************************************)
(* What the agent's delivery promises to those who hand it events, with no *)
(* queue, no log, no broker and no restarts: an event that was handed over *)
(* is held until it is delivered, or gone because it was just given up.    *)
(* No other event is delivered, and one that is gone does not come back.   *)
(***************************************************************************)
CONSTANT Event

VARIABLES state,        \* state[e]: what has become of event e
          given         \* Events of which a copy was given up

vars == <<state, given>>

Init == state = [e \in Event |-> "new"] /\ given = {}

Hand(e) ==
    /\ state[e] = "new"
    /\ \/ state' = [state EXCEPT ![e] = "held"] /\ UNCHANGED given
       \/ state' = [state EXCEPT ![e] = "gone"] /\ given' = given \cup {e}

Deliver(e) ==
    /\ state[e] = "held"
    /\ state' = [state EXCEPT ![e] = "delivered"]
    /\ UNCHANGED given

\* A copy of each event of S is given up; the events of which this was the
\* last copy, L, are gone.
GiveUp(S) ==
    /\ \A e \in S : state[e] # "new"
    /\ given' = given \cup S
    /\ \E L \in SUBSET S :
          /\ \A e \in L : state[e] = "held"
          /\ state' = [e \in Event |-> IF e \in L THEN "gone" ELSE state[e]]

Next ==
    \/ \E e \in Event : Hand(e) \/ Deliver(e)
    \/ \E S \in SUBSET Event : GiveUp(S)

Spec == Init /\ [][Next]_vars

=============================================================================
