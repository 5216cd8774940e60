----------------------------- MODULE MCDelivery -----------------------------
(***************************************************************************)
(* Small instances of Delivery for TLC.                                    *)
(***************************************************************************)
EXTENDS Delivery

Faults(b, d, c, p, s) ==
    [f \in Fault |-> CASE f = "broker"  -> b
                       [] f = "disk"    -> d
                       [] f = "crash"   -> c
                       [] f = "power"   -> p
                       [] f = "sigterm" -> s]

AllFaults == Faults(3, 1, 1, 1, 1)
CrashFault == Faults(1, 0, 1, 0, 0)

=============================================================================
