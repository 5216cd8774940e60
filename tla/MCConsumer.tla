----------------------------- MODULE MCConsumer -----------------------------
(***************************************************************************)
(* Small instances of Consumer for TLC.                                    *)
(***************************************************************************)
EXTENDS Consumer

CONSTANTS A, B          \* Two paths

\* A file that is modified, renamed, created anew; a delete; broken values.
MCMessage ==
    {[event |-> "mtime_change", path |-> A],
     [event |-> "rename", old_path |-> A, new_path |-> B],
     [event |-> "delete", path |-> B],
     [event |-> "invalid"],
     [event |-> "undecodable"],
     [event |-> "unencodable"]}

\* What a file system with one rename in flight publishes.
MCFewMessages ==
    {[event |-> "mtime_change", path |-> A],
     [event |-> "rename", old_path |-> A, new_path |-> B]}

\* A modification, and one of a file whose name Python cannot decode.
MCUndecodable ==
    {[event |-> "mtime_change", path |-> A], [event |-> "undecodable"]}

Faults(r, k, c, s) ==
    [f \in Fault |-> CASE f = "redis"   -> r
                       [] f = "kafka"   -> k
                       [] f = "crash"   -> c
                       [] f = "sigterm" -> s]

NoFaults == Faults(0, 0, 0, 0)
AllFaults == Faults(2, 1, 1, 1)
ProcessFaults == Faults(0, 1, 1, 1)
RedisFault == Faults(1, 0, 0, 0)

=============================================================================
