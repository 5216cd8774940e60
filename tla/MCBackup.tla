------------------------------ MODULE MCBackup ------------------------------
(***************************************************************************)
(* Small instances of Backup for TLC.                                      *)
(***************************************************************************)
EXTENDS Backup

CONSTANTS A, B, U,      \* Paths: U is not deep enough for a repository
          R1, R2        \* The repositories of A and B

MCRepoOf == [p \in Path |-> CASE p = A -> R1 [] p = B -> R2 [] OTHER -> NoRepo]

Limits(c, r, s, p, k) ==
    [f \in Fault |-> CASE f = "change"  -> c
                       [] f = "redis"   -> r
                       [] f = "restic"  -> s
                       [] f = "partial" -> p
                       [] f = "kill"    -> k]

RunLimits == Limits(2, 1, 2, 1, 1)

=============================================================================
