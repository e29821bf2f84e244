------------------------------- MODULE MCCronTick -------------------------------
(* Small instances of CronTick for TLC. *)
EXTENDS CronTick, TLC

CONSTANTS s1, s2, s3, t1, t2, e1, e2, e3, c1, c2

Ranks == (e1 :> 1) @@ (e2 :> 2) @@ (e3 :> 3)

Symmetry == Permutations(Session) \cup Permutations(Target) \cup Permutations(Content)

=============================================================================
