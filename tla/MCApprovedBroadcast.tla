------------------------- MODULE MCApprovedBroadcast -------------------------
(* Small instances of ApprovedBroadcast for TLC. *)
EXTENDS ApprovedBroadcast, TLC

CONSTANTS m1, m2, k1, k2, a, b, x1, x2, tg

Says(k, content, kind, km) == [key |-> k, content |-> content, kind |-> kind, km |-> km]

\* An accident that becomes roadwork, and the accident as another source sees it.
Reports == {Says(k1, a, "accident", 1), Says(k1, b, "roadwork", NoKm),
            Says(k2, a, "accident", 2)}

\* An accident alone, and the same one as another source sees it.
Accidents == {Says(k1, a, "accident", 1), Says(k2, a, "accident", 1)}

Symmetry == Permutations(Message) \cup Permutations(LineTarget)

=============================================================================
