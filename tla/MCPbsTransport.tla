---------------------------- MODULE MCPbsTransport ----------------------------
(* Small instances of PbsTransport for TLC. *)
EXTENDS PbsTransport, TLC

CONSTANTS p1, p2, p3, kNew, kCleared, e1, i1, i2

\* One change pushed twice: the monitor saw it again (or ran twice).
SameKey == (p1 :> kNew) @@ (p2 :> kNew)

OnePush == (p1 :> kNew)

\* One event, reported and cleared.
ReportAndClear == (p1 :> kNew) @@ (p3 :> kCleared)

OneEvent == [k \in Key |-> e1]

Symmetry == Permutations(Isolate)

=============================================================================
