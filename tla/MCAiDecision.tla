------------------------------ MODULE MCAiDecision ------------------------------
(* Small instances of AiDecision for TLC. *)
EXTENDS AiDecision, TLC

CONSTANTS r1, r2, r3, a1, a2, b1, e1, e2

\* One accident: PBS reports and then edits it, and TDX reports it too.
Events == [p \in Report |-> IF p = b1 THEN e2 ELSE e1]

\* All at one place, in tenths of a kilometre.
OnePlace == [p \in Report |-> 100]

\* Three places on one road, the third within range of the other two.
ThreePlaces == [p \in Report |-> CASE p = a1 -> 100 [] p = a2 -> 115 [] p = b1 -> 108]

Symmetry == Permutations(Run)

\* With one report of each event, and all at one place, the two are alike.
Mirror == Symmetry \cup {(a1 :> b1) @@ (b1 :> a1) @@ (e1 :> e2) @@ (e2 :> e1)}

=============================================================================
