---------------------------- MODULE MCTdxDedupe ----------------------------
(* A small instance of TdxDedupe for TLC. *)
EXTENDS TdxDedupe, TLC

CONSTANTS freeway, highway, e1, e2, a, b

Sources == e1 :> freeway @@ e2 :> highway
Contents == e1 :> {a, b} @@ e2 :> {a}

=============================================================================
