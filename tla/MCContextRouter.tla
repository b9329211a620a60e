--------------------------- MODULE MCContextRouter ---------------------------
(* Model-checking instances of ContextRouter.                               *)
EXTENDS ContextRouter, TLC

CONSTANTS r1, r2, k1, k2, n1, n2

OneToOne == (r1 :> k1) @@ (r2 :> k2)
TwoNames == (k1 :> n1) @@ (k2 :> n2)

\* the first registration waits for two notifications
TwoAndOne == (r1 :> 2) @@ (r2 :> 1)

\* a third notification of the first identifier comes late
ThreeAndOne == (k1 :> 3) @@ (k2 :> 1)
=============================================================================
