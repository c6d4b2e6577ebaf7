----------------------------- MODULE MCCheckout -----------------------------
(* Checkout for TLC. *)
EXTENDS Checkout, TLC
CONSTANTS i1, i2, e1, e2, e3, r1, r2

(* Two payment events about one intent, and an event about another. *)
ThreeEvents == (e1 :> i1) @@ (e2 :> i1) @@ (e3 :> i2)
One         == e1 :> i1
=============================================================================
