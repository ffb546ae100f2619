----------------------------- MODULE MCDelivery -----------------------------
(***************************************************************************)
(* Delivery on small instances; handlers are interchangeable.              *)
(***************************************************************************)
EXTENDS Delivery, TLC

Symmetry == Permutations(Workers)
=============================================================================
