----------------------------- MODULE MCDelivery -----------------------------
(* Delivery with two workers, which are interchangeable. *)
EXTENDS Delivery, TLC

Symmetry == Permutations(Workers)

=============================================================================
