---------------------------- MODULE MCItemReview ----------------------------
(* Small instances of ItemReview: slots are interchangeable.     *)
EXTENDS ItemReview, TLC
Symmetry == Permutations(Requests)
=============================================================================
