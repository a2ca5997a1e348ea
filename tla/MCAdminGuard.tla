--------------------------- MODULE MCAdminGuard ---------------------------
(* Small instances of AdminGuard for TLC. *)
EXTENDS AdminGuard, TLC

\* Users and slots are only compared with each other.
Symmetry == Permutations(Users) \cup Permutations(Requests)
=============================================================================
