-------------------------- MODULE MCAccountAccess --------------------------
(* Small instances of AccountAccess for TLC. *)
EXTENDS AccountAccess, TLC

\* Slots, rows and passwords are only compared with each other.
Symmetry ==
    Permutations(Requests) \cup Permutations(Sessions)
        \cup Permutations(Tokens) \cup Permutations(Passwords)
=============================================================================
