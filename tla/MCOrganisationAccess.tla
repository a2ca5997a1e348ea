----------------------- MODULE MCOrganisationAccess -----------------------
(* Small instances of OrganisationAccess for TLC. *)
EXTENDS OrganisationAccess, TLC

\* Rows and slots are only compared with each other.
Symmetry ==
    Permutations(AccessRequests) \cup Permutations(Links) \cup Permutations(Requests)
=============================================================================
