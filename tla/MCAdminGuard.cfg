\* Two overlapping requests on two users.
SPECIFICATION Spec
CONSTANTS
    Users = {u1, u2}
    Requests = {r1, r2}
SYMMETRY Symmetry
INVARIANTS
    IndInv
PROPERTIES
    LastSuperAdminIsGuarded
    EmployerAdminsAreAttached
