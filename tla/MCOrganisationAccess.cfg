\* Two requests for access of one contact, two overlapping API requests.
SPECIFICATION Spec
CONSTANTS
    AccessRequests = {a1, a2}
    Links = {l1, l2}
    Requests = {r1, r2}
    MaxFaults = 1
SYMMETRY Symmetry
INVARIANTS
    IndInv
    OneOrganisationPerRequest
    OneAcceptance
    PendingInvitationsHaveALink
PROPERTIES
    OnlyStaleReviewsUndoConversions
CHECK_DEADLOCK FALSE
