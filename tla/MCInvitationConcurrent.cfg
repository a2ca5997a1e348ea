\* Employer and candidate requests that overlap.
SPECIFICATION Spec
CONSTANTS
    Requests = {r1, r2}
    Invitations = {v1, v2}
    MaxTime = 2
    MaxFaults = 1
INVARIANTS
    TypeOK
    AdmissionFollowsAcceptance
    RegistrationsHoldAnInvitation
PROPERTIES
    StaleInvitationsAreNotAccepted
CHECK_DEADLOCK FALSE
