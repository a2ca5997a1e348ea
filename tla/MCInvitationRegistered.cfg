\* A candidate who registers an account with the invitation.
SPECIFICATION FairSpec
CONSTANTS
    Requests = {r1}
    Invitations = {v1}
    MaxTime = 1
    MaxFaults = 0
PROPERTIES
    AcceptedCandidatesGetASession
CHECK_DEADLOCK FALSE
