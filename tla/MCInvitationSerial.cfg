\* One request at a time, killed at any await.
SPECIFICATION Spec
CONSTANTS
    Requests = {r1}
    Invitations = {v1, v2}
    MaxTime = 3
    MaxFaults = 2
INVARIANTS
    OneSessionPerInvitation
    TokenOrAccount
PROPERTIES
    CancellationIsFinal
    DuplicatesAreExtensions
    ImplementsContract
CHECK_DEADLOCK FALSE
