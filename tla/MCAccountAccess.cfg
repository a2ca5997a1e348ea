\* Two overlapping requests on one account with two login sessions.
SPECIFICATION Spec
CONSTANTS
    NoPassword = NoPassword
    Requests = {r1, r2}
    Sessions = {s1, s2}
    Tokens = {t1, t2}
    Passwords = {p1, p2}
    MaxFaults = 1
SYMMETRY Symmetry
INVARIANTS
    IndInv
    SessionsKnowThePassword
    InactiveAccountsAreSignedOut
    LinksActOnce
PROPERTIES
    ClosedSessionsStayClosed
    ImplementsContract
CHECK_DEADLOCK FALSE
