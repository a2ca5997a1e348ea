\* Fair requests, polling and clock.
SPECIFICATION FairSpec
CONSTANTS
    NoAnswer = NoAnswer
    Requests = {r1, r2}
    Items = {i1}
    Answers = {a1}
    Selections <- AllSelections
    Mappings <- AnyMapping
    SectionLimit = 1
    MaxTime = 1
    MaxFaults = 1
PROPERTIES
    NoSessionRunsPastItsDeadline
    CompletedSessionsGetScored
