\* One request at a time, killed or failing at any await.
SPECIFICATION Spec
CONSTANTS
    NoAnswer = NoAnswer
    Requests = {r1}
    Items = {i1, i2}
    Answers = {a1, a2}
    Selections <- AllSelections
    Mappings <- AnyMapping
    SectionLimit = 2
    MaxTime = 4
    MaxFaults = 2
INVARIANTS
    OneNotificationPerSession
PROPERTIES
    ImplementsContract
