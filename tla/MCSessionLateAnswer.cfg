\* A response saved while the session is being finalised.
SPECIFICATION Spec
CONSTANTS
    NoAnswer = NoAnswer
    Requests = {r1, r2}
    Items = {i1, i2}
    Answers = {a1}
    Selections <- AllSelections
    Mappings <- OneMapped
    SectionLimit = 1
    MaxTime = 1
    MaxFaults = 0
SYMMETRY Symmetry
PROPERTIES
    ClosedAnswersAreFrozen
