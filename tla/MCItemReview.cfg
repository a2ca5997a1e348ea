\* Two items of one section, two overlapping requests.
SPECIFICATION Spec
CONSTANTS
    Items = {i1, i2}
    Assigned = {i1}
    Handled = {i1}
    EnteredReviews = {"APPROVED_FOR_PILOT"}
    EnteredPsychometrics = {"PILOT_READY"}
    EnteredPilots = {"OPEN", "LOCKED_FOR_PILOT"}
    GivenPositions = {0}
    Requests = {r1, r2}
SYMMETRY Symmetry
INVARIANTS
    IndInv
    ActiveItemsArePlaced
    EndOfTheSection
PROPERTIES
    LockedFormIsGoverned
CHECK_DEADLOCK FALSE
