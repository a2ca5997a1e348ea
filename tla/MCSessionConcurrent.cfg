\* Two overlapping requests on one session.
SPECIFICATION Spec
CONSTANTS
    NoAnswer = NoAnswer
    Requests = {r1, r2}
    Items = {i1, i2}
    Answers = {a1}
    Selections <- AllSelections
    Mappings <- OneMapped
    SectionLimit = 1
    MaxTime = 1
    MaxFaults = 1
SYMMETRY Symmetry
INVARIANTS
    IndInv
    AnsweredItemsHaveResponses
    RunningSessionsAreDelivered
    CompletionIsNotInTheFuture
    ScoredSessionsWereCompleted
    UndisturbedScoreIsFinal
    NotificationsAreTrue
PROPERTIES
    DeliveryIsFixed
    AnswersAreKept
