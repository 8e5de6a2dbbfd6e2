SPECIFICATION FairSpec
CONSTANTS
    Unset = Unset
    Workers = {w1, w2}
    Mortal = {w1}
    MaxDeliver = 2
    ProducerMaxDeliver = 3
    MaxRetries = {Unset, 0, 1}
    HandlerErrors = {"none", "retryable", "fatal"}
    GuardErrors = {"plain", "limited"}
CHECK_DEADLOCK FALSE
INVARIANTS
    SettledForCause
    OverlapIsExcused
    NotBothDoneAndDead
    VerdictMatchesEvent
    EventMatchesState
    AttemptsWithinBudget
PROPERTIES
    EventuallySettled
