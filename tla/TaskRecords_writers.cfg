SPECIFICATION Spec
CONSTANTS
    Calls = {c1, c2, c3}
    Messages = {m1, m2}
    Drivers = {"asynq", "nats"}
    Budgets = {1}
    MaxDelivers = {1, 2}
    HandlerErrors = {"none", "plain", "fatal"}
    StoreFails = TRUE
    Crashes = TRUE
SYMMETRY Symmetry
CHECK_DEADLOCK FALSE
INVARIANTS
    SubmittedIsRecorded
    StuckIsExcused
    OneAtATime
