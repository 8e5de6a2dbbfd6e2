SPECIFICATION FairSpec
CONSTANTS
    Calls = {c1, c2, c3}
    Runs = {r1}
    Versions = {0, 1}
    Operations = {"start", "reload", "stop"}
    Reentrant = TRUE
    Nobody = Nobody
CHECK_DEADLOCK FALSE
INVARIANTS
    OneListAtATime
    StoppedStaysStopped
    ScheduleIsLatest
PROPERTIES
    CallsReturn
