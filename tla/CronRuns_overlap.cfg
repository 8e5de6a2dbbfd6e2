SPECIFICATION Spec
CONSTANTS
    Instances = {i1, i2}
    Runs = {r1, r2}
    NoRun = NoRun
    RawIds = TRUE
    Overlaps = {FALSE}
    Unlogged = {FALSE, TRUE}
    Timeouts = {TRUE}
    Limits = {0}
    LockEnabled = TRUE
    LockFails = TRUE
    StoreFails = TRUE
    Mortal = {i1}
CHECK_DEADLOCK FALSE
INVARIANTS
    OverlapIsExcused
    RunningIsReal
