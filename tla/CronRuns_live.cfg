SPECIFICATION FairSpec
CONSTANTS
    Instances = {i1}
    Runs = {r1, r2}
    NoRun = NoRun
    RawIds = FALSE
    Overlaps = {FALSE}
    Unlogged = {FALSE}
    Timeouts = {FALSE, TRUE}
    Limits = {1}
    LockEnabled = TRUE
    LockFails = FALSE
    StoreFails = FALSE
    Mortal = {i1}
CHECK_DEADLOCK FALSE
INVARIANTS
    RecordsAreClosed
    LimitHolds
PROPERTIES
    LockComesFree
    RunsReturn
