SPECIFICATION FairSpec
CONSTANTS
    NCap = 2
    NProv = 2
    Services = {1}
    Stoppers = {s1}
    Runner = runner
    MaxRuns = 2
INVARIANTS
    OwnsShutdown
    FailureIsVisible
    ShutdownAtMostOnce
    ProviderStoppedOnce
PROPERTIES
    ReverseShutdownOrder
    CallsReturn
