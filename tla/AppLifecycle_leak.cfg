SPECIFICATION Spec
CONSTANTS
    NCap = 1
    NProv = 1
    Services = {1}
    Stoppers = {s1}
    Runner = runner
    MaxRuns = 1
INVARIANT
    RunAllProvidersOwnsShutdown
