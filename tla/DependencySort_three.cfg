SPECIFICATION FairSpec
CONSTANT N = 3
INVARIANTS
    Verdict
    DependenciesFirst
PROPERTIES
    Implements
    Terminates
