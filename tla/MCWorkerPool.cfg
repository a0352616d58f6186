CONSTANTS
    NPerms = 5
    NCompile = 3
    ToCompile <- MCToCompile
    JobsArgs = {0, 2, 4}

SPECIFICATION Spec

INVARIANTS
    TypeOK
    NoSharedSlot
    DoneMeansComplete
    CounterBounded

PROPERTIES
    Returns
    ImplementsParallelFor
