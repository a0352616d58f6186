SPECIFICATION Spec
CONSTANTS
    Jobs    <- MCJobs
    Short   <- MCShort
    Garbage = "garbage"
    Profiles <- MCProfiles
    Stoi    <- MCStoi
    Strings <- MCStrings
CHECK_DEADLOCK FALSE
INVARIANTS
    SessionStringsIntact
    SpecializationExact
    OnlySkipsAreSilent
    FingerprintDecides
