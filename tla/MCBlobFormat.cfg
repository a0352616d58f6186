SPECIFICATION Spec
CONSTANTS
    Strings    <- MCStrings
    Empty      = ""
    Garbage    = "garbage"
    Size       <- MCSize
    Digest     <- MCDigest
    Hashes     = {0, 7}
    Queueable  <- MCQueueable
    DepLists   <- MCDepLists
    MaxEntries = 3
    Wrap       = 448
    PackedSize = 40
INVARIANTS
    TypeOK
    RoundTrip
    CutsAreViews
    Aligned
    PayloadsShared
