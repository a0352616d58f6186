SPECIFICATION Spec
CONSTANTS
    Markers      <- MCMarkers
    Names        <- MCNames
    NoReflection = "[noreflection]"
    Invocations  <- MCInvocations
    MaxList      = 4
CHECK_DEADLOCK FALSE
INVARIANTS
    CommentsRespected
    ListsAgree
    KeysNameCombinations
    ExitZeroMeansBuilt
    OutputsMirrorSources
