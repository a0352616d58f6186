CONSTANTS
    Paths = {"main", "copy", "header"}
    Sources = {"main", "copy"}
    Contents <- MCContents
    Absent = Absent
    Versions <- MCTwoVersions
    Targets = {"SPIRV", "DXIL"}
    Flags = {"O1", "O2"}
    Overrides = {"none", "p1 only"}
    Perms = {"default", "p0", "p1"}
    DefaultPerm = "default"
    Codes <- MCCodes
    EmptyCode = EmptyCode
    Calls <- MCTwoCalls
    None = None
    Key <- MCKey
    Script <- MCScript
    NoReflection <- MCNoReflection
    OptionsHash <- MCOptionsHash
    ContentHash <- MCContentHash
    Slang <- MCSlang
    RacingEdits = FALSE
    TornWrites = FALSE

SPECIFICATION Spec

INVARIANT
    SlotsFresh
