CONSTANTS
    Paths = {"main", "header"}
    Sources = {"main"}
    Contents <- MCContents
    Absent = Absent
    Versions <- MCVersions
    Targets = {"SPIRV", "DXIL"}
    Flags = {"O1", "O2"}
    Overrides = {"none", "p1 only"}
    Perms = {"default", "p0", "p1"}
    DefaultPerm = "default"
    Codes <- MCCodes
    EmptyCode = EmptyCode
    Calls <- MCFewCalls
    None = None
    Key <- MCKey
    Script <- MCScript
    NoReflection <- MCNoReflection
    OptionsHash <- MCOptionsHash
    ContentHash <- MCContentHash
    Slang <- MCSlang
    RacingEdits = FALSE
    TornWrites = TRUE

SPECIFICATION Spec

INVARIANT
    UnknownDepsNotReused
