SPECIFICATION Spec
CONSTANTS
    HostNames <- SomeHosts
    Strings <- SomeStrings
    Empty = ""
    Blank <- BlankStrings
    Paths <- AllPaths
    StorePaths <- GoodPaths
    Versions <- SomeVersions
    Systems <- SomeSystems
    None = None
    Documents <- SomeDocuments
    Configs <- SomeConfigs
CHECK_DEADLOCK FALSE
INVARIANT RenderedIsAccepted
