SPECIFICATION ResolveSpec
CONSTANTS
    Paths <- TwinPaths
    Names <- TwinNames
    StdNames = {}
    Symbols = {"f", "g"}
    Entry = "./main.0"
    RootOf <- TwinRootOf
    Candidates <- TwinCandidates
    Dotted <- TwinDotted
    Base <- TwinBase
    FileOf <- TwinFileOf
    Disks <- TwinDisks
INVARIANT NoDuplicateExports
CHECK_DEADLOCK FALSE
