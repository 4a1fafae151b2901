SPECIFICATION ResolveSpec
CONSTANTS
    Paths <- MCPaths
    Names <- MCNames
    StdNames = {"std.m"}
    Symbols = {"f", "g", "h"}
    Entry = "main.0"
    RootOf <- MCRootOf
    Candidates <- MCCandidates
    Dotted <- MCDotted
    Base <- MCBase
    FileOf <- MCFileOf
    Disks <- AllDisks
INVARIANTS ResolveTypeOK DependenciesFirst EachFileOnce CycleDiagNamesACycle ResolvesExactlyTheResolvable
PROPERTIES ResolveEnds ImplementsImportOrder
CHECK_DEADLOCK FALSE
