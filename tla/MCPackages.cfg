SPECIFICATION PkgSpec
CONSTANTS
    Paths <- MCPaths
    RootPath = "./app"
    Names = {"app", "a", "b", ""}
    Versions = {"1", "2"}
    Targets = {"host", "other"}
    HostTarget = "host"
    Disks <- AllDisks
INVARIANTS PathVersionsAgree EntriesAreDeclared WholeGraphListed DiagnosticsAreTrue
PROPERTY PackagesEnd
CHECK_DEADLOCK FALSE
