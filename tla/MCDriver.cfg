SPECIFICATION DriverSpec
CONSTANTS
    Lines <- AllLines
    Jobs <- AllJobs
    Host = "linux-x64"
    MaxWrites = 2
    MaxFailures = 1
    MaxPerHook = 1
    BufLines = {0, 1}
    CutText = "win32"
    MaxFeedback = 4
INVARIANTS AITypeOK OverridesOwned AnswersInOrder
INVARIANTS OnlyValidMirEmitted SuccessMeansArtifact
PROPERTY Terminates
CHECK_DEADLOCK FALSE
