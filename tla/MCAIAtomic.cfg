SPECIFICATION AISpec
CONSTANTS
    Lines <- BareLines
    MaxWrites = 2
    MaxFailures = 1
    MaxPerHook = 16
    BufLines = {4}
    CutText = "cut"
    MaxFeedback = 4
INVARIANTS NothingWiped
CHECK_DEADLOCK FALSE
