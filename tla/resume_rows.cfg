SPECIFICATION RunSpec
CONSTANTS
    Count = 4
    Nodes <- MCNodes
    NoGate <- MCNoGate
    Workflows <- PlainOrGate
    Seeds <- NoSeeds
    MaxLaunches = 3
    MaxCrashes = 1
    CrashPoints <- Anywhere
CHECK_DEADLOCK FALSE
INVARIANTS
    RunTypeOK
    RowsMatchTheRun
    FreshUnlessCrashed
    GateFirstUnlessCrashed
