SPECIFICATION RunSpec
CONSTANTS
    Count = 3
    Nodes <- MCNodes
    NoGate <- MCNoGate
    Workflows <- PlainReady
    Seeds <- NoSeeds
    MaxLaunches = 3
    MaxCrashes = 2
    CrashPoints <- WhileAwaiting
CHECK_DEADLOCK FALSE
INVARIANTS
    DerivedOutputsAreFresh
