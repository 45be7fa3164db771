SPECIFICATION Spec
CONSTANTS
    x = x
    Runs = {x}
    Isolated = {x}
    Mode <- AllExclusive
    CancelNodes = {x}
    Gates = {}
    MaxLaunches = 2
    SlotLimit = 1
    Entrances = {"http", "tool"}
    Forces = {FALSE}
    MaxCrashes = 0
INVARIANT LaunchesNeverInterleave
CHECK_DEADLOCK FALSE
