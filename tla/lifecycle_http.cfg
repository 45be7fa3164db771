SPECIFICATION Spec
CONSTANTS
    p = p
    x = x
    g = g
    h = h
    Runs = {p, x}
    Isolated = {x}
    Mode <- AllExclusive
    CancelNodes = {p, x}
    Gates = {g, h}
    MaxLaunches = 3
    SlotLimit = 1
    Entrances = {"http"}
    Forces = {FALSE}
    MaxCrashes = 1
INVARIANTS TypeOK RowTellsTheTruth LiveIsRegistered WorksInItsWorktree NobodyIsOrphaned LaunchesNeverInterleave
PROPERTY LaunchesAreEarned
CHECK_DEADLOCK FALSE
