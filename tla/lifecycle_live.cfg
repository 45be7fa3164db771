SPECIFICATION FairSpec
CONSTANTS
    p = p
    q = q
    x = x
    y = y
    g = g
    Runs = {p, q, x, y}
    Isolated = {x, y}
    Mode <- OneWriter
    CancelNodes = {p, q}
    Gates = {g}
    MaxLaunches = 2
    SlotLimit = 1
    Entrances = {"http", "tool"}
    Forces = {FALSE, TRUE}
    MaxCrashes = 0
INVARIANT OneMutatesInPlace
PROPERTY CancelledEnds
CHECK_DEADLOCK FALSE
