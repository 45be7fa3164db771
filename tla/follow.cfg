SPECIFICATION FollowSpec
CONSTANTS
    Steps = {n}
    MaxTurns = 3
    MaxDrops = 1
CHECK_DEADLOCK FALSE
INVARIANTS
    FollowTypeOK
    FinishedRunIsShown
PROPERTIES
    PausesAreShown
