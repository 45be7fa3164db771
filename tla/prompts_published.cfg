SPECIFICATION ServicesSpec
CONSTANTS
    Parts = {"prompts"}
    Runs = {r1, r2, r3, r4}
    Limit = 2
    MaxRegs = 2
    MaxVersion = 1
    MaxSource = 2
    MaxPublishes = 4
    Asks = {a, b}
    Turns = {t, u}
    Ops = {o, p}
    MaxLogs = 1
    MaxRetries = 3
    MaxUsage = 2
    MaxChunks = 2
    RelayCap = 1
    Leases = {l, m}
    Paths = {path, elsewhere}
    Collectors = 3
    Cadences <- AllOnes
    NewRunsPerTick = 2
    IdleMultiplier = 2
    Healths = {"ok", "fails", "hangs", "refused"}
    MaxPrompts = 2
    MaxSockets = 2
    MaxContent = 1
CHECK_DEADLOCK FALSE
PROPERTY OpenSetIsPublished
