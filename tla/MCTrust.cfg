SPECIFICATION MCSpec
CONSTANTS
    Parts = {"selector", "trust", "punched"}
    MaxGen = 3
    Motions <- MCMotions
    DWELL = 1
    MIN_INTERVAL = 2
    BACKOFF = 3
    MAX_BACKOFF = 4
    Programs = {host, agent}
    Peers = {d1}
    Plans <- MCPlans
    Window = 2
    SYMMETRY Symmetric
CHECK_DEADLOCK FALSE
INVARIANTS
    ChangesAreKept
PROPERTIES
    SwitchesInStep
    IsByteStream
    StreamsEndCleanly
