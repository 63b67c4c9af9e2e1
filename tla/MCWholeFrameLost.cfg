SPECIFICATION MCSpec
CONSTANTS
    Parts = {"video"}
    WINDOW = 6
    WORDS = 3
    WORD = 2
    MaxPacket = 7
    WRAP = 8
    FIRST = 7
    Links <- FarAndNear
    BLOCKS = 1
    K = 2
    MAX_IN_FLIGHT = 2
    MEMORY = 2
    MAX_RESENDS = 1
    MAX_NACKS = 1
    HOLD = 1
    DEADLINE = 2
    REFRESH_GAP = 1
    PACKETS = 2
    FRAME_QUEUE = 2
    LostPerFrame = 2
    MaxGameFrames = 6
    DATA_SHARDS = 2
    PARITY_SHARDS = 1
    SEQ = 8
    MaxSounds = 10
    AudioReach = 3
    Logins = {l1, l2}
    HostKeys = {"k1", "k2"}
    MaxLogins = 3
    MaxForgets = 1
    MaxOutput = 1
    MaxTyped = 1
    Addresses = {a, b}
    DiscoveryIds = {c}
    SERVERS = 2
    SETTLE = 1
    NOT_FOUND_CACHE = 2
    FOUND_CACHE = 3
    STUN_RETRY = 0
    KEEPALIVE_START = 1
    KEEPALIVE_MIN = 0
    Reannounce = {2}
    Waits = {1, 2}
    MaxTime = 3
    MaxChanges = 1
CHECK_DEADLOCK FALSE
INVARIANT
    EveryLossAsksForKeyframe
