SPECIFICATION MCSpec
CONSTANTS
    Parts = {"path"}
    b1 = b1
    b2 = b2
    k1 = k1
    WinSizes = {3, 4}
    WinOptions <- TwoRates
    Qualities <- FullAndHalf
    BUFFERS = 1
    LATENCY = 1
    MaxOptionChanges = 1
    MaxResizes = 1
    MaxArrivals = 1
    MaxUnits = 2
    Candidates <- AsyncThenSync
    SLOTS = 2
    ENCODER_LATENCY = 1
    MaxPictures = 4
    MaxChanges = 1
    FRAMES = 3
    SEQUENCES = 4
    GOP = 3
    KEY_PACKETS = 2
    WIRE = 2
    FRAME_QUEUE = 1
    MaxFaults = 1
    Demands = {5, 8}
    Caps = {0, 3}
    FrameLimits = {0}
    HOST_FPS = 60
    PIXELS = 1
    RTT_TURNS = 2
    DOWN_AFTER = 1
    UP_AFTER = 1
    MaxLimitChanges = 1
    Brokers = {b1, b2}
    ScreenClients = {k1}
    Sids = {"a"}
    SidOf <- SameUser
    MaxAdmin = 1
    MaxConsole = 1
    MaxExits = 1
    CaptureSizes = {4, 8}
    MaxDraws = 2
    MaxQualityChanges = 1
    PrivateSessions = {"s1", "s2"}
    MaxSways = 2
    MaxAsked = 3
    MaxTypedEvents = 2
    Kinds = {"Native", "Rdp"}
    Offered = {"Native", "Rdp"}
    MaxGen = 4
    MaxGenAny = 2
    Calm = {TRUE, FALSE}
CHECK_DEADLOCK FALSE
INVARIANT
    FramesDecode
