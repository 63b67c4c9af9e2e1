SPECIFICATION MCSpec
CONSTANTS
    Parts = {"tracks", "channels", "files", "watch", "input", "views", "connect"}
    c1 = c1
    c2 = c2
    Tracks <- WithMicrophone
    MaxOps = 2
    MaxData <- HostTalks
    Closers = {"host"}
    MaxOpens = 2
    MaxChunks = 1
    MAX_CHANNELS = 1
    FileChannels = {c1, c2}
    Uses <- UploaderAndAll
    Sources = {"x", "y"}
    SIZE = 2
    ACK_EVERY = 1
    UPLOAD_WINDOW = 1
    MaxCalls = 2
    MaxKills = 1
    DEBOUNCE = 1
    Lengths = {1, 2}
    MaxVersions = 3
    InputSessions = {s1}
    InputWindows = {"a", "b"}
    Keycodes = {"k"}
    TouchIds = {"f"}
    Platforms = {"windows", "linux", "android"}
    MaxEvents = 3
    ViewWindows = {"w", "p"}
    PopupOf <- WindowAndPopup
    NoParent = "none"
    Kept = {}
    Shapes = {"a"}
    MaxDeskChanges = 1
    MaxRequests = 2
    Connections = {x1, x2}
    DialedHosts = {"h1", "h2"}
    MaxConnectEvents = 2
CHECK_DEADLOCK FALSE
INVARIANTS
    CommandsAccountedFor
    FilesAreKept
    NothingStaysDown
    SessionInOrder
    PairingsAreKept
PROPERTIES
    OperationsReturn
    WatchCatchesUp
    ViewsCatchUp
