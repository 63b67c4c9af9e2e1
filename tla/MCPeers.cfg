SPECIFICATION MCSpec
CONSTANTS
    Parts = {"stream", "gamepairing", "apps", "launches", "rdp", "vnc", "accounts", "flows"}
    CompatWindows = {"w"}
    CompatOwners = {"host", "s"}
    MaxCompatTurns = 2
    MaxLaunches = 2
    GameClients = {"d1", "d2"}
    UniqueIdOf <- OneUniqueId
    GamePins = {"p", "q"}
    MaxPairCalls = 2
    RemoteIds = {1, 2}
    MaxOrders = 2
    MaxRemoteInput = 1
    LaunchThreads = {t1, t2}
    Principals = {"a"}
    AccountNameOf <- AccountsAsNamed
    MaxPasswords = 2
    MaxHostKills = 1
    RdpPictures = {"a", "b"}
    QUEUE = 2
    MaxDials = 2
    MaxChanges = 3
    Widths = {1, 2}
    Colours = {0, 1}
    MaxViews = 1
    MaxViewerMsgs = 2
    Devices = {v1, v2}
    Users = {"u"}
    Tokens = {"t"}
    Sources <- LocalThenLdap
    Rules <- OneRule
    Windows = {"w1"}
    Passwords = {"p"}
    Pinned = {}
    MAX_SIGN_IN_FAILURES = 1
    SIGN_IN_LOCKOUT = 2
    RegistrationTime = 1
    KeyRefresh = 1
    EXPIRES = 1
    LEEWAY = 1
    MaxTime = 2
    MaxSignIns = 3
    MaxSettings = 1
    Machines = {"h1", "h2"}
    WITHIN = 1
    INTERVAL = 1
    SLOWER = 1
    EXPIRY = 4
    MaxWall = 4
    MaxFlows = 2
CHECK_DEADLOCK FALSE
INVARIANTS
    WindowsStateIsKept
    ViewerShowsWhatWasSent
    SignInsAreSound
PROPERTIES
    DevicesKeptApart
    StoppedServerEnds
