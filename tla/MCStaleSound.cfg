SPECIFICATION MCSpec
CONSTANTS
    Parts = {"sound"}
    Clients = {c1, c2}
    PairedEarlier = {c2}
    MAX_PAIRING_FAILURES = 2
    MaxPins = 2
    MaxCalls = 1
    AppWindows = {"w", "p"}
    OwnerOf <- WindowAndPopup
    NoOwner = "none"
    FollowPopups = TRUE
    MaxDials = 2
    MaxPresses = 5
    MaxHostChanges = 1
    ClientTexts = {"c"}
    HostTexts = {"h", "i"}
    MaxSettings = 1
    MaxCopies = 2
    MaxEvents = 1
    MaxSwitches = 2
    MaxFailures = 1
    HeldKeys = {"k"}
    HeldButtons = {"l", "r"}
    HostPointers = {"a"}
    MaxDeskEvents = 5
    SHOWN_BUFFERS = 2
    PictureSizes = {1, 2}
    MaxPicturesShown = 4
    MaxSoundViews = 2
    SOUND_QUEUE = 2
    MaxSoundPackets = 3
    MaxAppChanges = 3
    MaxMicThreads = 3
CHECK_DEADLOCK FALSE
INVARIANTS
    UntilThenThisTimesOut
