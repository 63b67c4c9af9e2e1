SPECIFICATION CarrierSpec
CONSTANTS
    Kinds = {"Native", "Rdp"}
    Offered = {"Native", "Rdp"}
    MaxGen = 2
    MaxGenAny = 2
    Calm = {TRUE}
CHECK_DEADLOCK FALSE
INVARIANT SoundGoesOn
