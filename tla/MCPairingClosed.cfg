SPECIFICATION Spec
CONSTANTS
    Clients = {c1, c2}
    PairedEarlier = {c2}
    MAX_PAIRING_FAILURES = 2
    MaxPins = 2
    MaxCalls = 1
CHECK_DEADLOCK FALSE
INVARIANTS
    ClosedMeansNoPin
