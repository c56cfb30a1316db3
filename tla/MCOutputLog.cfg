\* Capacities around the push sizes: none, smaller than one push, larger.
SPECIFICATION LogSpec
CONSTANTS
    Capacities = {0, 1, 3}
    PushSizes = {1, 2, 4}
    MaxTotal = 7
    MaxEpoch = 2
    None = None
INVARIANTS
    LogTypeOK
    HoldsNewest
    ResumeExact
