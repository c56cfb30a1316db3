\* CHANGELOG.md:27, two frames of output ahead of the exit.
SPECIFICATION Spec
CONSTANTS
    MaxOutput = 2
    MaxSignals = 0
    MaxInput = 0
INVARIANT
    ExitIsDelivered
CHECK_DEADLOCK FALSE
