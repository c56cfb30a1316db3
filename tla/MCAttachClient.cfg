\* Every way an attach is asked for and answered; a frame of output, a change of
\* size and three bytes typed on top.
SPECIFICATION FairSpec
CONSTANTS
    MaxOutput = 1
    MaxSignals = 1
    MaxInput = 3
INVARIANTS
    TypeOK
    RetryStartsClean
    CutsDoNotMatter
PROPERTY
    AttachEnds
CHECK_DEADLOCK FALSE
