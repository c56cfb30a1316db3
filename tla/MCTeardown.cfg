\* Two clients and a kill; a chunk of output after the replay, against a
\* backlog of one.
SPECIFICATION FairSpec
CONSTANTS
    MaxAttaches = 2
    MaxOutput = 1
    MaxBacklog = 1
INVARIANTS
    TypeOK
    LastWords
PROPERTIES
    KillEnds
    TermEnds
    OutputArrives
CHECK_DEADLOCK FALSE
