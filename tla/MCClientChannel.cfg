\* Two senders; three frames of 0, 1 or 2 bytes against a backlog of 2, so that
\* a channel overflows with frames queued and one in flight.
SPECIFICATION Spec
CONSTANTS
    Senders = {s1, s2}
    Sizes = {0, 1, 2}
    MaxBacklog = 2
    SocketSpace = 1
    MaxSends = 3
INVARIANTS
    TypeOK
    BacklogExact
    LeavesInOrder
    DrainFlushesOutput
PROPERTIES
    EveryFrameSettles
    WriterEnds
CHECK_DEADLOCK FALSE
