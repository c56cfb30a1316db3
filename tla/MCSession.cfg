\* One terminal that connects twice. Two chunks to a snapshot, a log that
\* holds less than the output, a backlog that a replay and a chunk overflow.
SPECIFICATION Spec
CONSTANTS
    Terminals = {t1}
    Conns = {k1, k2}
    LogCapacity = 2
    ChunkSize = 1
    MarkerSize = 1
    MaxBacklog = 3
    ReadSizes = {1, 2}
    SnapshotSizes = {2}
    Seeds = {1}
    MaxTotal = 3
    MaxEpoch = 2
    None = None
INVARIANTS
    TerminalExact
    ClientsAreComplete
    PromiseInv
PROPERTIES
    KeepsPromise
SYMMETRY Symmetry
CHECK_DEADLOCK FALSE
