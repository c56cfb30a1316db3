\* Three connections of which two are served at a time, two renames.
SPECIFICATION FairSpec
CONSTANTS
    Names = {n1, n2}
    First = n1
    Clients = {c1, c2, c3}
    MaxClients = 2
    MaxRenames = 2
    None = None
INVARIANTS
    TypeOK
    ExitIsTold
PROPERTY
    SessionEnds
CHECK_DEADLOCK FALSE
