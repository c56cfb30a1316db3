\* Both builds, three clients; they stop after MaxEvents frames.
SPECIFICATION Spec
CONSTANTS
    Conns = {a, b, c}
    Sizes = {s1, s2, s3}
    FirstSize = s1
    MaxEvents = 4
INVARIANTS
    TypeOK
    RecentByUse
    RightUnlessOverlapped
    ScreenFollows
SYMMETRY Symmetry
CHECK_DEADLOCK FALSE
