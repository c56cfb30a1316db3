\* CHANGELOG.md:24, when one of two attaches is killed.
SPECIFICATION FairSpec
CONSTANTS
    Names = {n1, n2}
    Masters = {m1, m2}
    Attachers = {c1, c2}
    Renamers = {}
    Sweepers = {}
    Faults = {"killed"}
    None = None
PROPERTY
    AttachReturns
CHECK_DEADLOCK FALSE
