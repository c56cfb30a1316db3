\* Two names, two masters, two attaches, a rename and a sweep: a name is left, taken
\* over and cleared while others are on their way to it.
SPECIFICATION Spec
CONSTANTS
    Names = {n1, n2}
    Masters = {m1, m2}
    Attachers = {c1, c2}
    Renamers = {r1}
    Sweepers = {s1}
    Faults = {"killed", "crash", "late"}
    None = None
INVARIANTS
    TypeOK
    DeletesOnlyTheDead
PROPERTY
    NamesAreKept
SYMMETRY Symmetry
CHECK_DEADLOCK FALSE
