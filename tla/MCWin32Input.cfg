\* Every input of up to six characters, in reads of one or two: a body that parses
\* reaches the limit in them (esc [ 0 0 press _). Every output of up to six, in
\* up to two reads.
SPECIFICATION MCSpec
CONSTANTS
    MaxBody = 3
    MaxRead = 2
    MaxChars = 6
    MaxText = 6
    MaxCuts = 1
INVARIANTS
    CutsDoNotMatter
    OnlySequencesWait
    OnlyReportsAreDropped
CHECK_DEADLOCK FALSE
