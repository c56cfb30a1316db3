\* Text before and after a detach key, a console that changes and changes back.
SPECIFICATION FairAttachSpec
CONSTANTS
    Sizes = {1, 2}
    MaxOutput = 1
    MaxInput = 2
    MaxChanges = 2
INVARIANTS
    AttachTypeOK
    RetryStartsClean
    DetachKeepsInput
PROPERTIES
    DetachEnds
    ResizesArrive
CHECK_DEADLOCK FALSE
