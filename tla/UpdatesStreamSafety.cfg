CONSTANTS
    Loops = {l1, l2}
    Capacity = 2
    MaxLog = 2
    MaxFaults = 2
    AwaitsAbort = TRUE
SPECIFICATION Spec
SYMMETRY LoopSymmetry
INVARIANTS
    TypeOK
    CursorCoversStore
    NoGap
    StreamInv
PROPERTIES
    NoReplay
    RefinesInbox
