CONSTANTS
    Loops = {l1, l2}
    Capacity = 3
    MaxLog = 1
    MaxFaults = 1
    AwaitsAbort = TRUE
SPECIFICATION Spec
PROPERTY ExpiryReported
