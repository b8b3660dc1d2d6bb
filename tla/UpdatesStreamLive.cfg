CONSTANTS
    Loops = {l1}
    Capacity = 2
    MaxLog = 2
    MaxFaults = 1
    AwaitsAbort = TRUE
SPECIFICATION FairSpec
PROPERTIES
    EventuallyProcessed
    ExpiryEndsStream
