CONSTANTS
    Senders = {s1, s2}
    Accounts = {a1}
    NoAccount = NoAccount
    RetryAfter = 2
    RetryAttempts = 1
    Window = 1
    Threshold = 2
    MaxDelay = 1
    MaxSent = 3
SPECIFICATION FairSpec
INVARIANTS
    TypeOK
    WarnedAtThreshold
PROPERTIES
    BackoffHolds
    WindowAccurate
    CallsReturn
