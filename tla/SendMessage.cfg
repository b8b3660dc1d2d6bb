CONSTANTS
    Accounts = {a1, a2}
    NoAccount = NoAccount
    MaxChunks = 3
    MaxUploads = 3
SPECIFICATION FairSpec
CHECK_DEADLOCK FALSE
INVARIANTS
    TypeOK
    CaptionAfterUpload
    PartsOfOneAccount
PROPERTIES
    KeepsPromise
    SendEnds
