CONSTANTS
    Loops = {r1, r2}
    Accounts = {a1, a2}
    NoAccount = NoAccount
    Users = {u1}
    Ttl = 1
    RemindBefore = 0
    MaxBatch = 1
    MaxDelay = 1
    MaxBack = 1
SPECIFICATION FairSpec
INVARIANTS
    TypeOK
    RemindedOnce
    OwedIsTracked
PROPERTY SilentUserReminded
