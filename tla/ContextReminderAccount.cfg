CONSTANTS
    Loops = {r1}
    Accounts = {a1, a2}
    NoAccount = NoAccount
    Users = {u1}
    Ttl = 1
    RemindBefore = 0
    MaxBatch = 1
    MaxDelay = 0
    MaxBack = 0
SPECIFICATION Spec
PROPERTY ContextOfItsAccount
