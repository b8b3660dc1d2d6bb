CONSTANTS
    Logins = {l1}
    MaxQrRefresh = 3
    BaseUrls = {u1, u2}
    ServerUrls = {u2}
    Nobody = Nobody
    Loaded = Loaded
SPECIFICATION FairSpec
CHECK_DEADLOCK FALSE
INVARIANTS
    TypeOK
    PollsAboutItsQr
    StatusReported
    FailedLoginInstallsNothing
    BaseUrlOfCredentials
PROPERTIES
    LoginEnds
