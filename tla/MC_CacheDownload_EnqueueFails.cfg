CONSTANTS
    MaxVersion = 3
    BodyLen = 2
    MaxTime = 3
    MaxAuth = 1
    ServerErrors <- MC_ServerErrors
    EnqueueCanFail = TRUE
    gSuppressAllUI = TRUE
    NoDownload = NoDownload
SPECIFICATION Spec
INVARIANT InProgressOwned
