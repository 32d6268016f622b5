\* The read path with Last-Modified strictly increasing and a reliable
\* request queue: cache pages stay of one version, revalidation brings the
\* cache up to date, and every hand-off settles.
CONSTANTS
    MaxVersion = 3
    BodyLen = 2
    MaxTime = 3
    MaxAuth = 1
    ServerErrors <- MC_ServerErrors
    EnqueueCanFail = FALSE
    gSuppressAllUI = TRUE
    NoDownload = NoDownload
SPECIFICATION Spec
INVARIANT TypeOK
INVARIANT CacheSingleVersion
PROPERTY RevalidatedIsCurrent
PROPERTY DownloadSettles
