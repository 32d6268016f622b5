CONSTANTS
    MaxVer <- MC_MaxVer
    MaxTok <- MC_MaxTok
    MaxChallenges <- MC_MaxChallenges
    OtherWrites = TRUE
    WriteLocked = TRUE
    LockLapses = TRUE
SPECIFICATION Spec
INVARIANT TypeOK
INVARIANT ValidatorsNameOurWrite
INVARIANT TokenIsServerLock
PROPERTY TransactionsEnd
