CONSTANTS
    MaxVer <- MC_MaxVer
    MaxTok <- MC_MaxTok
    MaxChallenges <- MC_MaxChallenges
    OtherWrites = TRUE
    WriteLocked = FALSE
    LockLapses = FALSE
SPECIFICATION Spec
INVARIANT ValidatorsNameOurWrite
