CONSTANTS
    MaxChallenges <- MC_MaxChallenges
SPECIFICATION Spec
INVARIANT TypeOK
PROPERTY TransactionsEnd
