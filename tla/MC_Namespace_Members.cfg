CONSTANTS
    MaxChallenges <- MC_MaxChallenges
SPECIFICATION Spec
PROPERTY MembersKept
