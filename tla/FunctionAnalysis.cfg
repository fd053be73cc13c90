SPECIFICATION FairSpec
CONSTANTS
    State <- TwoFacts
    Functions <- AllFunctions
    Bottom = Bottom
    Null = Null
INVARIANTS
    TypeOK
    Solution
    ForcedOnlyWhenAllWait
    SoundResult
PROPERTY
    Termination
