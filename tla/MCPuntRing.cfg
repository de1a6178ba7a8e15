SPECIFICATION FairSpec
CONSTANTS
    Word = {0, 1}
    MaxWords = 2
    Slots = 2
    PtrMod = 4
    Nothing = Nothing
INVARIANTS
    TypeOK
PROPERTIES
    Implements
    RefusedOnlyWhenFull
