SPECIFICATION HarnessSpec
CONSTANTS
    MaxFlips = 2
    MaxPath = 4
    MaxDirs = 2
    MaxText = 5
INVARIANTS
    TranslatedIsAdmissible
    KeptIsAsIntended
    FaithfulIsKept
    OwnersAreAsListed
    FormatInvertsParse
