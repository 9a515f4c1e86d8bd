SPECIFICATION SpecAll
CONSTANTS
    KB64 = 32
    KB4 = 16
    GB1 = 65
    RenormLimit = 96
    LZ4_skipTrigger = 2
    HashSize = 4
    HashOf <- MCHashOf
    Epochs = 2
    Positions = 16
    RingSize = 60
    AnyRing = TRUE
    Texts <- MCTexts
    Dictionaries <- MCDictionaries
    Parts = {"compress"}
    Builds <- MCBuilds
    Sizes <- MCSizes
    Capacities = {0, 16}
    Targets = {1, 12, 25}
    MaxCalls = 4
INVARIANT CompressedRight
CHECK_DEADLOCK FALSE
