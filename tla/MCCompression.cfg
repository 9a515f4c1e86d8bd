SPECIFICATION SpecAll
CONSTANTS
    Parts = {"frame", "stream", "parse", "search", "history"}
    KB64 = 3
    KB4 = 2
    OneGB = 40
    TwoGB = 60
    HashSize = 2
    DictAt = 20
    DictSize = 3
    BlockSizes = {3, 4}
    Tiny = 2
    Sizes = {2, 3, 5}
    ModeSwitch = FALSE
    MaxInput = 9
    MaxFrames = 2
    Prefs <- MCPrefs
INVARIANTS  FramesWhole BoundEnough HcStreamsRight ParsersRight MatchReal LongestFound 
