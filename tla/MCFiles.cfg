SPECIFICATION SpecAll
CONSTANTS
    Parts = {"write", "compress", "decompress", "list", "gpu", "daemon"}
    CloseMayFail = FALSE
    Daemons = {d1, d2, d3}
    Stops = {s1}
    None = None
    Junk = Junk
    sizeT = 2
    segmentSizeT = 2
    GB = 5
    MaxBuffer = 5
    UnsignedMax = 10
    MaxData = 12
SYMMETRY Symmetry
CHECK_DEADLOCK FALSE
INVARIANTS FileIsData WriterComplete CompressedFilesRight   AnswersHold 
PROPERTIES OneDaemonServes
