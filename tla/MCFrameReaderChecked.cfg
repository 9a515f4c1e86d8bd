SPECIFICATION RSpec
CONSTANTS
    Streams <- All
    FreeStreams = {}
    ReaderStreams <- BlockChecksumOnly
    MaxChunk = 6
    MaxRoom = 4
    Magic = 2
    minFHSize = 3
    ContentSizeField = 2
    DictIDField = 1
    BHSize = 2
    BFSize = 2
    History = 1
    MaxCut = 0
    srcBufferSize = 5
    dstBufferSize = 4
INVARIANT NoInputLost
