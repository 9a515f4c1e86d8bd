SPECIFICATION RSpec
CONSTANTS
    Streams <- All
    FreeStreams <- Pairs
    ReaderStreams <- Usual
    MaxChunk = 6
    MaxRoom = 4
    Magic = 2
    minFHSize = 3
    ContentSizeField = 2
    DictIDField = 1
    BHSize = 2
    BFSize = 2
    History = 1
    MaxCut = 4
    srcBufferSize = 5
    dstBufferSize = 4
INVARIANTS DecoderSound  NoInputLost
PROPERTY ReaderFinishes
