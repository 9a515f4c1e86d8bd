SPECIFICATION FairSpec
CONSTANTS
    decoder = decoder  writer = writer  NoJob = NoJob
    MaxChunks = 6
    MaxPieces = 2
INVARIANTS DecodedRight
PROPERTIES Terminates
