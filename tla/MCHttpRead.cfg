\* Two requests on a connection; a buffer of 2 bytes and a body that begins with 2.
CONSTANTS
    BufSize = 2
    MaxFile = 2
    SizeT = 256
    Lengths = {0, 1, 3}
    Chunkings <- SomeChunkings
    Requests = 2
SPECIFICATION FairSpec
CHECK_DEADLOCK FALSE
INVARIANTS
    ReadTypeOK
    BodyIsTheBody
PROPERTIES
    ReadEnds
