\* Read-ahead without a length (violated).
CONSTANTS
    Which = {"reader"}
    OwnLifetime = FALSE
    ElementThrows = FALSE
    CopyThrows = FALSE
    DtorThrows = FALSE
    NewBlocksMin = 2
    SizeModulus = 256
    Null = Null
    Raw = Raw
    Default = Default
    Moved = Moved
    Nobody = Nobody
    Threads = {t1, t2}
    Values = {v1, v2}
    SegSize = 1
    MaxEnd = 2
    MaxTransfer = 2
    Careful = TRUE
    Arrays = {a1, a2}
    NoArray = NoArray
    Element = e
    Byte = b1
    RawByte = b2
    Bases <- AllBases
    Unlimited = Unlimited
    LenReads <- NoLength
    KnownLength = FALSE
SPECIFICATION BuffersSpec
INVARIANT ReadingStopsAtEof
