\* A base below zero is replaced by one that is not (violated).
CONSTANTS
    Which = {"buffer"}
    OwnLifetime = FALSE
    ElementThrows = FALSE
    CopyThrows = FALSE
    DtorThrows = FALSE
    NewBlocksMin = 2
    SizeModulus = 256
    Null = Null
    Raw = Raw
    Default = Default
    Moved = Moved
    Nobody = Nobody
    Threads = {t1, t2}
    Values = {v1, v2}
    SegSize = 1
    MaxEnd = 2
    MaxTransfer = 2
    Careful = FALSE
    Arrays = {a1, a2}
    NoArray = NoArray
    Element = e
    Byte = b1
    RawByte = b2
    Bases <- FewBases
    Unlimited = Unlimited
    LenReads <- Lengths
    KnownLength = TRUE
SPECIFICATION BuffersSpec
PROPERTY SignNeverSwitches
CHECK_DEADLOCK FALSE
