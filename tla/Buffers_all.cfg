\* Arrays, the rotating buffer, the reader, and the threads on one file.
CONSTANTS
    Which = {"owned", "bytes", "buffer", "reader", "file"}
    OwnLifetime = FALSE
    ElementThrows = FALSE
    CopyThrows = FALSE
    DtorThrows = FALSE
    NewBlocksMin = 2
    SizeModulus = 256
    Null = Null
    Raw = Raw
    Default = Default
    Moved = Moved
    Nobody = Nobody
    Threads = {t1, t2}
    Values = {v1, v2}
    SegSize = 1
    MaxEnd = 2
    MaxTransfer = 2
    Careful = TRUE
    Arrays = {t1, t2}
    NoArray = NoArray
    Element = e
    Byte = b1
    RawByte = b2
    Bases <- AllBases
    Unlimited = Unlimited
    LenReads <- Lengths
    KnownLength = TRUE
SPECIFICATION BuffersSpec
SYMMETRY Symm
VIEW View
INVARIANTS
    ElementsAreBacked
    LiveExactlyCounted
    ReadersAgree
    WindowIsBacked
    CharsInFileOrder
    SeenIsInBuffer
    EofOnlyAtEnd
    StreamsSeeOneFile
    MutexGuardsArray
PROPERTIES
    ImplementsElementSeq
    ImplementsWindow
    ImplementsAtomicFile
