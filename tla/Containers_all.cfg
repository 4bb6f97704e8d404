\* Every container and every pointer, each by itself.
CONSTANTS
    Which = {"tree", "leaf", "vector", "blocks", "pointers", "strings", "collected", "saved"}
    WordBits = 2
    NWords = 2
    TypeMax = 3
    WithinLimits = TRUE
    Sizes <- SomeSizes
    MaxElements = 2
    MaxOperand = 2
    Careful = TRUE
    Arrays = {a1, a2}
    ArrayValues = {v}
    NoArray = NoArray
    Raw = Raw
    Default = Default
    Objects = {o1, o2, o3}
    Null = Null
    Strings = {"x", "y"}
    Chars = {"a", "b"}
    Junk = "?"
    Reserve = 3
    Inline = 1
    MaxLength = 4
    Cautious = TRUE
    Ptrs = {"P", "q"}
    Refs = {"R", "s"}
    Values = {v1, v2}
    Owner <- OwnerOf
    NoHandle = NoHandle
    \* A file is mapped by three vertices at a time, of which the header takes one.
    Vertices <- SomeVertices
    VertexLen = 2
    VertexBegin = 2
    VertexGrowBy = 3
    MaxIndices = 5
    Moves = FALSE
    Locked = TRUE
SPECIFICATION ContainersSpec
VIEW View
SYMMETRY Symm
INVARIANTS
    TreeIsSound
    VectorIsSound
    BlocksAreSound
    PointersAreSound
    StringsAreSound
    ObjectsAreSound
    SavedIsLoaded
PROPERTY ContainersImplement
CHECK_DEADLOCK FALSE
