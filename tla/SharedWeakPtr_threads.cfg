\* Three threads on one block: every kind of operation, leaks included.
CONSTANTS
    Threads = {t1, t2, t3}
    StrongPtrs = {s1, s2}
    WeakPtrs = {w1, w2}
    Blocks = {b1}
    NULL = NULL
    Kinds <- AllKinds
    RefModulus = 10
    MaxLeaks = 1
    DtorMayThrow = TRUE
    AllocMayThrow = TRUE
SPECIFICATION SafeSpec
SYMMETRY Symm
INVARIANTS
    TypeOK
    CountsMatchHolders
    NoUseAfterFree
    ObjectOutlivesOwners
    OneReleaser
    MemberReleaseKeepsBlock
PROPERTY NoResurrection
CHECK_DEADLOCK FALSE
