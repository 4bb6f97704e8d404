\* Assigning a strong pointer to a weak one by move.
CONSTANTS
    Threads = {t1, t2, t3}
    StrongPtrs = {s1, s2, s3}
    WeakPtrs = {w1}
    Blocks = {b1}
    NULL = NULL
    Kinds <- WatchMoveKinds
    RefModulus = 10
    MaxLeaks = 1
    DtorMayThrow = FALSE
    AllocMayThrow = FALSE
SPECIFICATION SafeSpec
INVARIANT WeakDoesNotLockObject
