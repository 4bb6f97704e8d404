\* Two threads and two blocks, so that an assignment releases one block while
\* it acquires another: what the pointers promise, with liveness.
CONSTANTS
    Threads = {t1, t2}
    StrongPtrs = {s1, s2}
    WeakPtrs = {w1}
    Blocks = {b1, b2}
    NULL = NULL
    Kinds <- SharingKinds
    RefModulus = 8
    MaxLeaks = 0
    DtorMayThrow = TRUE
    AllocMayThrow = FALSE
SPECIFICATION Spec
INVARIANT WeakDoesNotLockObject
PROPERTY ImplementsLifetime
