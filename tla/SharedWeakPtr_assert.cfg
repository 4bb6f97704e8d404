\* Two conversions from one weak pointer while a third thread releases.
CONSTANTS
    Threads = {t1, t2, t3}
    StrongPtrs = {s1, s2, s3}
    WeakPtrs = {w1}
    Blocks = {b1}
    NULL = NULL
    Kinds <- LockingKinds
    RefModulus = 10
    MaxLeaks = 0
    DtorMayThrow = FALSE
    AllocMayThrow = FALSE
SPECIFICATION SafeSpec
INVARIANT ReleaseAssertion
