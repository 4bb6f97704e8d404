--------------------------- MODULE MCSharedWeakPtr ---------------------------
(* Small instances of SharedWeakPtr for TLC. *)
EXTENDS SharedWeakPtr, TLC

\* Pointers of one class and threads are interchangeable.
Symm == Permutations(Threads) \cup Permutations(StrongPtrs) \cup Permutations(WeakPtrs)

\* Everything but the two operations that end the program or leave a count.
SharingKinds == AllKinds \ {"watchMove", "lockMove"}

\* The fewest operations that show each divergence.
LockingKinds == {"emplace", "watch", "lock"}
WatchMoveKinds == {"emplace", "watchMove"}
LockMoveKinds == {"emplace", "watch", "reset", "lockMove"}
=============================================================================
