---------------------------- MODULE SharedWeakPtr ----------------------------
(***************************************************************************)
(* The shared/weak pointers of _shwkptr.h in a multithreaded build: the    *)
(* control block _SharedWeakPtrContainer with its two atomic counters, and *)
(* SharedStrongPtr and SharedWeakPtr, whose operations threads run         *)
(* concurrently, one atomic access to a counter at a time.                 *)
(*                                                                         *)
(* An operation that replaces a pointer first resets it (the release       *)
(* phase: "decObj" ... "dealloc") and then takes its new value (the        *)
(* acquire phase: "acquire" ... "incObj").  A T may hold a weak pointer to *)
(* its own block; that member is the slot named by the block itself.       *)
(* Blocks are never reused, so a use after the free is visible.            *)
(***************************************************************************)
EXTENDS Naturals, FiniteSets

CONSTANTS
    Threads,        \* the threads that use the pointers
    StrongPtrs,     \* the SharedStrongPtr variables of the client
    WeakPtrs,       \* its SharedWeakPtr variables
    Blocks,         \* the containers that may be allocated
    NULL,           \* the null m_pc
    Kinds,          \* the kinds of operation the client calls
    RefModulus,     \* t_TyRef counts modulo this number
    MaxLeaks,       \* bound: how often WatchMove may leave a count behind
    DtorMayThrow,   \* is_nothrow_destructible_v<T> is false
    AllocMayThrow   \* moving or destroying the allocator may throw

Slots == StrongPtrs \cup WeakPtrs \cup Blocks

AllKinds == {"reset", "emplace", "copy", "move", "lock", "lockOrEmpty",
             "lockMove", "lockSteal", "watch", "watchMove"}

ASSUME FiniteAssumption ==
    IsFiniteSet(Threads) /\ IsFiniteSet(StrongPtrs) /\ IsFiniteSet(WeakPtrs) /\ IsFiniteSet(Blocks)

ASSUME DistinctAssumption ==
    /\ StrongPtrs \cap WeakPtrs = {}
    /\ StrongPtrs \cap Blocks = {}
    /\ WeakPtrs \cap Blocks = {}
    /\ Slots \cap Threads = {}
    /\ NULL \notin Slots \cup Threads

ASSUME KindsAssumption == Kinds \subseteq AllKinds

\* The counters never wrap: t_TyRef counts every pointer there can be at once.
ASSUME RefAssumption ==
    /\ MaxLeaks \in Nat
    /\ RefModulus \in Nat
    /\ Cardinality(Slots) + Cardinality(Threads) + MaxLeaks < RefModulus

ASSUME ThrowAssumption == DtorMayThrow \in BOOLEAN /\ AllocMayThrow \in BOOLEAN

VARIABLES
    ptr,        \* ptr[s]: m_pc of pointer variable s
    nRefWeak,   \* m_nRefWeak of each container
    nRefObj,    \* m_nRefObj of each container
    tyT,        \* m_tyT: "none", "constructed", "destroying" or "destroyed"
    mem,        \* the container: "unused", "allocated", "freed" or "orphaned"
    pc,         \* where each thread is
    op,         \* the operation each thread is in
    blk,        \* the container a thread is releasing or acquiring
    tCur,       \* tCur of FAtomicAddNotEqual
    leaked      \* history: strong counts of a block that no pointer stands for

vars == <<ptr, nRefWeak, nRefObj, tyT, mem, pc, op, blk, tCur, leaked>>

NoOp == [kind |-> "none", dst |-> NULL, src |-> NULL]

LockKinds == {"lock", "lockOrEmpty", "lockMove", "lockSteal"}

\* Kinds that empty their source, and kinds that are constructors only.
MoveKinds == {"move", "lockMove", "lockSteal", "watchMove"}
CtorKinds == {"lockOrEmpty", "lockMove"}

\* What a client may call: every constructor and assignment of the two classes.
Requests ==
    [kind : {"reset", "emplace"}, dst : StrongPtrs \cup WeakPtrs, src : {NULL}]
    \cup [kind : {"copy", "move"}, dst : StrongPtrs, src : StrongPtrs]
    \cup [kind : {"copy", "move"}, dst : WeakPtrs, src : WeakPtrs]
    \cup [kind : LockKinds, dst : StrongPtrs, src : WeakPtrs]
    \cup [kind : {"watch"}, dst : WeakPtrs \cup Blocks, src : StrongPtrs]
    \cup [kind : {"watchMove"}, dst : WeakPtrs, src : StrongPtrs]

Init ==
    /\ ptr = [s \in Slots |-> NULL]
    /\ nRefWeak = [b \in Blocks |-> 0]
    /\ nRefObj = [b \in Blocks |-> 0]
    /\ tyT = [b \in Blocks |-> "none"]
    /\ mem = [b \in Blocks |-> "unused"]
    /\ pc = [t \in Threads |-> "idle"]
    /\ op = [t \in Threads |-> NoOp]
    /\ blk = [t \in Threads |-> NULL]
    /\ tCur = [t \in Threads |-> 0]
    /\ leaked = [b \in Blocks |-> 0]

\* ++ and -- on a counter of type t_TyRef.
Inc(n) == IF n + 1 = RefModulus THEN 0 ELSE n + 1
Dec(n) == IF n = 0 THEN RefModulus - 1 ELSE n - 1

\* The pointer variables an operation writes, and those it uses at all.
Writes(o) == {o.dst} \cup (IF o.kind \in MoveKinds THEN {o.src} ELSE {})
Uses(o) == {o.dst, o.src}

\* Only the counters are atomic, not a pointer variable itself: a client never
\* uses a variable in one thread while another thread writes it.
NoRace(t, r) ==
    \A u \in Threads \ {t} : /\ Writes(r) \cap Uses(op[u]) \subseteq {NULL}
                             /\ Uses(r) \cap Writes(op[u]) \subseteq {NULL}

Finish(t) ==
    /\ pc' = [pc EXCEPT ![t] = "idle"]
    /\ op' = [op EXCEPT ![t] = NoOp]
    /\ blk' = [blk EXCEPT ![t] = NULL]
    /\ tCur' = [tCur EXCEPT ![t] = 0]

At(t, label, kinds) == pc[t] = label /\ op[t].kind \in kinds

-----------------------------------------------------------------------------
(* The start of every operation, and the release phase. *)

\* Mutant of Call: reset() does not null m_pc.
CallKeepsPtr(t, r) ==
    /\ pc[t] = "idle"
    /\ r.kind \in Kinds
    /\ r.kind \in CtorKinds => ptr[r.dst] = NULL
    /\ r.dst \in Blocks => ptr[r.src] = r.dst
    /\ NoRace(t, r)
    /\ op' = [op EXCEPT ![t] = r]
    /\ blk' = [blk EXCEPT ![t] = ptr[r.dst]]
    /\ pc' = [pc EXCEPT ![t] = IF ptr[r.dst] = NULL THEN "acquire"
                               ELSE IF r.dst \in StrongPtrs THEN "decObj" ELSE "decWeak"]
    /\ UNCHANGED <<ptr, nRefWeak, nRefObj, tyT, mem, tCur, leaked>>

\* A call, up to the end of its reset(): m_pc is nulled before the release.
\* A T's member is assigned through a strong pointer to that T.
Call(t, r) ==
    /\ pc[t] = "idle"
    /\ r.kind \in Kinds
    /\ r.kind \in CtorKinds => ptr[r.dst] = NULL
    /\ r.dst \in Blocks => ptr[r.src] = r.dst
    /\ NoRace(t, r)
    /\ op' = [op EXCEPT ![t] = r]
    /\ blk' = [blk EXCEPT ![t] = ptr[r.dst]]
    /\ pc' = [pc EXCEPT ![t] = IF ptr[r.dst] = NULL THEN "acquire"
                               ELSE IF r.dst \in StrongPtrs THEN "decObj" ELSE "decWeak"]
    /\ ptr' = [ptr EXCEPT ![r.dst] = NULL]
    /\ UNCHANGED <<nRefWeak, nRefObj, tyT, mem, tCur, leaked>>

\* swap(): two pointers of the same class, no counter involved.
Swap(t, a, b) ==
    /\ pc[t] = "idle"
    /\ NoRace(t, [kind |-> "move", dst |-> a, src |-> b])
    /\ ptr' = [ptr EXCEPT ![a] = ptr[b], ![b] = ptr[a]]
    /\ UNCHANGED <<nRefWeak, nRefObj, tyT, mem, pc, op, blk, tCur, leaked>>

\* Mutant of DecObj: the count is tested before it is decremented.
DecObjPostfix(t) ==
    /\ pc[t] = "decObj"
    /\ nRefObj' = [nRefObj EXCEPT ![blk[t]] = Dec(@)]
    /\ pc' = [pc EXCEPT ![t] = IF nRefObj[blk[t]] = 0 THEN "destroy" ELSE "decWeak"]
    /\ UNCHANGED <<ptr, nRefWeak, tyT, mem, op, blk, tCur, leaked>>

\* Mutant of DecObj: the weak count goes down with the strong one, before ~T.
DecObjWeakFirst(t) ==
    /\ pc[t] = "decObj"
    /\ nRefObj' = [nRefObj EXCEPT ![blk[t]] = Dec(@)]
    /\ nRefWeak' = [nRefWeak EXCEPT ![blk[t]] = Dec(@)]
    /\ pc' = [pc EXCEPT ![t] = IF nRefObj'[blk[t]] = 0 THEN "destroy" ELSE "acquire"]
    /\ UNCHANGED <<ptr, tyT, mem, op, blk, tCur, leaked>>

\* _DoReleaseStrong: fDeleteT = !--m_nRefObj.
DecObj(t) ==
    /\ pc[t] = "decObj"
    /\ nRefObj' = [nRefObj EXCEPT ![blk[t]] = Dec(@)]
    /\ pc' = [pc EXCEPT ![t] = IF nRefObj'[blk[t]] = 0 THEN "destroy" ELSE "decWeak"]
    /\ UNCHANGED <<ptr, nRefWeak, tyT, mem, op, blk, tCur, leaked>>

\* A destructor that threw either is rethrown when the release is done, and
\* then "the assignment fails", or is swallowed (noexcept, or unwinding).
AfterThrow(t, mayThrow) ==
    \E k \in {op[t].kind} \cup (IF mayThrow THEN {"rethrow"} ELSE {}) :
        op' = [op EXCEPT ![t].kind = k]

\* _DoReleaseStrong: m_tyT.~_TyT(), up to the release of T's weak member.
DestroyT(t) ==
    /\ pc[t] = "destroy"
    /\ LET member == ptr[blk[t]] # NULL
       IN  /\ tyT' = [tyT EXCEPT ![blk[t]] = IF member THEN "destroying" ELSE "destroyed"]
           /\ pc' = [pc EXCEPT ![t] = IF member THEN "dtorMember" ELSE "decWeak"]
    /\ AfterThrow(t, DtorMayThrow)
    /\ UNCHANGED <<ptr, nRefWeak, nRefObj, mem, blk, tCur, leaked>>

\* The nested _DoReleaseWeak of the member, with its own deallocation.
DtorMember(t) ==
    /\ pc[t] = "dtorMember"
    /\ LET own == blk[t]
           c == ptr[own]
       IN  /\ nRefWeak' = [nRefWeak EXCEPT ![c] = Dec(@)]
           /\ mem' = [mem EXCEPT ![c] = IF nRefWeak'[c] = 0 THEN "freed" ELSE @]
           /\ ptr' = [ptr EXCEPT ![own] = NULL]
           /\ tyT' = [tyT EXCEPT ![own] = "destroyed"]
    /\ pc' = [pc EXCEPT ![t] = "decWeak"]
    /\ UNCHANGED <<nRefObj, op, blk, tCur, leaked>>

\* Mutant of DecWeak: the count is tested before it is decremented.
DecWeakPostfix(t) ==
    /\ pc[t] = "decWeak"
    /\ nRefWeak' = [nRefWeak EXCEPT ![blk[t]] = Dec(@)]
    /\ LET last == nRefWeak[blk[t]] = 0
       IN  /\ pc' = [pc EXCEPT ![t] = IF last THEN "dealloc" ELSE "acquire"]
           /\ blk' = [blk EXCEPT ![t] = IF last THEN @ ELSE NULL]
    /\ UNCHANGED <<ptr, nRefObj, tyT, mem, op, tCur, leaked>>

\* _DoReleaseStrong and _DoReleaseWeak: fDeallocateThis = !--m_nRefWeak.
DecWeak(t) ==
    /\ pc[t] = "decWeak"
    /\ nRefWeak' = [nRefWeak EXCEPT ![blk[t]] = Dec(@)]
    /\ LET last == nRefWeak'[blk[t]] = 0
       IN  /\ pc' = [pc EXCEPT ![t] = IF last THEN "dealloc" ELSE "acquire"]
           /\ blk' = [blk EXCEPT ![t] = IF last THEN @ ELSE NULL]
    /\ UNCHANGED <<ptr, nRefObj, tyT, mem, op, tCur, leaked>>

\* The allocator is moved out, deallocates and is destroyed.  If the move throws
\* the block is lost; this exception, or the destructor's, is rethrown or eaten.
Dealloc(t) ==
    /\ pc[t] = "dealloc"
    /\ \/ /\ mem' = [mem EXCEPT ![blk[t]] = "freed"]
          /\ UNCHANGED op
       \/ /\ AllocMayThrow
          /\ \E m \in {"freed", "orphaned"} : mem' = [mem EXCEPT ![blk[t]] = m]
          /\ AfterThrow(t, TRUE)
    /\ pc' = [pc EXCEPT ![t] = "acquire"]
    /\ blk' = [blk EXCEPT ![t] = NULL]
    /\ UNCHANGED <<ptr, nRefWeak, nRefObj, tyT, tCur, leaked>>

-----------------------------------------------------------------------------
(* The acquire phase, one action per way of getting a value.  The variable  *)
(* written belongs to the thread until it finishes: that some constructors  *)
(* set m_pc before they count it makes no difference to anyone.             *)

\* reset(), the destructors, and an assignment whose release threw.
EndReset(t) ==
    /\ At(t, "acquire", {"reset", "rethrow"})
    /\ Finish(t)
    /\ UNCHANGED <<ptr, nRefWeak, nRefObj, tyT, mem, leaked>>

\* PCreate: a container with its object or, for a weak pointer, without; the
\* allocation or a constructor may throw, which leaves nothing behind.
PCreate(t) ==
    /\ At(t, "acquire", {"emplace"})
    /\ \/ UNCHANGED <<ptr, nRefWeak, nRefObj, tyT, mem>>
       \/ \E b \in Blocks :
             /\ mem[b] = "unused"
             /\ mem' = [mem EXCEPT ![b] = "allocated"]
             /\ nRefWeak' = [nRefWeak EXCEPT ![b] = 1]
             /\ ptr' = [ptr EXCEPT ![op[t].dst] = b]
             /\ IF op[t].dst \in StrongPtrs
                THEN /\ nRefObj' = [nRefObj EXCEPT ![b] = 1]
                     /\ tyT' = [tyT EXCEPT ![b] = "constructed"]
                ELSE UNCHANGED <<nRefObj, tyT>>
    /\ Finish(t)
    /\ UNCHANGED leaked

\* Move construction and move assignment within a class.
Move(t) ==
    /\ At(t, "acquire", {"move"})
    /\ ptr' = [ptr EXCEPT ![op[t].src] = NULL, ![op[t].dst] = ptr[op[t].src]]
    /\ Finish(t)
    /\ UNCHANGED <<nRefWeak, nRefObj, tyT, mem, leaked>>

\* SharedWeakPtr::operator=( SharedStrongPtr && ): takes the pointer and leaves
\* the strong count as it was.
WatchMove(t) ==
    /\ At(t, "acquire", {"watchMove"})
    /\ LET b == ptr[op[t].src]
       IN  IF b = NULL THEN UNCHANGED <<ptr, leaked>>
           ELSE /\ leaked[b] < MaxLeaks
                /\ ptr' = [ptr EXCEPT ![op[t].dst] = b, ![op[t].src] = NULL]
                /\ leaked' = [leaked EXCEPT ![b] = @ + 1]
    /\ Finish(t)
    /\ UNCHANGED <<nRefWeak, nRefObj, tyT, mem>>

\* Any other operation finds its source empty.
SourceEmpty(t) ==
    /\ At(t, "acquire", {"copy", "watch"} \cup LockKinds)
    /\ ptr[op[t].src] = NULL
    /\ Finish(t)
    /\ UNCHANGED <<ptr, nRefWeak, nRefObj, tyT, mem, leaked>>

\* Mutant of Copy: the source is not tested for null.
CopyNoNullTest(t) ==
    /\ At(t, "acquire", {"copy", "watch"})
    /\ blk' = [blk EXCEPT ![t] = ptr[op[t].src]]
    /\ pc' = [pc EXCEPT ![t] = "incWeak"]
    /\ UNCHANGED <<ptr, nRefWeak, nRefObj, tyT, mem, op, tCur, leaked>>

\* Copies, and a weak pointer made from a strong one.
Copy(t) ==
    /\ At(t, "acquire", {"copy", "watch"})
    /\ ptr[op[t].src] # NULL
    /\ blk' = [blk EXCEPT ![t] = ptr[op[t].src]]
    /\ pc' = [pc EXCEPT ![t] = "incWeak"]
    /\ UNCHANGED <<ptr, nRefWeak, nRefObj, tyT, mem, op, tCur, leaked>>

\* _AddRefStrongOnly: the load at the head of FAtomicAddNotEqual.
LoadObj(t) ==
    /\ At(t, "acquire", LockKinds)
    /\ ptr[op[t].src] # NULL
    /\ blk' = [blk EXCEPT ![t] = ptr[op[t].src]]
    /\ tCur' = [tCur EXCEPT ![t] = nRefObj[ptr[op[t].src]]]
    /\ pc' = [pc EXCEPT ![t] = "cas"]
    /\ UNCHANGED <<ptr, nRefWeak, nRefObj, tyT, mem, op, leaked>>

\* Mutant of CasObj: a conversion that keeps its source adds no weak count.
CasObjForgetsWeak(t) ==
    /\ pc[t] = "cas"
    /\ tCur[t] # 0
    /\ nRefObj[blk[t]] = tCur[t]
    /\ nRefObj' = [nRefObj EXCEPT ![blk[t]] = Inc(@)]
    /\ ptr' = IF op[t].kind \in MoveKinds
              THEN [ptr EXCEPT ![op[t].src] = NULL, ![op[t].dst] = blk[t]]
              ELSE [ptr EXCEPT ![op[t].dst] = blk[t]]
    /\ Finish(t)
    /\ UNCHANGED <<nRefWeak, tyT, mem, leaked>>

\* Mutant of CasObj: a store of tCur + 1 instead of a compare and exchange.
CasObjStores(t) ==
    /\ pc[t] = "cas"
    /\ tCur[t] # 0
    /\ nRefObj' = [nRefObj EXCEPT ![blk[t]] = Inc(tCur[t])]
    /\ IF op[t].kind \in MoveKinds
       THEN /\ ptr' = [ptr EXCEPT ![op[t].src] = NULL, ![op[t].dst] = blk[t]]
            /\ Finish(t)
       ELSE /\ pc' = [pc EXCEPT ![t] = "incWeak"]
            /\ UNCHANGED <<ptr, op, blk, tCur>>
    /\ UNCHANGED <<nRefWeak, tyT, mem, leaked>>

\* Mutant of CasObj: no test for zero.
CasObjFromZero(t) ==
    /\ pc[t] = "cas"
    /\ nRefObj[blk[t]] = tCur[t]
    /\ nRefObj' = [nRefObj EXCEPT ![blk[t]] = Inc(@)]
    /\ IF op[t].kind \in MoveKinds
       THEN /\ ptr' = [ptr EXCEPT ![op[t].src] = NULL, ![op[t].dst] = blk[t]]
            /\ Finish(t)
       ELSE /\ pc' = [pc EXCEPT ![t] = "incWeak"]
            /\ UNCHANGED <<ptr, op, blk, tCur>>
    /\ UNCHANGED <<nRefWeak, tyT, mem, leaked>>

\* compare_exchange_weak succeeds.  A conversion from a weak pointer that may
\* be emptied inherits its weak count.
CasObj(t) ==
    /\ pc[t] = "cas"
    /\ tCur[t] # 0
    /\ nRefObj[blk[t]] = tCur[t]
    /\ nRefObj' = [nRefObj EXCEPT ![blk[t]] = Inc(@)]
    /\ IF op[t].kind \in MoveKinds
       THEN /\ ptr' = [ptr EXCEPT ![op[t].src] = NULL, ![op[t].dst] = blk[t]]
            /\ Finish(t)
       ELSE /\ pc' = [pc EXCEPT ![t] = "incWeak"]
            /\ UNCHANGED <<ptr, op, blk, tCur>>
    /\ UNCHANGED <<nRefWeak, tyT, mem, leaked>>

\* compare_exchange_weak fails, perhaps spuriously, and reloads tCur.
CasFail(t) ==
    /\ pc[t] = "cas"
    /\ tCur[t] # 0
    /\ tCur' = [tCur EXCEPT ![t] = nRefObj[blk[t]]]
    /\ UNCHANGED <<ptr, nRefWeak, nRefObj, tyT, mem, pc, op, blk, leaked>>

\* The object is gone: the conversion throws or leaves the pointer empty; the
\* exception out of the noexcept move constructor ends the program.
LockExpired(t) ==
    /\ pc[t] = "cas"
    /\ tCur[t] = 0
    /\ IF op[t].kind = "lockMove"
       THEN /\ pc' = [pc EXCEPT ![t] = "terminated"]
            /\ UNCHANGED <<op, blk, tCur>>
       ELSE Finish(t)
    /\ UNCHANGED <<ptr, nRefWeak, nRefObj, tyT, mem, leaked>>

\* ++m_nRefWeak, of _AddRefWeakNoThrow or the first half of _AddRefStrongNoThrow.
IncWeak(t) ==
    /\ pc[t] = "incWeak"
    /\ nRefWeak' = [nRefWeak EXCEPT ![blk[t]] = Inc(@)]
    /\ IF op[t].kind = "copy" /\ op[t].dst \in StrongPtrs
       THEN /\ pc' = [pc EXCEPT ![t] = "incObj"]
            /\ UNCHANGED <<ptr, op, blk, tCur>>
       ELSE /\ ptr' = [ptr EXCEPT ![op[t].dst] = blk[t]]
            /\ Finish(t)
    /\ UNCHANGED <<nRefObj, tyT, mem, leaked>>

\* ++m_nRefObj, the second half of _AddRefStrongNoThrow.
IncObj(t) ==
    /\ pc[t] = "incObj"
    /\ nRefObj' = [nRefObj EXCEPT ![blk[t]] = Inc(@)]
    /\ ptr' = [ptr EXCEPT ![op[t].dst] = blk[t]]
    /\ Finish(t)
    /\ UNCHANGED <<nRefWeak, tyT, mem, leaked>>

-----------------------------------------------------------------------------
Release(t) == DecObj(t) \/ DestroyT(t) \/ DtorMember(t) \/ DecWeak(t) \/ Dealloc(t)

Acquire(t) ==
    \/ EndReset(t) \/ PCreate(t) \/ Move(t) \/ WatchMove(t) \/ SourceEmpty(t)
    \/ Copy(t) \/ LoadObj(t) \/ CasObj(t) \/ CasFail(t) \/ LockExpired(t)
    \/ IncWeak(t) \/ IncObj(t)

Begin(t) ==
    \/ \E r \in Requests : Call(t, r)
    \/ \E a, b \in StrongPtrs : Swap(t, a, b)
    \/ \E a, b \in WeakPtrs : Swap(t, a, b)

\* std::terminate stops every thread.
Terminated == \E t \in Threads : pc[t] = "terminated"

Next == ~Terminated /\ \E t \in Threads : Begin(t) \/ Release(t) \/ Acquire(t)

\* A thread in the middle of a release is eventually scheduled; no release has
\* a loop.  Clients need not call anything.
Fairness == \A t \in Threads : WF_vars(Release(t))

SafeSpec == Init /\ [][Next]_vars

Spec == SafeSpec /\ Fairness

-----------------------------------------------------------------------------
(* Who a count stands for. *)

\* A thread between two steps of an operation may stand for a count itself.
HoldsObj(t) == pc[t] = "decObj" \/ At(t, "incWeak", LockKinds)
HoldsMem(t) == pc[t] \in {"decObj", "destroy", "dtorMember", "decWeak", "incObj"}

ObjHolders(b) == {s \in StrongPtrs : ptr[s] = b} \cup {t \in Threads : blk[t] = b /\ HoldsObj(t)}
MemHolders(b) == {s \in Slots : ptr[s] = b} \cup {t \in Threads : blk[t] = b /\ HoldsMem(t)}

-----------------------------------------------------------------------------
(* Properties. *)

\* Every variable has its type, and a thread that is about to touch a counter
\* has a container to touch: m_pc was tested for null first.
TypeOK ==
    /\ ptr \in [Slots -> Blocks \cup {NULL}]
    /\ nRefWeak \in [Blocks -> 0 .. RefModulus - 1]
    /\ nRefObj \in [Blocks -> 0 .. RefModulus - 1]
    /\ tyT \in [Blocks -> {"none", "constructed", "destroying", "destroyed"}]
    /\ mem \in [Blocks -> {"unused", "allocated", "freed", "orphaned"}]
    /\ pc \in [Threads -> {"idle", "decObj", "destroy", "dtorMember", "decWeak", "dealloc",
                           "acquire", "cas", "incWeak", "incObj", "terminated"}]
    /\ op \in [Threads -> [kind : AllKinds \cup {"none", "rethrow"},
                           dst : Slots \cup {NULL}, src : Slots \cup {NULL}]]
    /\ blk \in [Threads -> Blocks \cup {NULL}]
    /\ tCur \in [Threads -> 0 .. RefModulus - 1]
    /\ leaked \in [Blocks -> 0 .. MaxLeaks]
    /\ \A t \in Threads : pc[t] \in {"idle", "acquire"} <=> blk[t] = NULL

\* Between any two atomic accesses, each counter is exactly the number of
\* pointers and threads that stand for a count in it: no interleaving of
\* copies, conversions and releases loses or invents a reference.
CountsMatchHolders ==
    \A b \in Blocks :
        /\ nRefWeak[b] = Cardinality(MemHolders(b))
        /\ nRefObj[b] = Cardinality(ObjHolders(b)) + leaked[b]

\* No pointer, and no thread in the middle of an operation, ever refers to a
\* container that was given back: neither the releases nor the conversions,
\* which count the object before they count the memory, touch freed memory.
NoUseAfterFree ==
    /\ \A s \in Slots : ptr[s] # NULL => mem[ptr[s]] = "allocated"
    /\ \A t \in Threads : blk[t] # NULL => mem[blk[t]] = "allocated"

\* While a strong pointer or a successful conversion holds a block, the T in
\* it is constructed and its destructor has not begun.
ObjectOutlivesOwners ==
    \A b \in Blocks : ObjHolders(b) # {} => tyT[b] = "constructed"

\* Of all the threads that drop the last counts at once, one destroys the T,
\* which is still constructed then, and one deallocates the container.
OneReleaser ==
    \A t \in Threads :
        /\ pc[t] = "destroy" => tyT[blk[t]] = "constructed"
        /\ \A u \in Threads \ {t} :
              blk[u] = blk[t] =>
                 /\ pc[t] \in {"destroy", "dtorMember"} => pc[u] \notin {"destroy", "dtorMember"}
                 /\ pc[t] # "dealloc"

\* T's destructor releases its own weak pointer to the block while the strong
\* release still holds the block: "Don't decrement the weak count until after
\* destructing T in case it had a weak pointer to this."
MemberReleaseKeepsBlock ==
    \A t \in Threads : pc[t] = "dtorMember" => nRefWeak[blk[t]] > 1

\* A weak pointer does not prolong the life of the object: a constructed T
\* that nobody owns is about to be destroyed by the thread that let go last.
WeakDoesNotLockObject ==
    \A b \in Blocks :
        tyT[b] = "constructed" /\ ObjHolders(b) = {} =>
            \E t \in Threads : pc[t] = "destroy" /\ blk[t] = b

\* Once the object count has hit zero no step of a conversion raises it again.
NoResurrection ==
    [][\A b \in Blocks : mem[b] # "unused" /\ nRefObj[b] = 0 => nRefObj'[b] = 0]_vars

\* Without WatchMove and a throwing allocator the pointers implement
\* SharedLifetime: its owners are the holders of the object count, its
\* watchers the holders of the memory count.
Lifetime == INSTANCE SharedLifetime WITH
    obj <- [b \in Blocks |-> IF tyT[b] = "destroying" THEN "constructed" ELSE tyT[b]],
    owned <- [b \in Blocks |-> ObjHolders(b) # {}],
    watched <- [b \in Blocks |-> MemHolders(b) # {}]

\* Safety and liveness of SharedLifetime: in particular an object nobody owns
\* is eventually destroyed, and a block nobody refers to eventually freed.
ImplementsLifetime == Lifetime!Spec

-----------------------------------------------------------------------------
(* What the code says of itself that does not hold. *)

\* The AssertValid( true ) at the head of _DoReleaseStrong: the object is owned
\* and "_NGetWeakRef() >= _NGetStrongRef()".
ReleaseAssertion ==
    \A t \in Threads :
        pc[t] = "decObj" => nRefObj[blk[t]] # 0 /\ nRefWeak[blk[t]] >= nRefObj[blk[t]]
=============================================================================
