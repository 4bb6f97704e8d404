------------------------ MODULE SharedWeakPtr_proofs ------------------------
(***************************************************************************)
(* Proofs about SharedWeakPtr, for any number of threads, pointers and     *)
(* blocks: the counters are exact, nothing is used after it was freed, and *)
(* an owned object is not destroyed.                                       *)
(***************************************************************************)
EXTENDS SharedWeakPtr, FiniteSetTheorems, TLAPS

-----------------------------------------------------------------------------
(* The inductive invariant. *)

\* What the operation of a thread looks like at each of its steps.
OpInv(t) ==
    LET o == op[t]
    IN  /\ pc[t] = "idle" <=> o.kind = "none"
        /\ o.kind = "none" => o = NoOp
        /\ o.kind # "none" => o.dst \in Slots /\ ptr[o.dst] = NULL
        /\ o.src \in StrongPtrs \cup WeakPtrs \cup {NULL}
        /\ o.kind = "emplace" => o.dst \in StrongPtrs \cup WeakPtrs
        /\ o.kind \in {"copy", "move"} => \/ o.dst \in StrongPtrs /\ o.src \in StrongPtrs
                                          \/ o.dst \in WeakPtrs /\ o.src \in WeakPtrs
        /\ o.kind \in LockKinds => o.dst \in StrongPtrs /\ o.src \in WeakPtrs
        /\ o.kind = "watch" => o.dst \in WeakPtrs \cup Blocks /\ o.src \in StrongPtrs
        /\ o.kind = "watch" /\ o.dst \in Blocks => ptr[o.src] = o.dst
        /\ o.kind = "watchMove" => o.dst \in WeakPtrs /\ o.src \in StrongPtrs
        /\ pc[t] = "cas" => o.kind \in LockKinds
        /\ pc[t] = "incWeak" => o.kind \in {"copy", "watch", "lock", "lockOrEmpty"}
        /\ pc[t] = "incObj" => o.kind = "copy" /\ o.dst \in StrongPtrs
        /\ pc[t] = "terminated" => o.kind = "lockMove"
        /\ pc[t] \in {"cas", "incWeak", "incObj", "terminated"} => ptr[o.src] = blk[t]

\* No thread uses a pointer variable that another one writes.
Apart(t, u) == Writes(op[t]) \cap Uses(op[u]) \subseteq {NULL}

\* The counters are exact (CountsMatchHolders for one block).
CountInv(b) ==
    /\ nRefWeak[b] = Cardinality(MemHolders(b))
    /\ nRefObj[b] = Cardinality(ObjHolders(b)) + leaked[b]

\* The life of a block and of its object.
BlockInv(b) ==
    /\ mem[b] # "allocated" => MemHolders(b) = {} /\ ObjHolders(b) = {}
    /\ mem[b] = "unused" => leaked[b] = 0 /\ tyT[b] = "none"
    /\ nRefObj[b] # 0 => tyT[b] = "constructed"
    /\ ptr[b] \in {b, NULL}

\* What a thread knows of the block it works on.
ThreadInv(t) ==
    /\ blk[t] # NULL => mem[blk[t]] = "allocated"
    /\ pc[t] = "destroy" => nRefObj[blk[t]] = 0 /\ tyT[blk[t]] = "constructed"
    /\ pc[t] = "dtorMember" =>
          nRefObj[blk[t]] = 0 /\ tyT[blk[t]] = "destroying" /\ ptr[blk[t]] # NULL
    /\ pc[t] = "dealloc" => nRefWeak[blk[t]] = 0

\* Two threads that work on the same block.
PairInv(t, u) ==
    blk[t] # NULL /\ blk[t] = blk[u] =>
        /\ ~(pc[t] \in {"destroy", "dtorMember"} /\ pc[u] \in {"destroy", "dtorMember"})
        /\ pc[t] # "dealloc"

IInv ==
    /\ TypeOK
    /\ \A t \in Threads : OpInv(t)
    /\ \A t, u \in Threads : t # u => Apart(t, u)
    /\ \A b \in Blocks : CountInv(b)
    /\ \A b \in Blocks : BlockInv(b)
    /\ \A t \in Threads : ThreadInv(t)
    /\ \A t, u \in Threads : t # u => PairInv(t, u)

-----------------------------------------------------------------------------
(* Counting. *)

\* The holders of a block are finitely many, fewer than the counters can count.
LEMMA HoldersFinite ==
    ASSUME NEW b
    PROVE  /\ IsFiniteSet(MemHolders(b)) /\ IsFiniteSet(ObjHolders(b))
           /\ MemHolders(b) \subseteq Slots \cup Threads
           /\ ObjHolders(b) \subseteq Slots \cup Threads
<1>1. IsFiniteSet(Slots \cup Threads)
  BY FiniteAssumption, FS_Union DEF Slots
<1>2. /\ MemHolders(b) \subseteq Slots \cup Threads
      /\ ObjHolders(b) \subseteq Slots \cup Threads
  BY DEF MemHolders, ObjHolders, Slots
<1> QED
  BY <1>1, <1>2, FS_Subset

LEMMA HoldersFit ==
    ASSUME NEW S \in SUBSET (Slots \cup Threads)
    PROVE  /\ IsFiniteSet(S)
           /\ Cardinality(S) \in Nat
           /\ Cardinality(S) + MaxLeaks < RefModulus
<1>1. /\ IsFiniteSet(Slots) /\ IsFiniteSet(Threads)
      /\ IsFiniteSet(Slots \cup Threads)
      /\ Slots \cap Threads = {}
  BY FiniteAssumption, DistinctAssumption, FS_Union DEF Slots
<1>2. Cardinality(Slots \cup Threads) = Cardinality(Slots) + Cardinality(Threads)
  <2>1. Cardinality(Slots \cap Threads) = 0
    BY <1>1, FS_EmptySet
  <2>2. Cardinality(Slots \cup Threads)
          = Cardinality(Slots) + Cardinality(Threads) - Cardinality(Slots \cap Threads)
    BY <1>1, FS_Union
  <2>3. Cardinality(Slots) \in Nat /\ Cardinality(Threads) \in Nat
    BY <1>1, FS_CardinalityType
  <2> QED
    BY <2>1, <2>2, <2>3
<1>3. IsFiniteSet(S) /\ Cardinality(S) <= Cardinality(Slots \cup Threads)
  BY <1>1, FS_Subset
<1> QED
  BY <1>1, <1>2, <1>3, RefAssumption, FS_CardinalityType

\* A count goes from one holder to another, to a new one, or away.
LEMMA Handed ==
    ASSUME NEW S, IsFiniteSet(S), NEW x \in S, NEW y, y \notin S
    PROVE  Cardinality((S \ {x}) \cup {y}) = Cardinality(S)
<1>1. IsFiniteSet(S \ {x}) /\ Cardinality(S \ {x}) = Cardinality(S) - 1
  BY FS_RemoveElement
<1>2. Cardinality((S \ {x}) \cup {y}) = Cardinality(S \ {x}) + 1
  BY <1>1, FS_AddElement
<1> QED
  BY <1>1, <1>2, FS_CardinalityType

LEMMA Taken ==
    ASSUME NEW S, IsFiniteSet(S), NEW y, y \notin S
    PROVE  Cardinality(S \cup {y}) = Cardinality(S) + 1
  BY FS_AddElement

LEMMA Dropped ==
    ASSUME NEW S, IsFiniteSet(S), NEW x \in S
    PROVE  /\ Cardinality(S) \in Nat \ {0}
           /\ Cardinality(S \ {x}) = Cardinality(S) - 1
  BY FS_RemoveElement, FS_CardinalityType, FS_EmptySet

\* A holder is a count of at least one.
LEMMA Counted ==
    ASSUME TypeOK, NEW b \in Blocks, CountInv(b)
    PROVE  /\ MemHolders(b) # {} <=> nRefWeak[b] # 0
           /\ ObjHolders(b) # {} => nRefObj[b] # 0
           /\ nRefWeak[b] \in Nat /\ nRefObj[b] \in Nat /\ leaked[b] \in Nat
<1>1. /\ IsFiniteSet(MemHolders(b)) /\ IsFiniteSet(ObjHolders(b))
      /\ Cardinality(MemHolders(b)) \in Nat /\ Cardinality(ObjHolders(b)) \in Nat
  BY HoldersFinite, FS_CardinalityType
<1>2. leaked[b] \in Nat /\ nRefWeak[b] \in Nat /\ nRefObj[b] \in Nat
  BY RefAssumption DEF TypeOK
<1> QED
  BY <1>1, <1>2, FS_EmptySet DEF CountInv

LEMMA RefPositive == RefModulus \in Nat /\ RefModulus > 0 /\ 0 \in 0 .. RefModulus - 1
  BY HoldersFit, FS_EmptySet, RefAssumption

\* ++ and -- do not wrap.
LEMMA NoWrap ==
    ASSUME NEW n \in Nat
    PROVE  /\ n + 1 < RefModulus => Inc(n) = n + 1
           /\ n # 0 => Dec(n) = n - 1
           /\ n < RefModulus => Inc(n) \in 0 .. RefModulus - 1 /\ Dec(n) \in 0 .. RefModulus - 1
  BY RefAssumption DEF Inc, Dec

-----------------------------------------------------------------------------
LEMMA InitInv == Init => IInv
<1> SUFFICES ASSUME Init PROVE IInv
  OBVIOUS
<1>1. TypeOK
  BY RefPositive, RefAssumption DEF Init, TypeOK, NoOp
<1>2. \A b \in Blocks : MemHolders(b) = {} /\ ObjHolders(b) = {}
  BY DistinctAssumption DEF Init, MemHolders, ObjHolders, HoldsObj, HoldsMem, At, Slots
<1>3. \A t \in Threads : OpInv(t) /\ ThreadInv(t)
  BY DEF Init, OpInv, ThreadInv, NoOp, LockKinds
<1>4. \A t, u \in Threads : Apart(t, u) /\ PairInv(t, u)
  BY DEF Init, Apart, PairInv, NoOp, Writes, Uses, MoveKinds
<1>5. \A b \in Blocks : CountInv(b) /\ BlockInv(b)
  BY <1>2, FS_EmptySet DEF Init, CountInv, BlockInv, Slots
<1> QED
  BY <1>1, <1>3, <1>4, <1>5 DEF IInv

-----------------------------------------------------------------------------
(* Every step keeps the types. *)

USE DEF At

\* Where a thread is tells what its operation refers to.
LEMMA Refers ==
    ASSUME TypeOK, NEW t \in Threads, OpInv(t)
    PROVE  /\ pc[t] \notin {"idle", "acquire"} => blk[t] \in Blocks
           /\ pc[t] # "idle" => op[t].dst \in Slots
           /\ op[t].kind \in {"copy", "move", "watch", "watchMove"} \cup LockKinds =>
                 op[t].src \in Slots /\ ptr[op[t].src] \in Blocks \cup {NULL}
           /\ op[t].kind \in AllKinds \cup {"none", "rethrow"}
           /\ op[t] = [kind |-> op[t].kind, dst |-> op[t].dst, src |-> op[t].src]
  BY DEF TypeOK, OpInv, Slots, LockKinds

\* The end of an operation leaves the locals of a thread as they began.
LEMMA FinishType ==
    ASSUME TypeOK, NEW t \in Threads, Finish(t)
    PROVE  /\ pc' = [pc EXCEPT ![t] = "idle"] /\ pc'[t] = "idle"
           /\ op' = [op EXCEPT ![t] = NoOp] /\ op'[t] = NoOp
           /\ blk' = [blk EXCEPT ![t] = NULL] /\ blk'[t] = NULL
           /\ pc' \in [Threads -> {"idle", "decObj", "destroy", "dtorMember", "decWeak", "dealloc",
                           "acquire", "cas", "incWeak", "incObj", "terminated"}]
           /\ op' \in [Threads -> [kind : AllKinds \cup {"none", "rethrow"},
                           dst : Slots \cup {NULL}, src : Slots \cup {NULL}]]
           /\ blk' \in [Threads -> Blocks \cup {NULL}]
           /\ tCur' \in [Threads -> 0 .. RefModulus - 1]
           /\ \A u \in Threads : pc'[u] \in {"idle", "acquire"} <=> blk'[u] = NULL
<1> USE RefPositive DEF TypeOK, Finish
<1>1. /\ pc' = [pc EXCEPT ![t] = "idle"] /\ pc'[t] = "idle"
      /\ op' = [op EXCEPT ![t] = NoOp] /\ op'[t] = NoOp
      /\ blk' = [blk EXCEPT ![t] = NULL] /\ blk'[t] = NULL
  OBVIOUS
<1>2. NoOp \in [kind : AllKinds \cup {"none", "rethrow"},
                dst : Slots \cup {NULL}, src : Slots \cup {NULL}]
  BY DEF NoOp
<1>3. \A u \in Threads : pc'[u] \in {"idle", "acquire"} <=> blk'[u] = NULL
  OBVIOUS
<1> QED
  BY <1>1, <1>2, <1>3

\* A thread that has just thrown is still in its operation.
LEMMA ThrowType ==
    ASSUME TypeOK, NEW t \in Threads, NEW m \in BOOLEAN, AfterThrow(t, m)
    PROVE  /\ op' \in [Threads -> [kind : AllKinds \cup {"none", "rethrow"},
                           dst : Slots \cup {NULL}, src : Slots \cup {NULL}]]
           /\ \A u \in Threads \ {t} : op'[u] = op[u]
           /\ op'[t].dst = op[t].dst /\ op'[t].src = op[t].src
           /\ op'[t].kind \in {op[t].kind, "rethrow"}
<1>1. PICK k \in {op[t].kind, "rethrow"} : op' = [op EXCEPT ![t].kind = k]
  BY DEF AfterThrow
<1>2. k \in AllKinds \cup {"none", "rethrow"}
  BY <1>1 DEF TypeOK
<1> QED
  BY <1>1, <1>2, ZenonT(60) DEF TypeOK

LEMMA TypeStep ==
    ASSUME TypeOK, \A u \in Threads : OpInv(u),
           NEW t \in Threads, Begin(t) \/ Release(t) \/ Acquire(t)
    PROVE  TypeOK'
<1> USE RefPositive, RefAssumption, ThrowAssumption
<1>0. /\ NULL \notin Blocks
      /\ pc[t] \notin {"idle", "acquire"} => blk[t] \in Blocks
      /\ pc[t] # "idle" => op[t].dst \in Slots
      /\ op[t].kind \in {"copy", "move", "watch", "watchMove"} \cup LockKinds =>
            op[t].src \in Slots /\ ptr[op[t].src] \in Blocks \cup {NULL}
      /\ op[t].kind \in MoveKinds =>
            op[t].kind \in {"copy", "move", "watch", "watchMove"} \cup LockKinds
  BY DistinctAssumption, Refers DEF Slots, MoveKinds, LockKinds
<1>1. ASSUME NEW r \in Requests, Call(t, r) PROVE TypeOK'
  <2>1. /\ r \in [kind : AllKinds \cup {"none", "rethrow"}, dst : Slots \cup {NULL}, src : Slots \cup {NULL}]
        /\ r.dst \in Slots
    BY DEF Requests, AllKinds, LockKinds, Slots
  <2> QED
    BY <1>1, <2>1 DEF Call, TypeOK
<1>2. ASSUME NEW a \in Slots, NEW b \in Slots, Swap(t, a, b) PROVE TypeOK'
  BY <1>2 DEF Swap, TypeOK
<1>3. CASE DecObj(t)
  BY <1>0, <1>3, NoWrap DEF DecObj, TypeOK
<1>4. CASE DestroyT(t)
  <2>1. AfterThrow(t, DtorMayThrow)
    BY <1>4 DEF DestroyT
  <2> QED
    BY <1>0, <1>4, <2>1, ThrowType DEF DestroyT, TypeOK
<1>5. CASE DtorMember(t)
  <2>1. \A n \in 0 .. RefModulus - 1 : Dec(n) \in 0 .. RefModulus - 1
    BY NoWrap
  <2>2. nRefWeak' \in [Blocks -> 0 .. RefModulus - 1]
    BY <1>5, <2>1, ZenonT(60) DEF DtorMember, TypeOK
  <2>3. mem' \in [Blocks -> {"unused", "allocated", "freed", "orphaned"}]
    BY <1>5 DEF DtorMember, TypeOK
  <2> QED
    BY <1>0, <1>5, <2>2, <2>3 DEF DtorMember, TypeOK
<1>6. CASE DecWeak(t)
  BY <1>0, <1>6, NoWrap DEF DecWeak, TypeOK
<1>7. CASE Dealloc(t)
  <2>1. op' \in [Threads -> [kind : AllKinds \cup {"none", "rethrow"},
                             dst : Slots \cup {NULL}, src : Slots \cup {NULL}]]
    BY <1>7, ThrowType DEF Dealloc, TypeOK
  <2>2. mem' \in [Blocks -> {"unused", "allocated", "freed", "orphaned"}]
    <3>1. \E m \in {"freed", "orphaned"} : mem' = [mem EXCEPT ![blk[t]] = m]
      BY <1>7 DEF Dealloc
    <3> QED
      BY <3>1 DEF TypeOK
  <2> QED
    BY <1>0, <1>7, <2>1, <2>2 DEF Dealloc, TypeOK
<1>8. CASE EndReset(t)
  BY <1>8, FinishType DEF EndReset, TypeOK
<1>9. CASE PCreate(t)
  <2>1. Finish(t)
    BY <1>9 DEF PCreate
  <2>2. 1 \in 0 .. RefModulus - 1
    <3>1. Cardinality({t}) = 1 /\ {t} \in SUBSET (Slots \cup Threads)
      BY FS_Singleton
    <3> QED
      BY <3>1, HoldersFit
  <2>3. CASE UNCHANGED <<ptr, nRefWeak, nRefObj, tyT, mem>>
    BY <1>9, <2>1, <2>3, FinishType DEF PCreate, TypeOK
  <2>4. ASSUME NEW b \in Blocks,
               mem' = [mem EXCEPT ![b] = "allocated"],
               nRefWeak' = [nRefWeak EXCEPT ![b] = 1],
               ptr' = [ptr EXCEPT ![op[t].dst] = b],
               IF op[t].dst \in StrongPtrs
               THEN /\ nRefObj' = [nRefObj EXCEPT ![b] = 1]
                    /\ tyT' = [tyT EXCEPT ![b] = "constructed"]
               ELSE UNCHANGED <<nRefObj, tyT>>
        PROVE  TypeOK'
    <3>1. /\ ptr' \in [Slots -> Blocks \cup {NULL}]
          /\ nRefWeak' \in [Blocks -> 0 .. RefModulus - 1]
          /\ nRefObj' \in [Blocks -> 0 .. RefModulus - 1]
          /\ tyT' \in [Blocks -> {"none", "constructed", "destroying", "destroyed"}]
          /\ mem' \in [Blocks -> {"unused", "allocated", "freed", "orphaned"}]
      BY <2>2, <2>4 DEF TypeOK
    <3> QED
      BY <1>9, <2>1, <3>1, FinishType DEF PCreate, TypeOK
  <2> QED
    BY <1>9, <2>3, <2>4 DEF PCreate
<1>10. CASE Move(t)
  BY <1>0, <1>10, FinishType DEF Move, TypeOK
<1>11. CASE WatchMove(t)
  <2>1. Finish(t)
    BY <1>11 DEF WatchMove
  <2>2. ptr' \in [Slots -> Blocks \cup {NULL}] /\ leaked' \in [Blocks -> 0 .. MaxLeaks]
    <3>1. CASE ptr[op[t].src] = NULL
      BY <1>11, <3>1 DEF WatchMove, TypeOK
    <3>2. CASE ptr[op[t].src] # NULL
      <4>1. PICK c \in Blocks : c = ptr[op[t].src]
        BY <1>0, <1>11, <3>2 DEF WatchMove
      <4>2. /\ leaked[c] < MaxLeaks
            /\ ptr' = [ptr EXCEPT ![op[t].dst] = c, ![op[t].src] = NULL]
            /\ leaked' = [leaked EXCEPT ![c] = @ + 1]
        BY <1>11, <3>2, <4>1 DEF WatchMove
      <4>3. ptr' \in [Slots -> Blocks \cup {NULL}]
        BY <4>1, <4>2 DEF TypeOK
      <4>4. leaked[c] + 1 \in 0 .. MaxLeaks
        BY <4>1, <4>2 DEF TypeOK
      <4>5. leaked' \in [Blocks -> 0 .. MaxLeaks]
        BY <4>1, <4>2, <4>4 DEF TypeOK
      <4> QED
        BY <4>3, <4>5
    <3> QED
      BY <3>1, <3>2
  <2> QED
    BY <1>11, <2>1, <2>2, FinishType DEF WatchMove, TypeOK
<1>12. CASE SourceEmpty(t)
  BY <1>12, FinishType DEF SourceEmpty, TypeOK
<1>13. CASE Copy(t)
  BY <1>0, <1>13 DEF Copy, TypeOK
<1>14. CASE LoadObj(t)
  BY <1>0, <1>14 DEF LoadObj, TypeOK
<1>15. CASE CasObj(t)
  <2>0. nRefObj' \in [Blocks -> 0 .. RefModulus - 1]
    BY <1>15, NoWrap DEF CasObj, TypeOK
  <2>1. CASE op[t].kind \in MoveKinds
    <3>1. Finish(t)
      BY <1>15, <2>1 DEF CasObj
    <3>2. ptr' \in [Slots -> Blocks \cup {NULL}]
      BY <1>0, <1>15, <2>1 DEF CasObj, TypeOK
    <3> QED
      BY <1>15, <2>0, <3>1, <3>2, FinishType DEF CasObj, TypeOK
  <2>2. CASE op[t].kind \notin MoveKinds
    <3>1. /\ pc[t] = "cas" /\ pc' = [pc EXCEPT ![t] = "incWeak"]
          /\ UNCHANGED <<ptr, nRefWeak, tyT, mem, op, blk, tCur, leaked>>
      BY <1>15, <2>2 DEF CasObj
    <3>2. blk[t] # NULL
      BY <1>0, <3>1
    <3> QED
      BY <2>0, <3>1, <3>2 DEF TypeOK
  <2> QED
    BY <2>1, <2>2
<1>16. CASE CasFail(t)
  BY <1>0, <1>16 DEF CasFail, TypeOK
<1>17. CASE LockExpired(t)
  <2>1. CASE op[t].kind = "lockMove"
    BY <1>0, <1>17, <2>1, ZenonT(60) DEF LockExpired, TypeOK
  <2>2. CASE op[t].kind # "lockMove"
    <3>1. Finish(t)
      BY <1>17, <2>2 DEF LockExpired
    <3> QED
      BY <1>17, <3>1, FinishType DEF LockExpired, TypeOK
  <2> QED
    BY <2>1, <2>2
<1>18. CASE IncWeak(t)
  <2>0. nRefWeak' \in [Blocks -> 0 .. RefModulus - 1]
    BY <1>18, NoWrap DEF IncWeak, TypeOK
  <2>1. CASE op[t].kind = "copy" /\ op[t].dst \in StrongPtrs
    BY <1>0, <1>18, <2>0, <2>1, ZenonT(60) DEF IncWeak, TypeOK
  <2>2. CASE ~(op[t].kind = "copy" /\ op[t].dst \in StrongPtrs)
    <3>1. Finish(t)
      BY <1>18, <2>2 DEF IncWeak
    <3>2. ptr' \in [Slots -> Blocks \cup {NULL}]
      BY <1>0, <1>18, <2>2 DEF IncWeak, TypeOK
    <3> QED
      BY <1>18, <2>0, <3>1, <3>2, FinishType DEF IncWeak, TypeOK
  <2> QED
    BY <2>1, <2>2
<1>19. CASE IncObj(t)
  <2>1. Finish(t)
    BY <1>19 DEF IncObj
  <2> QED
    BY <1>0, <1>19, <2>1, FinishType, NoWrap DEF IncObj, TypeOK
<1> QED
  BY <1>1, <1>2, <1>3, <1>4, <1>5, <1>6, <1>7, <1>8, <1>9, <1>10, <1>11, <1>12,
     <1>13, <1>14, <1>15, <1>16, <1>17, <1>18, <1>19 DEF Begin, Release, Acquire, Slots

-----------------------------------------------------------------------------
(* Every step keeps the operations in order and apart. *)

\* A thread whose own variables and pointers a step leaves alone.
LEMMA OtherOp ==
    ASSUME NEW u \in Threads, OpInv(u),
           pc'[u] = pc[u], op'[u] = op[u], blk'[u] = blk[u],
           \A s \in Slots : s \in Uses(op[u]) => ptr'[s] = ptr[s]
    PROVE  OpInv(u)'
  BY DEF OpInv, Uses, Slots, LockKinds

\* A step of t that goes on with the operation of t, throws out of it or ends it.
LEMMA StillApart ==
    ASSUME TypeOK, NEW t \in Threads,
           \A u, v \in Threads : u # v => Apart(u, v),
           \A u \in Threads \ {t} : op'[u] = op[u],
           \/ op'[t] = NoOp
           \/ /\ op'[t].dst = op[t].dst /\ op'[t].src = op[t].src
              /\ op'[t].kind \in {op[t].kind, "rethrow"}
    PROVE  \A u, v \in Threads : u # v => Apart(u, v)'
<1>1. Writes(op[t])' \subseteq Writes(op[t]) \cup {NULL} /\ Uses(op[t])' \subseteq Uses(op[t]) \cup {NULL}
  BY DEF Writes, Uses, NoOp, MoveKinds
<1>2. \A u \in Threads \ {t} : Writes(op[u])' = Writes(op[u]) /\ Uses(op[u])' = Uses(op[u])
  BY DEF Writes, Uses
<1> QED
  BY <1>1, <1>2 DEF Apart

\* The pointers an operation writes are no other thread's to use.
LEMMA OwnPointers ==
    ASSUME NEW t \in Threads, NEW u \in Threads \ {t}, Apart(t, u), Apart(u, t), OpInv(t), OpInv(u),
           NEW s \in Slots, s \in Writes(op[t])
    PROVE  s \notin Uses(op[u])
  BY DistinctAssumption DEF Apart, Slots

\* A step that ends its operation: nothing is left to hold.
LEMMA FinishOp ==
    ASSUME TypeOK, NEW t \in Threads, OpInv(t), Finish(t)
    PROVE  OpInv(t)'
  BY FinishType DEF OpInv, NoOp, LockKinds

\* Of a step of t, all there is to show is that it leaves the operation of t
\* in order, and the pointers that other threads use as they are.
LEMMA OpFrame ==
    ASSUME IInv, NEW t \in Threads,
           \A u \in Threads \ {t} : pc'[u] = pc[u] /\ op'[u] = op[u] /\ blk'[u] = blk[u],
           \/ op'[t] = NoOp
           \/ /\ op'[t].dst = op[t].dst /\ op'[t].src = op[t].src
              /\ op'[t].kind \in {op[t].kind, "rethrow"},
           \A s \in Slots : ptr'[s] = ptr[s] \/ s \in Writes(op[t]),
           OpInv(t)'
    PROVE  /\ \A u \in Threads : OpInv(u)'
           /\ \A u, v \in Threads : u # v => Apart(u, v)'
<1>1. \A u, v \in Threads : u # v => Apart(u, v)'
  BY StillApart DEF IInv
<1>2. ASSUME NEW u \in Threads \ {t} PROVE OpInv(u)'
  <2>1. \A s \in Slots : s \in Uses(op[u]) => ptr'[s] = ptr[s]
    BY OwnPointers DEF IInv
  <2> QED
    BY <2>1, OtherOp DEF IInv
<1> QED
  BY <1>1, <1>2

LEMMA OpStep ==
    ASSUME IInv, NEW t \in Threads, Begin(t) \/ Release(t) \/ Acquire(t)
    PROVE  /\ \A u \in Threads : OpInv(u)'
           /\ \A u, v \in Threads : u # v => Apart(u, v)'
<1> DEFINE Goal == /\ \A u \in Threads : OpInv(u)'
                   /\ \A u, v \in Threads : u # v => Apart(u, v)'
<1>0. /\ TypeOK /\ OpInv(t) /\ ThreadInv(t)
      /\ \A u \in Threads : OpInv(u)
      /\ \A u, v \in Threads : u # v => Apart(u, v)
      /\ NULL \notin Slots \cup Threads \cup Blocks
      /\ StrongPtrs \cap WeakPtrs = {} /\ Blocks \cap (StrongPtrs \cup WeakPtrs) = {}
  BY DistinctAssumption DEF IInv, Slots
<1>1. ASSUME NEW r \in Requests, Call(t, r) PROVE Goal
  <2>1. /\ r.kind \in AllKinds /\ r.dst \in Slots
        /\ r.src \in StrongPtrs \cup WeakPtrs \cup {NULL}
        /\ r.kind = "emplace" => r.dst \in StrongPtrs \cup WeakPtrs
        /\ r.kind \in {"copy", "move"} => \/ r.dst \in StrongPtrs /\ r.src \in StrongPtrs
                                          \/ r.dst \in WeakPtrs /\ r.src \in WeakPtrs
        /\ r.kind \in LockKinds => r.dst \in StrongPtrs /\ r.src \in WeakPtrs
        /\ r.kind = "watch" => r.dst \in WeakPtrs \cup Blocks /\ r.src \in StrongPtrs
        /\ r.kind = "watchMove" => r.dst \in WeakPtrs /\ r.src \in StrongPtrs
    BY DEF Requests, AllKinds, LockKinds, Slots
  <2>2. /\ op' = [op EXCEPT ![t] = r] /\ op'[t] = r
        /\ pc'[t] \in {"acquire", "decObj", "decWeak"}
        /\ ptr' = [ptr EXCEPT ![r.dst] = NULL]
        /\ \A u \in Threads \ {t} : pc'[u] = pc[u] /\ op'[u] = op[u] /\ blk'[u] = blk[u]
        /\ NoRace(t, r)
        /\ r.dst \in Blocks => ptr[r.src] = r.dst
    BY <1>0, <1>1 DEF Call, TypeOK
  <2>3. OpInv(t)'
    BY <1>0, <2>1, <2>2 DEF OpInv, TypeOK, AllKinds, LockKinds, Slots
  <2>4. ASSUME NEW u \in Threads \ {t} PROVE OpInv(u)'
    <3>1. r.dst \notin Uses(op[u])
      BY <1>0, <2>1, <2>2 DEF NoRace, Writes
    <3>2. \A s \in Slots : s \in Uses(op[u]) => ptr'[s] = ptr[s]
      BY <1>0, <2>1, <2>2, <3>1 DEF TypeOK
    <3> QED
      BY <1>0, <2>2, <3>2, OtherOp
  <2>5. \A u, v \in Threads : u # v => Apart(u, v)'
    BY <1>0, <2>2 DEF Apart, NoRace, Writes, Uses
  <2> QED
    BY <2>3, <2>4, <2>5
<1>2. ASSUME NEW a, NEW b, {a, b} \subseteq StrongPtrs \/ {a, b} \subseteq WeakPtrs, Swap(t, a, b)
      PROVE  Goal
  <2>1. ASSUME NEW u \in Threads PROVE OpInv(u)'
    <3>1. CASE u = t
      BY <1>0, <1>2, <3>1 DEF Swap, OpInv, NoOp, LockKinds
    <3>2. CASE u # t
      <4>1. a \in Slots /\ b \in Slots /\ a \notin Uses(op[u]) /\ b \notin Uses(op[u])
        BY <1>0, <1>2, <3>2 DEF Swap, NoRace, Writes, MoveKinds, Slots
      <4>2. \A s \in Slots : s \in Uses(op[u]) => ptr'[s] = ptr[s]
        BY <1>0, <1>2, <4>1 DEF Swap, TypeOK
      <4> QED
        BY <1>0, <1>2, <4>2, OtherOp DEF Swap
    <3> QED
      BY <3>1, <3>2
  <2>2. \A u, v \in Threads : u # v => Apart(u, v)'
    BY <1>0, <1>2 DEF Swap, Apart, Writes, Uses
  <2> QED
    BY <2>1, <2>2
<1>3. CASE DecObj(t)
  <2>1. OpInv(t)'
    BY <1>0, <1>3 DEF DecObj, OpInv, TypeOK
  <2> QED
    BY <1>0, <1>3, <2>1, OpFrame DEF DecObj, TypeOK
<1>4. CASE DestroyT(t)
  <2>1. AfterThrow(t, DtorMayThrow)
    BY <1>4 DEF DestroyT
  <2>2. OpInv(t)'
    BY <1>0, <1>4, <2>1, ThrowType, ThrowAssumption DEF DestroyT, OpInv, TypeOK, LockKinds
  <2> QED
    BY <1>0, <1>4, <2>1, <2>2, OpFrame, ThrowType, ThrowAssumption DEF DestroyT, TypeOK
<1>5. CASE DtorMember(t)
  <2> DEFINE own == blk[t]
  <2>1. own \in Slots /\ ptr[own] # NULL /\ own \in Blocks
    BY <1>0, <1>5, Refers DEF DtorMember, ThreadInv, Slots
  <2>2. \A u \in Threads : own \notin Uses(op[u])
    BY <1>0, <2>1 DEF OpInv, Uses, NoOp
  <2>3. ASSUME NEW u \in Threads PROVE OpInv(u)'
    <3>1. \A s \in Slots : s \in Uses(op[u]) => ptr'[s] = ptr[s]
      BY <1>0, <1>5, <2>1, <2>2 DEF DtorMember, TypeOK
    <3>2. CASE u = t
      BY <1>0, <1>5, <3>1, <3>2 DEF DtorMember, OpInv, Uses, TypeOK
    <3>3. CASE u # t
      BY <1>0, <1>5, <3>1, <3>3, OtherOp DEF DtorMember, TypeOK
    <3> QED
      BY <3>2, <3>3
  <2>4. \A u, v \in Threads : u # v => Apart(u, v)'
    BY <1>0, <1>5 DEF DtorMember, Apart, Writes, Uses
  <2> QED
    BY <2>3, <2>4
<1>6. CASE DecWeak(t)
  <2>1. OpInv(t)'
    BY <1>0, <1>6 DEF DecWeak, OpInv, TypeOK
  <2> QED
    BY <1>0, <1>6, <2>1, OpFrame DEF DecWeak, TypeOK
<1>7. CASE Dealloc(t)
  <2>1. op' = op \/ AfterThrow(t, TRUE)
    BY <1>7 DEF Dealloc
  <2>2. /\ op'[t].dst = op[t].dst /\ op'[t].src = op[t].src
        /\ op'[t].kind \in {op[t].kind, "rethrow"}
        /\ \A u \in Threads \ {t} : op'[u] = op[u]
    BY <1>0, <2>1, ThrowType
  <2>3. OpInv(t)'
    BY <1>0, <1>7, <2>2 DEF Dealloc, OpInv, TypeOK, LockKinds
  <2> QED
    BY <1>0, <1>7, <2>2, <2>3, OpFrame DEF Dealloc, TypeOK
<1>8. CASE EndReset(t) \/ SourceEmpty(t)
  <2>1. Finish(t) /\ ptr' = ptr
    BY <1>8 DEF EndReset, SourceEmpty
  <2> QED
    BY <1>0, <2>1, FinishType, FinishOp, OpFrame DEF Finish, TypeOK
<1>9. CASE PCreate(t)
  <2>1. Finish(t) /\ \A s \in Slots : ptr'[s] = ptr[s] \/ s = op[t].dst
    BY <1>0, <1>9 DEF PCreate, TypeOK
  <2> QED
    BY <1>0, <2>1, FinishType, FinishOp, OpFrame DEF Finish, TypeOK, Writes
<1>10. CASE Move(t) \/ WatchMove(t)
  <2>1. /\ Finish(t) /\ op[t].kind \in MoveKinds
        /\ \A s \in Slots : ptr'[s] = ptr[s] \/ s = op[t].dst \/ s = op[t].src
    BY <1>0, <1>10 DEF Move, WatchMove, TypeOK, MoveKinds
  <2> QED
    BY <1>0, <2>1, FinishType, FinishOp, OpFrame DEF Finish, TypeOK, Writes
<1>11. CASE Copy(t)
  <2>1. OpInv(t)'
    BY <1>0, <1>11 DEF Copy, OpInv, TypeOK
  <2> QED
    BY <1>0, <1>11, <2>1, OpFrame DEF Copy, TypeOK
<1>12. CASE LoadObj(t)
  <2>1. OpInv(t)'
    BY <1>0, <1>12 DEF LoadObj, OpInv, TypeOK, LockKinds
  <2> QED
    BY <1>0, <1>12, <2>1, OpFrame DEF LoadObj, TypeOK
<1>13. CASE CasObj(t)
  <2>1. CASE op[t].kind \in MoveKinds
    <3>1. Finish(t) /\ \A s \in Slots : ptr'[s] = ptr[s] \/ s = op[t].dst \/ s = op[t].src
      BY <1>0, <1>13, <2>1 DEF CasObj, TypeOK
    <3> QED
      BY <1>0, <2>1, <3>1, FinishType, FinishOp, OpFrame DEF Finish, TypeOK, Writes
  <2>2. CASE op[t].kind \notin MoveKinds
    <3>1. OpInv(t)'
      BY <1>0, <1>13, <2>2 DEF CasObj, OpInv, TypeOK, LockKinds, MoveKinds
    <3> QED
      BY <1>0, <1>13, <2>2, <3>1, OpFrame DEF CasObj, TypeOK
  <2> QED
    BY <2>1, <2>2
<1>14. CASE CasFail(t)
  <2>1. OpInv(t)'
    BY <1>0, <1>14 DEF CasFail, OpInv, TypeOK
  <2> QED
    BY <1>0, <1>14, <2>1, OpFrame DEF CasFail, TypeOK
<1>15. CASE LockExpired(t)
  <2>1. CASE op[t].kind = "lockMove"
    <3>1. OpInv(t)'
      BY <1>0, <1>15, <2>1 DEF LockExpired, OpInv, TypeOK
    <3> QED
      BY <1>0, <1>15, <2>1, <3>1, OpFrame DEF LockExpired, TypeOK
  <2>2. CASE op[t].kind # "lockMove"
    <3>1. Finish(t) /\ ptr' = ptr
      BY <1>15, <2>2 DEF LockExpired
    <3> QED
      BY <1>0, <3>1, FinishType, FinishOp, OpFrame DEF Finish, TypeOK
  <2> QED
    BY <2>1, <2>2
<1>16. CASE IncWeak(t)
  <2>1. CASE op[t].kind = "copy" /\ op[t].dst \in StrongPtrs
    <3>1. OpInv(t)'
      BY <1>0, <1>16, <2>1 DEF IncWeak, OpInv, TypeOK
    <3> QED
      BY <1>0, <1>16, <2>1, <3>1, OpFrame DEF IncWeak, TypeOK
  <2>2. CASE ~(op[t].kind = "copy" /\ op[t].dst \in StrongPtrs)
    <3>1. Finish(t) /\ \A s \in Slots : ptr'[s] = ptr[s] \/ s = op[t].dst
      BY <1>0, <1>16, <2>2 DEF IncWeak, TypeOK
    <3> QED
      BY <1>0, <3>1, FinishType, FinishOp, OpFrame DEF Finish, TypeOK, Writes
  <2> QED
    BY <2>1, <2>2
<1>17. CASE IncObj(t)
  <2>1. Finish(t) /\ \A s \in Slots : ptr'[s] = ptr[s] \/ s = op[t].dst
    BY <1>0, <1>17 DEF IncObj, TypeOK
  <2> QED
    BY <1>0, <2>1, FinishType, FinishOp, OpFrame DEF Finish, TypeOK, Writes
<1> QED
  BY <1>1, <1>2, <1>3, <1>4, <1>5, <1>6, <1>7, <1>8, <1>9, <1>10,
     <1>11, <1>12, <1>13, <1>14, <1>15, <1>16, <1>17 DEF Begin, Release, Acquire

-----------------------------------------------------------------------------
(* Every step keeps the counters exact. *)

\* What a step does to the holders of a block and to its counters.
SameMem(b) == MemHolders(b)' = MemHolders(b) /\ nRefWeak'[b] = nRefWeak[b]
SameObj(b) == ObjHolders(b)' = ObjHolders(b) /\ nRefObj'[b] = nRefObj[b] /\ leaked'[b] = leaked[b]

HandsMem(b, x, y) ==
    /\ x \in MemHolders(b) /\ y \notin MemHolders(b)
    /\ MemHolders(b)' = (MemHolders(b) \ {x}) \cup {y}
    /\ nRefWeak'[b] = nRefWeak[b]

HandsObj(b, x, y) ==
    /\ x \in ObjHolders(b) /\ y \notin ObjHolders(b)
    /\ ObjHolders(b)' = (ObjHolders(b) \ {x}) \cup {y}
    /\ nRefObj'[b] = nRefObj[b] /\ leaked'[b] = leaked[b]

TakesMem(b, y) ==
    /\ y \in Slots \cup Threads /\ y \notin MemHolders(b)
    /\ MemHolders(b)' = MemHolders(b) \cup {y}
    /\ nRefWeak'[b] = Inc(nRefWeak[b])

TakesObj(b, y) ==
    /\ y \in Slots \cup Threads /\ y \notin ObjHolders(b)
    /\ ObjHolders(b)' = ObjHolders(b) \cup {y}
    /\ nRefObj'[b] = Inc(nRefObj[b]) /\ leaked'[b] = leaked[b]

DropsMem(b, x) ==
    /\ x \in MemHolders(b)
    /\ MemHolders(b)' = MemHolders(b) \ {x}
    /\ nRefWeak'[b] = Dec(nRefWeak[b])

DropsObj(b, x) ==
    /\ x \in ObjHolders(b)
    /\ ObjHolders(b)' = ObjHolders(b) \ {x}
    /\ nRefObj'[b] = Dec(nRefObj[b]) /\ leaked'[b] = leaked[b]

\* A strong pointer gives its block away and leaves its count behind.
LeavesObj(b, x) ==
    /\ x \in ObjHolders(b)
    /\ ObjHolders(b)' = ObjHolders(b) \ {x}
    /\ nRefObj'[b] = nRefObj[b] /\ leaked'[b] = leaked[b] + 1

\* Each of these keeps the counts of the block.
LEMMA MemCount ==
    ASSUME TypeOK, NEW b \in Blocks, CountInv(b),
           \/ SameMem(b)
           \/ \E x, y : HandsMem(b, x, y)
           \/ \E y : TakesMem(b, y)
           \/ \E x : DropsMem(b, x)
    PROVE  nRefWeak'[b] = Cardinality(MemHolders(b)')
<1>1. /\ IsFiniteSet(MemHolders(b)) /\ MemHolders(b) \subseteq Slots \cup Threads
      /\ Cardinality(MemHolders(b)) \in Nat
      /\ nRefWeak[b] = Cardinality(MemHolders(b))
  BY HoldersFinite, FS_CardinalityType DEF CountInv
<1>2. CASE SameMem(b)
  BY <1>1, <1>2 DEF SameMem
<1>3. ASSUME NEW x, NEW y, HandsMem(b, x, y) PROVE nRefWeak'[b] = Cardinality(MemHolders(b)')
  BY <1>1, <1>3, Handed DEF HandsMem
<1>4. ASSUME NEW y, TakesMem(b, y) PROVE nRefWeak'[b] = Cardinality(MemHolders(b)')
  <2>1. Cardinality(MemHolders(b) \cup {y}) = Cardinality(MemHolders(b)) + 1
    BY <1>1, <1>4, Taken DEF TakesMem
  <2>2. Cardinality(MemHolders(b) \cup {y}) + MaxLeaks < RefModulus
    BY <1>1, <1>4, HoldersFit DEF TakesMem
  <2>3. Inc(nRefWeak[b]) = nRefWeak[b] + 1
    BY <1>1, <2>1, <2>2, NoWrap, RefAssumption
  <2> QED
    BY <1>1, <1>4, <2>1, <2>3 DEF TakesMem
<1>5. ASSUME NEW x, DropsMem(b, x) PROVE nRefWeak'[b] = Cardinality(MemHolders(b)')
  <2>1. /\ Cardinality(MemHolders(b)) \in Nat \ {0}
        /\ Cardinality(MemHolders(b) \ {x}) = Cardinality(MemHolders(b)) - 1
    BY <1>1, <1>5, Dropped DEF DropsMem
  <2> QED
    BY <1>1, <1>5, <2>1, NoWrap DEF DropsMem
<1> QED
  BY <1>2, <1>3, <1>4, <1>5

LEMMA ObjCount ==
    ASSUME TypeOK, NEW b \in Blocks, CountInv(b),
           \/ SameObj(b)
           \/ \E x, y : HandsObj(b, x, y)
           \/ \E y : TakesObj(b, y)
           \/ \E x : DropsObj(b, x)
           \/ \E x : LeavesObj(b, x)
    PROVE  nRefObj'[b] = Cardinality(ObjHolders(b)') + leaked'[b]
<1> DEFINE Goal == nRefObj'[b] = Cardinality(ObjHolders(b)') + leaked'[b]
<1>1. /\ IsFiniteSet(ObjHolders(b)) /\ ObjHolders(b) \subseteq Slots \cup Threads
      /\ Cardinality(ObjHolders(b)) \in Nat
      /\ nRefObj[b] = Cardinality(ObjHolders(b)) + leaked[b]
      /\ leaked[b] \in 0 .. MaxLeaks /\ MaxLeaks \in Nat
  BY HoldersFinite, FS_CardinalityType, RefAssumption DEF CountInv, TypeOK
<1>2. CASE SameObj(b)
  BY <1>1, <1>2 DEF SameObj
<1>3. ASSUME NEW x, NEW y, HandsObj(b, x, y) PROVE Goal
  BY <1>1, <1>3, Handed DEF HandsObj
<1>4. ASSUME NEW y, TakesObj(b, y) PROVE Goal
  <2>1. Cardinality(ObjHolders(b) \cup {y}) = Cardinality(ObjHolders(b)) + 1
    BY <1>1, <1>4, Taken DEF TakesObj
  <2>2. Cardinality(ObjHolders(b) \cup {y}) + MaxLeaks < RefModulus
    BY <1>1, <1>4, HoldersFit DEF TakesObj
  <2>3. Inc(nRefObj[b]) = nRefObj[b] + 1
    BY <1>1, <2>1, <2>2, NoWrap, RefAssumption
  <2> QED
    BY <1>1, <1>4, <2>1, <2>3 DEF TakesObj
<1>5. ASSUME NEW x, DropsObj(b, x) PROVE Goal
  <2>1. /\ Cardinality(ObjHolders(b)) \in Nat \ {0}
        /\ Cardinality(ObjHolders(b) \ {x}) = Cardinality(ObjHolders(b)) - 1
    BY <1>1, <1>5, Dropped DEF DropsObj
  <2> QED
    BY <1>1, <1>5, <2>1, NoWrap DEF DropsObj
<1>6. ASSUME NEW x, LeavesObj(b, x) PROVE Goal
  <2>1. /\ Cardinality(ObjHolders(b)) \in Nat \ {0}
        /\ Cardinality(ObjHolders(b) \ {x}) = Cardinality(ObjHolders(b)) - 1
    BY <1>1, <1>6, Dropped DEF LeavesObj
  <2> QED
    BY <1>1, <1>6, <2>1 DEF LeavesObj
<1> QED
  BY <1>2, <1>3, <1>4, <1>5, <1>6

-----------------------------------------------------------------------------
(* The effect of every action on the holders of every block. *)

\* What IInv says of the thread that steps and of the pointers it names.
LEMMA Known ==
    ASSUME IInv, NEW t \in Threads
    PROVE  /\ TypeOK /\ OpInv(t) /\ ThreadInv(t)
           /\ \A b \in Blocks : CountInv(b) /\ BlockInv(b)
           /\ NULL \notin Slots \cup Threads \cup Blocks /\ Slots \cap Threads = {}
           /\ StrongPtrs \cap WeakPtrs = {} /\ Blocks \cap (StrongPtrs \cup WeakPtrs) = {}
           /\ Slots = StrongPtrs \cup WeakPtrs \cup Blocks
           /\ pc[t] \notin {"idle", "acquire"} <=> blk[t] # NULL
           /\ blk[t] \in Blocks \cup {NULL}
  BY DistinctAssumption DEF IInv, Slots, TypeOK

LEMMA CallEffect ==
    ASSUME IInv, NEW t \in Threads, NEW r \in Requests, Call(t, r), NEW b \in Blocks
    PROVE  /\ ptr[r.dst] = b => HandsMem(b, r.dst, t)
           /\ ptr[r.dst] # b => SameMem(b)
           /\ ptr[r.dst] = b /\ r.dst \in StrongPtrs => HandsObj(b, r.dst, t)
           /\ ~(ptr[r.dst] = b /\ r.dst \in StrongPtrs) => SameObj(b)
<1>1. r.dst \in Slots
  BY DEF Requests, Slots
<1>2. /\ pc[t] = "idle" /\ blk[t] = NULL
      /\ ptr' = [ptr EXCEPT ![r.dst] = NULL]
      /\ blk' = [blk EXCEPT ![t] = ptr[r.dst]]
      /\ pc'[t] \in {"acquire", "decObj", "decWeak"}
      /\ ptr[r.dst] = b => pc'[t] = IF r.dst \in StrongPtrs THEN "decObj" ELSE "decWeak"
      /\ \A u \in Threads \ {t} : pc'[u] = pc[u] /\ op'[u] = op[u] /\ blk'[u] = blk[u]
      /\ UNCHANGED <<nRefWeak, nRefObj, leaked>>
  BY Known DEF Call, TypeOK
<1>3. \A u \in Threads \ {t} : (HoldsMem(u)' <=> HoldsMem(u)) /\ (HoldsObj(u)' <=> HoldsObj(u))
  BY <1>2 DEF HoldsMem, HoldsObj
<1>4. CASE ptr[r.dst] = b
  <2>1. MemHolders(b)' = (MemHolders(b) \ {r.dst}) \cup {t} /\ r.dst \in MemHolders(b) /\ t \notin MemHolders(b)
    BY <1>1, <1>2, <1>3, <1>4, Known DEF MemHolders, HoldsMem, TypeOK
  <2>2. CASE r.dst \in StrongPtrs
    <3>1. ObjHolders(b)' = (ObjHolders(b) \ {r.dst}) \cup {t} /\ r.dst \in ObjHolders(b) /\ t \notin ObjHolders(b)
      BY <1>1, <1>2, <1>3, <1>4, <2>2, Known DEF ObjHolders, HoldsObj, TypeOK
    <3> QED
      BY <1>2, <1>4, <2>1, <2>2, <3>1 DEF HandsMem, HandsObj
  <2>3. CASE r.dst \notin StrongPtrs
    <3>1. ObjHolders(b)' = ObjHolders(b)
      BY <1>1, <1>2, <1>3, <1>4, <2>3, Known DEF ObjHolders, HoldsObj, TypeOK
    <3> QED
      BY <1>2, <1>4, <2>1, <2>3, <3>1 DEF HandsMem, SameObj
  <2> QED
    BY <2>2, <2>3
<1>5. CASE ptr[r.dst] # b
  <2>1. MemHolders(b)' = MemHolders(b) /\ ObjHolders(b)' = ObjHolders(b)
    BY <1>1, <1>2, <1>3, <1>5, Known DEF MemHolders, ObjHolders, HoldsMem, HoldsObj, TypeOK
  <2> QED
    BY <1>2, <1>5, <2>1 DEF SameMem, SameObj
<1> QED
  BY <1>4, <1>5

LEMMA SwapEffect ==
    ASSUME IInv, NEW t \in Threads, NEW x, NEW y,
           {x, y} \subseteq StrongPtrs \/ {x, y} \subseteq WeakPtrs,
           Swap(t, x, y), NEW b \in Blocks
    PROVE  /\ SameMem(b) \/ HandsMem(b, x, y) \/ HandsMem(b, y, x)
           /\ SameObj(b) \/ HandsObj(b, x, y) \/ HandsObj(b, y, x)
<1>1. /\ x \in Slots /\ y \in Slots
      /\ ptr' = [ptr EXCEPT ![x] = ptr[y], ![y] = ptr[x]]
      /\ UNCHANGED <<nRefWeak, nRefObj, pc, op, blk, leaked>>
  BY DEF Swap, Slots
<1>2. \A u \in Threads : (HoldsMem(u)' <=> HoldsMem(u)) /\ (HoldsObj(u)' <=> HoldsObj(u))
  BY <1>1 DEF HoldsMem, HoldsObj
<1>3. CASE ptr[x] = ptr[y] \/ (ptr[x] # b /\ ptr[y] # b)
  <2>1. MemHolders(b)' = MemHolders(b) /\ ObjHolders(b)' = ObjHolders(b)
    BY <1>1, <1>2, <1>3, Known DEF MemHolders, ObjHolders, TypeOK
  <2> QED
    BY <1>1, <2>1 DEF SameMem, SameObj
<1>4. ASSUME NEW v \in {x, y}, NEW w \in {x, y}, ptr[v] = b, ptr[w] # b
      PROVE  /\ HandsMem(b, v, w)
             /\ v \in StrongPtrs => HandsObj(b, v, w)
             /\ v \notin StrongPtrs => SameObj(b)
  <2>1. ptr'[v] = ptr[w] /\ ptr'[w] = b /\ \A s \in Slots \ {v, w} : ptr'[s] = ptr[s]
    BY <1>1, <1>4, Known DEF TypeOK
  <2>2. MemHolders(b)' = (MemHolders(b) \ {v}) \cup {w} /\ v \in MemHolders(b) /\ w \notin MemHolders(b)
    BY <1>1, <1>2, <1>4, <2>1, Known, ZenonT(60) DEF MemHolders
  <2>3. v \in StrongPtrs =>
          ObjHolders(b)' = (ObjHolders(b) \ {v}) \cup {w} /\ v \in ObjHolders(b) /\ w \notin ObjHolders(b)
    BY <1>1, <1>2, <1>4, <2>1, Known DEF ObjHolders
  <2>4. v \notin StrongPtrs => ObjHolders(b)' = ObjHolders(b)
    BY <1>1, <1>2, <1>4, <2>1, Known DEF ObjHolders
  <2> QED
    BY <1>1, <1>4, <2>2, <2>3, <2>4 DEF HandsMem, HandsObj, SameObj
<1> QED
  BY <1>3, <1>4

LEMMA DecObjEffect ==
    ASSUME IInv, NEW t \in Threads, DecObj(t), NEW b \in Blocks
    PROVE  /\ SameMem(b)
           /\ blk[t] = b => DropsObj(b, t)
           /\ blk[t] # b => SameObj(b)
<1>1. /\ pc[t] = "decObj" /\ pc'[t] \in {"destroy", "decWeak"}
      /\ \A u \in Threads \ {t} : pc'[u] = pc[u]
      /\ blk[t] \in Blocks
      /\ nRefObj' = [nRefObj EXCEPT ![blk[t]] = Dec(@)]
      /\ UNCHANGED <<ptr, nRefWeak, op, blk, leaked>>
  BY Known DEF DecObj, TypeOK
<1>2. \A u \in Threads \ {t} : (HoldsMem(u)' <=> HoldsMem(u)) /\ (HoldsObj(u)' <=> HoldsObj(u))
  BY <1>1 DEF HoldsMem, HoldsObj
<1>3. HoldsMem(t) /\ HoldsMem(t)' /\ HoldsObj(t) /\ ~HoldsObj(t)'
  BY <1>1 DEF HoldsMem, HoldsObj
<1>4. MemHolders(b)' = MemHolders(b)
  BY <1>1, <1>2, <1>3 DEF MemHolders
<1>5. blk[t] = b => ObjHolders(b)' = ObjHolders(b) \ {t} /\ t \in ObjHolders(b)
  BY <1>1, <1>2, <1>3, Known DEF ObjHolders
<1>6. blk[t] # b => ObjHolders(b)' = ObjHolders(b)
  BY <1>1, <1>2, <1>3 DEF ObjHolders
<1> QED
  BY <1>1, <1>4, <1>5, <1>6, Known DEF SameMem, SameObj, DropsObj, TypeOK

LEMMA DestroyEffect ==
    ASSUME IInv, NEW t \in Threads, DestroyT(t) \/ Dealloc(t), NEW b \in Blocks
    PROVE  SameMem(b) /\ SameObj(b)
<1>1. /\ pc[t] \in {"destroy", "dealloc"}
      /\ pc[t] = "destroy" => pc'[t] \in {"dtorMember", "decWeak"} /\ blk'[t] = blk[t]
      /\ pc[t] = "dealloc" => pc'[t] = "acquire" /\ blk'[t] = NULL
      /\ \A u \in Threads \ {t} : pc'[u] = pc[u] /\ blk'[u] = blk[u]
      /\ UNCHANGED <<ptr, nRefWeak, nRefObj, leaked>>
  <2>1. CASE DestroyT(t)
    BY <2>1, Known DEF DestroyT, TypeOK
  <2>2. CASE Dealloc(t)
    BY <2>2, Known DEF Dealloc, TypeOK
  <2> QED
    BY <2>1, <2>2
<1>2. \A u \in Threads \ {t} : op'[u] = op[u]
  <2>1. AfterThrow(t, DtorMayThrow) \/ AfterThrow(t, TRUE) \/ op' = op
    BY DEF DestroyT, Dealloc
  <2> QED
    BY <2>1, Known, ThrowType, ThrowAssumption, ZenonT(60)
<1>3. \A u \in Threads \ {t} : (HoldsMem(u)' <=> HoldsMem(u)) /\ (HoldsObj(u)' <=> HoldsObj(u))
  BY <1>1, <1>2 DEF HoldsMem, HoldsObj
<1>4. /\ ~HoldsObj(t) /\ ~HoldsObj(t)'
      /\ pc[t] = "destroy" => HoldsMem(t) /\ HoldsMem(t)'
      /\ pc[t] = "dealloc" => ~HoldsMem(t) /\ ~HoldsMem(t)'
  BY <1>1 DEF HoldsMem, HoldsObj
<1>5. MemHolders(b)' = MemHolders(b) /\ ObjHolders(b)' = ObjHolders(b)
  BY <1>1, <1>3, <1>4 DEF MemHolders, ObjHolders
<1> QED
  BY <1>1, <1>5 DEF SameMem, SameObj

LEMMA DtorMemberEffect ==
    ASSUME IInv, NEW t \in Threads, DtorMember(t), NEW b \in Blocks
    PROVE  /\ blk[t] \in Blocks /\ ptr[blk[t]] = blk[t]
           /\ blk[t] = b => DropsMem(b, b) /\ t \in MemHolders(b)'
           /\ blk[t] # b => SameMem(b)
           /\ SameObj(b)
<1>1. /\ pc[t] = "dtorMember" /\ pc' = [pc EXCEPT ![t] = "decWeak"]
      /\ blk[t] \in Blocks /\ ptr[blk[t]] = blk[t]
      /\ nRefWeak' = [nRefWeak EXCEPT ![blk[t]] = Dec(@)]
      /\ ptr' = [ptr EXCEPT ![blk[t]] = NULL]
      /\ UNCHANGED <<nRefObj, op, blk, leaked>>
  BY Known DEF DtorMember, ThreadInv, BlockInv
<1>2. \A u \in Threads : (HoldsMem(u)' <=> HoldsMem(u)) /\ (HoldsObj(u)' <=> HoldsObj(u))
  BY <1>1, Known DEF HoldsMem, HoldsObj, TypeOK
<1>3. HoldsMem(t)
  BY <1>1 DEF HoldsMem
<1>4. blk[t] = b => MemHolders(b)' = MemHolders(b) \ {b} /\ b \in MemHolders(b) /\ t \in MemHolders(b)'
  BY <1>1, <1>2, <1>3, Known DEF MemHolders, TypeOK
<1>5. blk[t] # b => MemHolders(b)' = MemHolders(b)
  BY <1>1, <1>2, Known DEF MemHolders, TypeOK
<1>6. ObjHolders(b)' = ObjHolders(b)
  BY <1>1, <1>2, Known DEF ObjHolders, TypeOK
<1> QED
  BY <1>1, <1>4, <1>5, <1>6, Known DEF SameMem, SameObj, DropsMem, TypeOK

LEMMA DecWeakEffect ==
    ASSUME IInv, NEW t \in Threads, DecWeak(t), NEW b \in Blocks
    PROVE  /\ blk[t] = b => DropsMem(b, t)
           /\ blk[t] # b => SameMem(b)
           /\ SameObj(b)
<1>1. /\ pc[t] = "decWeak" /\ pc'[t] \in {"dealloc", "acquire"}
      /\ \A u \in Threads \ {t} : pc'[u] = pc[u] /\ blk'[u] = blk[u]
      /\ blk[t] \in Blocks
      /\ nRefWeak' = [nRefWeak EXCEPT ![blk[t]] = Dec(@)]
      /\ UNCHANGED <<ptr, nRefObj, op, leaked>>
  BY Known DEF DecWeak, TypeOK
<1>2. \A u \in Threads \ {t} : (HoldsMem(u)' <=> HoldsMem(u)) /\ (HoldsObj(u)' <=> HoldsObj(u))
  BY <1>1 DEF HoldsMem, HoldsObj
<1>3. HoldsMem(t) /\ ~HoldsMem(t)' /\ ~HoldsObj(t) /\ ~HoldsObj(t)'
  BY <1>1 DEF HoldsMem, HoldsObj
<1>4. blk[t] = b => MemHolders(b)' = MemHolders(b) \ {t} /\ t \in MemHolders(b)
  BY <1>1, <1>2, <1>3, Known DEF MemHolders
<1>5. blk[t] # b => MemHolders(b)' = MemHolders(b)
  BY <1>1, <1>2, <1>3 DEF MemHolders
<1>6. ObjHolders(b)' = ObjHolders(b)
  BY <1>1, <1>2, <1>3 DEF ObjHolders
<1> QED
  BY <1>1, <1>4, <1>5, <1>6, Known DEF SameMem, SameObj, DropsMem, TypeOK

\* The steps that only move a thread on: no holder, no counter, no pointer.
LEMMA QuietEffect ==
    ASSUME IInv, NEW t \in Threads,
           \/ EndReset(t) \/ SourceEmpty(t) \/ Copy(t)
           \/ LoadObj(t) \/ CasFail(t) \/ LockExpired(t)
    PROVE  /\ \A b \in Blocks : SameMem(b) /\ SameObj(b)
           /\ UNCHANGED <<ptr, nRefWeak, nRefObj, tyT, mem, leaked>>
<1>1. /\ UNCHANGED <<ptr, nRefWeak, nRefObj, tyT, mem, leaked>>
      /\ \A u \in Threads \ {t} : pc'[u] = pc[u] /\ op'[u] = op[u] /\ blk'[u] = blk[u]
      /\ pc[t] \in {"acquire", "cas"}
      /\ pc'[t] \in {"idle", "cas", "terminated"} \/ (pc'[t] = "incWeak" /\ op'[t].kind \in {"copy", "watch"})
  <2>1. CASE EndReset(t) \/ SourceEmpty(t)
    BY <2>1, Known DEF EndReset, SourceEmpty, Finish, TypeOK
  <2>2. CASE Copy(t)
    BY <2>2, Known DEF Copy, TypeOK
  <2>3. CASE LoadObj(t) \/ CasFail(t)
    BY <2>3, Known DEF LoadObj, CasFail, TypeOK
  <2>4. CASE LockExpired(t)
    BY <2>4, Known DEF LockExpired, Finish, TypeOK
  <2> QED
    BY <2>1, <2>2, <2>3, <2>4
<1>2. ASSUME NEW u \in Threads
      PROVE  (HoldsMem(u)' <=> HoldsMem(u)) /\ (HoldsObj(u)' <=> HoldsObj(u))
                /\ (HoldsMem(u) \/ HoldsObj(u) => blk'[u] = blk[u])
  <2>1. CASE u = t
    BY <1>1, <2>1 DEF HoldsMem, HoldsObj, LockKinds
  <2>2. CASE u # t
    BY <1>1, <2>2 DEF HoldsMem, HoldsObj
  <2> QED
    BY <2>1, <2>2
<1>3. ASSUME NEW b \in Blocks PROVE SameMem(b) /\ SameObj(b)
  <2>1. MemHolders(b)' = MemHolders(b) /\ ObjHolders(b)' = ObjHolders(b)
    BY <1>1, <1>2 DEF MemHolders, ObjHolders
  <2> QED
    BY <1>1, <2>1 DEF SameMem, SameObj
<1> QED
  BY <1>1, <1>3

\* A thread that finishes holds nothing itself any more.
LEMMA FinishHolds ==
    ASSUME IInv, NEW t \in Threads, Finish(t)
    PROVE  /\ ~HoldsMem(t)' /\ ~HoldsObj(t)'
           /\ \A u \in Threads \ {t} :
                 /\ (HoldsMem(u)' <=> HoldsMem(u)) /\ (HoldsObj(u)' <=> HoldsObj(u))
                 /\ blk'[u] = blk[u] /\ pc'[u] = pc[u]
  BY Known DEF Finish, HoldsMem, HoldsObj, TypeOK

LEMMA CreateEffect ==
    ASSUME IInv, NEW t \in Threads, PCreate(t)
    PROVE  \/ /\ \A b \in Blocks : SameMem(b) /\ SameObj(b)
              /\ UNCHANGED <<ptr, nRefWeak, nRefObj, tyT, mem, leaked>>
           \/ \E c \in Blocks :
              LET strong == op[t].dst \in StrongPtrs
              IN  /\ mem[c] = "unused" /\ mem' = [mem EXCEPT ![c] = "allocated"]
                  /\ MemHolders(c)' = {op[t].dst} /\ nRefWeak'[c] = 1
                  /\ ObjHolders(c)' = IF strong THEN {op[t].dst} ELSE {}
                  /\ nRefObj'[c] = IF strong THEN 1 ELSE 0
                  /\ tyT'[c] = IF strong THEN "constructed" ELSE tyT[c]
                  /\ leaked' = leaked
                  /\ \A b \in Blocks \ {c} : SameMem(b) /\ SameObj(b) /\ tyT'[b] = tyT[b]
                  /\ ptr' = [ptr EXCEPT ![op[t].dst] = c]
<1>1. /\ Finish(t) /\ leaked' = leaked /\ pc[t] = "acquire"
      /\ op[t].dst \in StrongPtrs \cup WeakPtrs /\ ptr[op[t].dst] = NULL
  BY Known DEF PCreate, OpInv
<1>2. ~HoldsMem(t) /\ ~HoldsObj(t)
  BY <1>1 DEF HoldsMem, HoldsObj
<1>3. CASE UNCHANGED <<ptr, nRefWeak, nRefObj, tyT, mem>>
  <2>1. ASSUME NEW b \in Blocks PROVE SameMem(b) /\ SameObj(b)
    <3>1. MemHolders(b)' = MemHolders(b) /\ ObjHolders(b)' = ObjHolders(b)
      BY <1>1, <1>2, <1>3, FinishHolds DEF MemHolders, ObjHolders
    <3> QED
      BY <1>1, <1>3, <3>1 DEF SameMem, SameObj
  <2> QED
    BY <1>1, <1>3, <2>1
<1>4. ASSUME NEW c \in Blocks,
             mem[c] = "unused",
             mem' = [mem EXCEPT ![c] = "allocated"],
             nRefWeak' = [nRefWeak EXCEPT ![c] = 1],
             ptr' = [ptr EXCEPT ![op[t].dst] = c],
             IF op[t].dst \in StrongPtrs
             THEN /\ nRefObj' = [nRefObj EXCEPT ![c] = 1]
                  /\ tyT' = [tyT EXCEPT ![c] = "constructed"]
             ELSE UNCHANGED <<nRefObj, tyT>>
      PROVE  LET strong == op[t].dst \in StrongPtrs
             IN  /\ mem[c] = "unused" /\ mem' = [mem EXCEPT ![c] = "allocated"]
                 /\ MemHolders(c)' = {op[t].dst} /\ nRefWeak'[c] = 1
                 /\ ObjHolders(c)' = IF strong THEN {op[t].dst} ELSE {}
                 /\ nRefObj'[c] = IF strong THEN 1 ELSE 0
                 /\ tyT'[c] = IF strong THEN "constructed" ELSE tyT[c]
                 /\ leaked' = leaked
                 /\ \A b \in Blocks \ {c} : SameMem(b) /\ SameObj(b) /\ tyT'[b] = tyT[b]
                 /\ ptr' = [ptr EXCEPT ![op[t].dst] = c]
  <2>1. /\ MemHolders(c) = {} /\ ObjHolders(c) = {} /\ leaked[c] = 0 /\ nRefObj[c] = 0
    <3>1. MemHolders(c) = {} /\ ObjHolders(c) = {} /\ leaked[c] = 0 /\ CountInv(c)
      BY <1>4, Known DEF BlockInv
    <3> QED
      BY <3>1, FS_EmptySet DEF CountInv
  <2>2. /\ ptr'[op[t].dst] = c /\ \A s \in Slots \ {op[t].dst} : ptr'[s] = ptr[s]
    BY <1>1, <1>4, Known DEF TypeOK
  <2>3. MemHolders(c)' = {op[t].dst}
    BY <1>1, <1>2, <2>1, <2>2, FinishHolds, Known DEF MemHolders
  <2>4. ObjHolders(c)' = IF op[t].dst \in StrongPtrs THEN {op[t].dst} ELSE {}
    BY <1>1, <1>2, <2>1, <2>2, FinishHolds, Known DEF ObjHolders
  <2>5. ASSUME NEW b \in Blocks \ {c} PROVE SameMem(b) /\ SameObj(b) /\ tyT'[b] = tyT[b]
    <3>1. MemHolders(b)' = MemHolders(b)
      BY <1>1, <1>2, <2>2, FinishHolds, Known DEF MemHolders
    <3>2. ObjHolders(b)' = ObjHolders(b)
      BY <1>1, <1>2, <2>2, FinishHolds, Known DEF ObjHolders
    <3>3. nRefWeak'[b] = nRefWeak[b] /\ nRefObj'[b] = nRefObj[b] /\ tyT'[b] = tyT[b]
      BY <1>4, Known DEF TypeOK
    <3> QED
      BY <1>1, <3>1, <3>2, <3>3 DEF SameMem, SameObj
  <2>6. /\ nRefWeak'[c] = 1
        /\ nRefObj'[c] = IF op[t].dst \in StrongPtrs THEN 1 ELSE 0
        /\ tyT'[c] = IF op[t].dst \in StrongPtrs THEN "constructed" ELSE tyT[c]
    BY <1>4, <2>1, Known DEF TypeOK
  <2> QED
    BY <1>1, <1>4, <2>3, <2>4, <2>5, <2>6
<1> QED
  BY <1>1, <1>3, <1>4 DEF PCreate

\* A block passes from pointer x to pointer y while the threads keep theirs.
LEMMA PassMem ==
    ASSUME NEW b, NEW x \in Slots, NEW y \in Slots, ptr[x] = b, ptr[y] # b, ptr'[x] # b, ptr'[y] = b,
           \A s \in Slots \ {x, y} : ptr'[s] = ptr[s],
           \A u \in Threads : blk'[u] = b /\ HoldsMem(u)' <=> blk[u] = b /\ HoldsMem(u)
    PROVE  /\ MemHolders(b)' = (MemHolders(b) \ {x}) \cup {y}
           /\ x \in MemHolders(b) /\ y \notin MemHolders(b)
<1>1. Slots \cap Threads = {}
  BY DistinctAssumption
<1>2. x # y
  OBVIOUS
<1>3. \A z : z \in MemHolders(b)' <=> z \in (MemHolders(b) \ {x}) \cup {y}
  BY <1>1, <1>2 DEF MemHolders
<1> QED
  BY <1>1, <1>3 DEF MemHolders

LEMMA PassObj ==
    ASSUME NEW b, NEW x \in StrongPtrs, NEW y \in StrongPtrs, ptr[x] = b, ptr[y] # b, ptr'[x] # b, ptr'[y] = b,
           \A s \in Slots \ {x, y} : ptr'[s] = ptr[s],
           \A u \in Threads : blk'[u] = b /\ HoldsObj(u)' <=> blk[u] = b /\ HoldsObj(u)
    PROVE  /\ ObjHolders(b)' = (ObjHolders(b) \ {x}) \cup {y}
           /\ x \in ObjHolders(b) /\ y \notin ObjHolders(b)
<1>1. Slots \cap Threads = {} /\ StrongPtrs \subseteq Slots
  BY DistinctAssumption DEF Slots
<1>2. x # y
  OBVIOUS
<1>3. \A z : z \in ObjHolders(b)' <=> z \in (ObjHolders(b) \ {x}) \cup {y}
  BY <1>1, <1>2 DEF ObjHolders
<1> QED
  BY <1>1, <1>3 DEF ObjHolders

\* Nothing changes for a block.
LEMMA KeepMem ==
    ASSUME NEW b, \A s \in Slots : ptr'[s] = b <=> ptr[s] = b,
           \A u \in Threads : blk'[u] = b /\ HoldsMem(u)' <=> blk[u] = b /\ HoldsMem(u)
    PROVE  MemHolders(b)' = MemHolders(b)
<1>1. \A z : z \in MemHolders(b)' <=> z \in MemHolders(b)
  BY DEF MemHolders
<1> QED
  BY <1>1

LEMMA KeepObj ==
    ASSUME NEW b, \A s \in StrongPtrs : ptr'[s] = b <=> ptr[s] = b,
           \A u \in Threads : blk'[u] = b /\ HoldsObj(u)' <=> blk[u] = b /\ HoldsObj(u)
    PROVE  ObjHolders(b)' = ObjHolders(b)
<1>1. \A z : z \in ObjHolders(b)' <=> z \in ObjHolders(b)
  BY DEF ObjHolders
<1> QED
  BY <1>1

LEMMA MoveEffect ==
    ASSUME IInv, NEW t \in Threads, Move(t), NEW b \in Blocks
    PROVE  LET d == op[t].dst
               x == op[t].src
           IN  /\ ptr[x] = b => HandsMem(b, x, d)
               /\ ptr[x] # b => SameMem(b)
               /\ ptr[x] = b /\ x \in StrongPtrs => HandsObj(b, x, d)
               /\ ~(ptr[x] = b /\ x \in StrongPtrs) => SameObj(b)
<1>1. PICK d \in Slots, x \in Slots : d = op[t].dst /\ x = op[t].src
  BY Known DEF Move, OpInv
<1>2. /\ Finish(t) /\ pc[t] = "acquire"
      /\ ptr[d] = NULL
      /\ x \in StrongPtrs <=> d \in StrongPtrs
      /\ ptr' = [ptr EXCEPT ![x] = NULL, ![d] = ptr[x]]
      /\ UNCHANGED <<nRefWeak, nRefObj, leaked>>
  BY <1>1, Known DEF Move, OpInv
<1>3. \A u \in Threads : /\ blk'[u] = b /\ HoldsMem(u)' <=> blk[u] = b /\ HoldsMem(u)
                         /\ blk'[u] = b /\ HoldsObj(u)' <=> blk[u] = b /\ HoldsObj(u)
  <2>1. ~HoldsMem(t) /\ ~HoldsObj(t)
    BY <1>2 DEF HoldsMem, HoldsObj
  <2> QED
    BY <1>2, <2>1, FinishHolds
<1>4. CASE ptr[x] = b
  <2>1. ptr'[d] = b /\ ptr'[x] # b /\ ptr[d] # b /\ \A s \in Slots \ {x, d} : ptr'[s] = ptr[s]
    BY <1>2, <1>4, Known DEF TypeOK
  <2>2. MemHolders(b)' = (MemHolders(b) \ {x}) \cup {d} /\ x \in MemHolders(b) /\ d \notin MemHolders(b)
    BY <1>3, <1>4, <2>1, PassMem
  <2>3. x \in StrongPtrs => ObjHolders(b)' = (ObjHolders(b) \ {x}) \cup {d} /\ x \in ObjHolders(b) /\ d \notin ObjHolders(b)
    <3>1. x \in StrongPtrs => d \in StrongPtrs
      BY <1>2
    <3> QED
      BY <1>3, <1>4, <2>1, <3>1, PassObj
  <2>4. x \notin StrongPtrs => ObjHolders(b)' = ObjHolders(b)
    BY <1>2, <1>3, <1>4, <2>1, KeepObj, Known
  <2> QED
    BY <1>1, <1>2, <1>4, <2>2, <2>3, <2>4 DEF HandsMem, HandsObj, SameObj
<1>5. CASE ptr[x] # b
  <2>1. \A s \in Slots : ptr'[s] = b <=> ptr[s] = b
    BY <1>2, <1>5, Known DEF TypeOK
  <2>2. MemHolders(b)' = MemHolders(b) /\ ObjHolders(b)' = ObjHolders(b)
    BY <1>3, <2>1, KeepMem, KeepObj, Known
  <2> QED
    BY <1>1, <1>2, <1>5, <2>2 DEF SameMem, SameObj
<1> QED
  BY <1>4, <1>5

LEMMA WatchMoveEffect ==
    ASSUME IInv, NEW t \in Threads, WatchMove(t), NEW b \in Blocks
    PROVE  LET d == op[t].dst
               x == op[t].src
           IN  /\ ptr[x] = b => HandsMem(b, x, d) /\ LeavesObj(b, x)
               /\ ptr[x] # b => SameMem(b) /\ SameObj(b)
<1>1. PICK d \in WeakPtrs, x \in StrongPtrs : d = op[t].dst /\ x = op[t].src
  BY Known DEF WatchMove, OpInv
<1>2. /\ Finish(t) /\ pc[t] = "acquire"
      /\ ptr[d] = NULL /\ d \in Slots /\ x \in Slots
      /\ IF ptr[x] = NULL THEN UNCHANGED <<ptr, leaked>>
         ELSE /\ ptr' = [ptr EXCEPT ![d] = ptr[x], ![x] = NULL]
              /\ leaked' = [leaked EXCEPT ![ptr[x]] = @ + 1]
      /\ UNCHANGED <<nRefWeak, nRefObj>>
  BY <1>1, Known DEF WatchMove, OpInv
<1>3. \A u \in Threads : /\ blk'[u] = b /\ HoldsMem(u)' <=> blk[u] = b /\ HoldsMem(u)
                         /\ blk'[u] = b /\ HoldsObj(u)' <=> blk[u] = b /\ HoldsObj(u)
  <2>1. ~HoldsMem(t) /\ ~HoldsObj(t)
    BY <1>2 DEF HoldsMem, HoldsObj
  <2> QED
    BY <1>2, <2>1, FinishHolds
<1>4. CASE ptr[x] = b
  <2>1. /\ ptr'[d] = b /\ ptr'[x] # b /\ ptr[d] # b /\ d \notin StrongPtrs /\ x # d
        /\ \A s \in Slots \ {x, d} : ptr'[s] = ptr[s]
    BY <1>2, <1>4, Known DEF TypeOK
  <2>2. MemHolders(b)' = (MemHolders(b) \ {x}) \cup {d} /\ x \in MemHolders(b) /\ d \notin MemHolders(b)
    BY <1>2, <1>3, <1>4, <2>1, PassMem
  <2>3. ObjHolders(b)' = ObjHolders(b) \ {x} /\ x \in ObjHolders(b)
    <3>1. Slots \cap Threads = {} /\ StrongPtrs \subseteq Slots
      BY DistinctAssumption DEF Slots
    <3>2. \A z : z \in ObjHolders(b)' <=> z \in ObjHolders(b) \ {x}
      BY <1>3, <1>4, <2>1, <3>1 DEF ObjHolders
    <3> QED
      BY <1>4, <3>2 DEF ObjHolders
  <2>4. leaked'[b] = leaked[b] + 1
    BY <1>2, <1>4, Known DEF TypeOK
  <2> QED
    BY <1>1, <1>2, <1>4, <2>2, <2>3, <2>4 DEF HandsMem, LeavesObj
<1>5. CASE ptr[x] # b
  <2>1. \A s \in Slots : ptr'[s] = b <=> ptr[s] = b
    BY <1>2, <1>5, Known DEF TypeOK
  <2>2. MemHolders(b)' = MemHolders(b) /\ ObjHolders(b)' = ObjHolders(b)
    BY <1>3, <2>1, KeepMem, KeepObj, Known
  <2>3. leaked'[b] = leaked[b]
    BY <1>2, <1>5, Known DEF TypeOK
  <2> QED
    BY <1>1, <1>2, <1>5, <2>2, <2>3 DEF SameMem, SameObj
<1> QED
  BY <1>1, <1>4, <1>5

\* The block that a thread between two steps of a conversion or a copy refers
\* to is held by its source.
LEMMA SourceHolds ==
    ASSUME IInv, NEW t \in Threads, pc[t] \in {"cas", "incWeak", "incObj", "terminated"}
    PROVE  /\ blk[t] \in Blocks /\ op[t].src \in StrongPtrs \cup WeakPtrs /\ ptr[op[t].src] = blk[t]
           /\ op[t].dst \in Slots /\ ptr[op[t].dst] = NULL
           /\ op[t].src \in MemHolders(blk[t])
           /\ op[t].src \in StrongPtrs => op[t].src \in ObjHolders(blk[t])
<1>1. blk[t] \in Blocks /\ ptr[op[t].src] = blk[t] /\ op[t].dst \in Slots /\ ptr[op[t].dst] = NULL
  BY Known DEF OpInv
<1>2. op[t].src \in StrongPtrs \cup WeakPtrs
  BY Known DEF OpInv, LockKinds
<1> QED
  BY <1>1, <1>2 DEF MemHolders, ObjHolders, Slots

LEMMA CasObjEffect ==
    ASSUME IInv, NEW t \in Threads, CasObj(t), NEW b \in Blocks
    PROVE  /\ blk[t] # b => SameMem(b) /\ SameObj(b)
           /\ blk[t] = b => /\ \E y : TakesObj(b, y)
                            /\ SameMem(b) \/ \E x, y : HandsMem(b, x, y)
<1>1. PICK d \in StrongPtrs, x \in WeakPtrs : d = op[t].dst /\ x = op[t].src
  BY Known DEF CasObj, OpInv
<1>2. /\ pc[t] = "cas" /\ blk[t] \in Blocks /\ op[t].kind \in LockKinds
      /\ ptr[d] = NULL /\ ptr[x] = blk[t] /\ d \in Slots /\ x \in Slots
      /\ nRefObj' = [nRefObj EXCEPT ![blk[t]] = Inc(@)]
      /\ UNCHANGED <<nRefWeak, leaked>>
  BY <1>1, Known DEF CasObj, OpInv
<1>3. ~HoldsMem(t) /\ ~HoldsObj(t) /\ t \notin Slots
  BY <1>2, Known DEF HoldsMem, HoldsObj
<1>4. nRefObj'[b] = IF blk[t] = b THEN Inc(nRefObj[b]) ELSE nRefObj[b]
  BY <1>2, Known DEF TypeOK
<1>5. CASE op[t].kind \in MoveKinds
  <2>1. Finish(t) /\ ptr' = [ptr EXCEPT ![x] = NULL, ![d] = blk[t]]
    BY <1>1, <1>5 DEF CasObj
  <2>2. \A u \in Threads : /\ blk'[u] = b /\ HoldsMem(u)' <=> blk[u] = b /\ HoldsMem(u)
                           /\ blk'[u] = b /\ HoldsObj(u)' <=> blk[u] = b /\ HoldsObj(u)
    BY <1>3, <2>1, FinishHolds
  <2>3. CASE blk[t] = b
    <3>1. /\ ptr'[d] = b /\ ptr'[x] # b /\ ptr[d] # b /\ x \notin StrongPtrs /\ ptr[x] = b /\ x # d
          /\ \A s \in Slots \ {x, d} : ptr'[s] = ptr[s]
      BY <1>2, <2>1, <2>3, Known DEF TypeOK
    <3>2. MemHolders(b)' = (MemHolders(b) \ {x}) \cup {d} /\ x \in MemHolders(b) /\ d \notin MemHolders(b)
      BY <1>2, <2>2, <3>1, PassMem
    <3>3. ObjHolders(b)' = ObjHolders(b) \cup {d} /\ d \notin ObjHolders(b)
      <4>1. Slots \cap Threads = {} /\ StrongPtrs \subseteq Slots
        BY DistinctAssumption DEF Slots
      <4>2. \A z : z \in ObjHolders(b)' <=> z \in ObjHolders(b) \cup {d}
        BY <2>2, <3>1, <4>1 DEF ObjHolders
      <4> QED
        BY <1>2, <3>1, <4>1, <4>2 DEF ObjHolders
    <3>4. TakesObj(b, d)
      BY <1>2, <1>4, <2>3, <3>3 DEF TakesObj
    <3>5. HandsMem(b, x, d)
      BY <1>2, <3>2 DEF HandsMem
    <3> QED
      BY <2>3, <3>4, <3>5
  <2>4. CASE blk[t] # b
    <3>1. \A s \in Slots : ptr'[s] = b <=> ptr[s] = b
      BY <1>2, <2>1, <2>4, Known DEF TypeOK
    <3>2. MemHolders(b)' = MemHolders(b) /\ ObjHolders(b)' = ObjHolders(b)
      BY <2>2, <3>1, KeepMem, KeepObj, Known
    <3> QED
      BY <1>2, <1>4, <2>4, <3>2 DEF SameMem, SameObj
  <2> QED
    BY <2>3, <2>4
<1>6. CASE op[t].kind \notin MoveKinds
  <2>1. /\ pc' = [pc EXCEPT ![t] = "incWeak"] /\ UNCHANGED <<ptr, op, blk>>
    BY <1>6 DEF CasObj
  <2>2. /\ \A u \in Threads : HoldsMem(u)' <=> HoldsMem(u)
        /\ \A u \in Threads \ {t} : HoldsObj(u)' <=> HoldsObj(u)
        /\ HoldsObj(t)'
    BY <1>2, <2>1, Known DEF HoldsMem, HoldsObj, TypeOK
  <2>3. MemHolders(b)' = MemHolders(b)
    BY <2>1, <2>2 DEF MemHolders
  <2>4. blk[t] = b => ObjHolders(b)' = ObjHolders(b) \cup {t} /\ t \notin ObjHolders(b)
    BY <1>3, <2>1, <2>2, Known DEF ObjHolders
  <2>5. blk[t] # b => ObjHolders(b)' = ObjHolders(b)
    BY <2>1, <2>2 DEF ObjHolders
  <2>6. blk[t] = b => TakesObj(b, t)
    BY <1>2, <1>4, <2>4 DEF TakesObj
  <2> QED
    BY <1>2, <1>4, <2>3, <2>5, <2>6 DEF SameMem, SameObj
<1> QED
  BY <1>5, <1>6

LEMMA IncWeakEffect ==
    ASSUME IInv, NEW t \in Threads, IncWeak(t), NEW b \in Blocks
    PROVE  /\ blk[t] # b => SameMem(b) /\ SameObj(b)
           /\ blk[t] = b => /\ \E y : TakesMem(b, y)
                            /\ SameObj(b) \/ \E x, y : HandsObj(b, x, y)
<1>1. PICK d \in Slots : d = op[t].dst
  BY SourceHolds DEF IncWeak
<1>2. /\ pc[t] = "incWeak" /\ blk[t] \in Blocks /\ ptr[d] = NULL
      /\ op[t].kind \in {"copy", "watch", "lock", "lockOrEmpty"}
      /\ op[t].kind \in LockKinds <=> op[t].kind \in {"lock", "lockOrEmpty"}
      /\ op[t].kind \in {"lock", "lockOrEmpty"} => d \in StrongPtrs
      /\ nRefWeak' = [nRefWeak EXCEPT ![blk[t]] = Inc(@)]
      /\ UNCHANGED <<nRefObj, leaked>>
  BY <1>1, Known DEF IncWeak, OpInv, LockKinds
<1>3. /\ ~HoldsMem(t) /\ t \notin Slots
      /\ HoldsObj(t) <=> op[t].kind \in {"lock", "lockOrEmpty"}
  BY <1>2, Known DEF HoldsMem, HoldsObj
<1>4. nRefWeak'[b] = IF blk[t] = b THEN Inc(nRefWeak[b]) ELSE nRefWeak[b]
  BY <1>2, Known DEF TypeOK
<1>5. CASE op[t].kind = "copy" /\ d \in StrongPtrs
  <2>1. /\ pc' = [pc EXCEPT ![t] = "incObj"] /\ UNCHANGED <<ptr, op, blk>>
    BY <1>1, <1>5 DEF IncWeak
  <2>2. /\ \A u \in Threads : HoldsObj(u)' <=> HoldsObj(u)
        /\ \A u \in Threads \ {t} : HoldsMem(u)' <=> HoldsMem(u)
        /\ HoldsMem(t)'
    BY <1>2, <1>3, <1>5, <2>1, Known DEF HoldsMem, HoldsObj, TypeOK
  <2>3. ObjHolders(b)' = ObjHolders(b)
    BY <2>1, <2>2 DEF ObjHolders
  <2>4. blk[t] = b => MemHolders(b)' = MemHolders(b) \cup {t} /\ t \notin MemHolders(b)
    BY <1>3, <2>1, <2>2, Known DEF MemHolders
  <2>5. blk[t] # b => MemHolders(b)' = MemHolders(b)
    BY <2>1, <2>2 DEF MemHolders
  <2>6. blk[t] = b => TakesMem(b, t)
    BY <1>4, <2>4 DEF TakesMem
  <2> QED
    BY <1>2, <1>4, <2>3, <2>5, <2>6 DEF SameMem, SameObj
<1>6. CASE ~(op[t].kind = "copy" /\ d \in StrongPtrs)
  <2>1. Finish(t) /\ ptr' = [ptr EXCEPT ![d] = blk[t]]
    BY <1>1, <1>6 DEF IncWeak
  <2>2. \A u \in Threads : blk'[u] = b /\ HoldsMem(u)' <=> blk[u] = b /\ HoldsMem(u)
    BY <1>3, <2>1, FinishHolds
  <2>3. CASE blk[t] = b
    <3>1. /\ ptr'[d] = b /\ ptr[d] # b /\ \A s \in Slots \ {d} : ptr'[s] = ptr[s]
      BY <1>2, <2>1, <2>3, Known DEF TypeOK
    <3>2. MemHolders(b)' = MemHolders(b) \cup {d} /\ d \notin MemHolders(b)
      <4>1. \A z : z \in MemHolders(b)' <=> z \in MemHolders(b) \cup {d}
        BY <2>2, <3>1, Known DEF MemHolders
      <4> QED
        BY <3>1, <4>1, Known DEF MemHolders
    <3>3. CASE op[t].kind \in {"lock", "lockOrEmpty"}
      <4>1. d \in StrongPtrs /\ HoldsObj(t) /\ d \notin Threads
        BY <1>2, <1>3, <3>3, Known
      <4>2. ~HoldsObj(t)' /\ \A u \in Threads \ {t} : blk'[u] = blk[u] /\ (HoldsObj(u)' <=> HoldsObj(u))
        BY <2>1, FinishHolds
      <4>3. \A z : z \in ObjHolders(b)' <=> z \in (ObjHolders(b) \ {t}) \cup {d}
        BY <2>3, <3>1, <4>1, <4>2, Known DEF ObjHolders
      <4>4. t \in ObjHolders(b) /\ d \notin ObjHolders(b)
        BY <2>3, <3>1, <4>1 DEF ObjHolders
      <4>5. HandsObj(b, t, d)
        BY <1>2, <4>3, <4>4 DEF HandsObj
      <4> QED
        BY <1>4, <2>3, <3>2, <4>5 DEF TakesMem
    <3>4. CASE op[t].kind \notin {"lock", "lockOrEmpty"}
      <4>1. d \notin StrongPtrs
        BY <1>1, <1>2, <1>6, <3>4, Known DEF OpInv
      <4>2. \A u \in Threads : blk'[u] = b /\ HoldsObj(u)' <=> blk[u] = b /\ HoldsObj(u)
        BY <1>3, <2>1, <3>4, FinishHolds
      <4>3. ObjHolders(b)' = ObjHolders(b)
        BY <3>1, <4>1, <4>2, KeepObj, Known
      <4> QED
        BY <1>2, <1>4, <2>3, <3>2, <4>3 DEF TakesMem, SameObj
    <3> QED
      BY <3>3, <3>4
  <2>4. CASE blk[t] # b
    <3>1. \A s \in Slots : ptr'[s] = b <=> ptr[s] = b
      BY <1>2, <2>1, <2>4, Known DEF TypeOK
    <3>2. \A u \in Threads : blk'[u] = b /\ HoldsObj(u)' <=> blk[u] = b /\ HoldsObj(u)
      BY <2>1, <2>4, FinishHolds
    <3>3. MemHolders(b)' = MemHolders(b) /\ ObjHolders(b)' = ObjHolders(b)
      BY <2>2, <3>1, <3>2, KeepMem, KeepObj, Known
    <3> QED
      BY <1>2, <1>4, <2>4, <3>3 DEF SameMem, SameObj
  <2> QED
    BY <2>3, <2>4
<1> QED
  BY <1>5, <1>6

LEMMA IncObjEffect ==
    ASSUME IInv, NEW t \in Threads, IncObj(t), NEW b \in Blocks
    PROVE  /\ blk[t] # b => SameMem(b) /\ SameObj(b)
           /\ blk[t] = b => /\ \E x, y : HandsMem(b, x, y)
                            /\ \E y : TakesObj(b, y)
<1>1. PICK d \in StrongPtrs : d = op[t].dst
  BY Known DEF IncObj, OpInv
<1>2. /\ pc[t] = "incObj" /\ blk[t] \in Blocks /\ ptr[d] = NULL /\ d \in Slots /\ d \notin Threads
      /\ nRefObj' = [nRefObj EXCEPT ![blk[t]] = Inc(@)]
      /\ ptr' = [ptr EXCEPT ![d] = blk[t]]
      /\ Finish(t)
      /\ UNCHANGED <<nRefWeak, leaked>>
  BY <1>1, Known DEF IncObj, OpInv
<1>3. HoldsMem(t) /\ ~HoldsObj(t)
  BY <1>2 DEF HoldsMem, HoldsObj
<1>4. nRefObj'[b] = IF blk[t] = b THEN Inc(nRefObj[b]) ELSE nRefObj[b]
  BY <1>2, Known DEF TypeOK
<1>5. /\ \A u \in Threads : blk'[u] = b /\ HoldsObj(u)' <=> blk[u] = b /\ HoldsObj(u)
      /\ \A u \in Threads \ {t} : blk'[u] = b /\ HoldsMem(u)' <=> blk[u] = b /\ HoldsMem(u)
      /\ ~HoldsMem(t)'
  BY <1>2, <1>3, FinishHolds
<1>6. CASE blk[t] = b
  <2>1. /\ ptr'[d] = b /\ ptr[d] # b /\ \A s \in Slots \ {d} : ptr'[s] = ptr[s]
    BY <1>2, <1>6, Known DEF TypeOK
  <2>2. \A z : z \in MemHolders(b)' <=> z \in (MemHolders(b) \ {t}) \cup {d}
    BY <1>2, <1>5, <1>6, <2>1, Known DEF MemHolders
  <2>3. t \in MemHolders(b) /\ d \notin MemHolders(b)
    BY <1>2, <1>3, <1>6, <2>1 DEF MemHolders
  <2>4. HandsMem(b, t, d)
    BY <1>2, <2>2, <2>3 DEF HandsMem
  <2>5. \A z : z \in ObjHolders(b)' <=> z \in ObjHolders(b) \cup {d}
    BY <1>2, <1>5, <2>1, Known DEF ObjHolders
  <2>6. d \notin ObjHolders(b)
    BY <1>2, <2>1 DEF ObjHolders
  <2>7. TakesObj(b, d)
    BY <1>2, <1>4, <1>6, <2>5, <2>6 DEF TakesObj
  <2> QED
    BY <1>6, <2>4, <2>7
<1>7. CASE blk[t] # b
  <2>1. \A s \in Slots : ptr'[s] = b <=> ptr[s] = b
    BY <1>2, <1>7, Known DEF TypeOK
  <2>2. \A u \in Threads : blk'[u] = b /\ HoldsMem(u)' <=> blk[u] = b /\ HoldsMem(u)
    BY <1>5, <1>7, <1>2, FinishHolds
  <2>3. MemHolders(b)' = MemHolders(b) /\ ObjHolders(b)' = ObjHolders(b)
    BY <1>5, <2>1, <2>2, KeepMem, KeepObj, Known
  <2> QED
    BY <1>2, <1>4, <1>7, <2>3 DEF SameMem, SameObj
<1> QED
  BY <1>6, <1>7

-----------------------------------------------------------------------------
(* All actions together. *)

MemEffect(b) == SameMem(b) \/ (\E x, y : HandsMem(b, x, y)) \/ (\E x : DropsMem(b, x))
ObjEffect(b) ==
    \/ SameObj(b) \/ (\E x, y : HandsObj(b, x, y))
    \/ (\E x : DropsObj(b, x)) \/ (\E x : LeavesObj(b, x))

\* A thread adds a count only to the block it works on, and to the object
\* count only if that is not zero.
Grows(t, b) ==
    /\ blk[t] = b
    /\ MemEffect(b) \/ \E y : TakesMem(b, y)
    /\ ObjEffect(b) \/ (nRefObj[b] # 0 /\ \E y : TakesObj(b, y))

Creates(t, b) ==
    LET strong == op[t].dst \in StrongPtrs
    IN  /\ mem[b] = "unused" /\ mem'[b] = "allocated"
        /\ MemHolders(b)' = {op[t].dst} /\ nRefWeak'[b] = 1
        /\ ObjHolders(b)' = IF strong THEN {op[t].dst} ELSE {}
        /\ nRefObj'[b] = IF strong THEN 1 ELSE 0
        /\ tyT'[b] = IF strong THEN "constructed" ELSE tyT[b]
        /\ leaked'[b] = leaked[b]

LEMMA Effects ==
    ASSUME IInv, NEW t \in Threads, Begin(t) \/ Release(t) \/ Acquire(t), NEW b \in Blocks
    PROVE  (MemEffect(b) /\ ObjEffect(b)) \/ Grows(t, b) \/ Creates(t, b)
<1> USE DEF MemEffect, ObjEffect
<1>1. ASSUME NEW r \in Requests, Call(t, r) PROVE MemEffect(b) /\ ObjEffect(b)
  BY <1>1, CallEffect
<1>2. ASSUME NEW x, NEW y, {x, y} \subseteq StrongPtrs \/ {x, y} \subseteq WeakPtrs, Swap(t, x, y)
      PROVE  MemEffect(b) /\ ObjEffect(b)
  BY <1>2, SwapEffect
<1>3. CASE DecObj(t)
  BY <1>3, DecObjEffect
<1>4. CASE DestroyT(t) \/ Dealloc(t)
  BY <1>4, DestroyEffect
<1>5. CASE DtorMember(t)
  BY <1>5, DtorMemberEffect
<1>6. CASE DecWeak(t)
  BY <1>6, DecWeakEffect
<1>7. CASE EndReset(t) \/ SourceEmpty(t) \/ Copy(t) \/ LoadObj(t) \/ CasFail(t) \/ LockExpired(t)
  BY <1>7, QuietEffect
<1>8. CASE PCreate(t)
  <2>1. CASE \A c \in Blocks : SameMem(c) /\ SameObj(c)
    BY <2>1
  <2>2. CASE ~ \A c \in Blocks : SameMem(c) /\ SameObj(c)
    <3>1. PICK c \in Blocks :
              LET strong == op[t].dst \in StrongPtrs
              IN  /\ mem[c] = "unused" /\ mem' = [mem EXCEPT ![c] = "allocated"]
                  /\ MemHolders(c)' = {op[t].dst} /\ nRefWeak'[c] = 1
                  /\ ObjHolders(c)' = IF strong THEN {op[t].dst} ELSE {}
                  /\ nRefObj'[c] = IF strong THEN 1 ELSE 0
                  /\ tyT'[c] = IF strong THEN "constructed" ELSE tyT[c]
                  /\ leaked' = leaked
                  /\ \A a \in Blocks \ {c} : SameMem(a) /\ SameObj(a) /\ tyT'[a] = tyT[a]
                  /\ ptr' = [ptr EXCEPT ![op[t].dst] = c]
      BY <1>8, <2>2, CreateEffect
    <3>2. CASE c = b
      BY <3>1, <3>2, Known DEF Creates, TypeOK
    <3>3. CASE c # b
      BY <3>1, <3>3
    <3> QED
      BY <3>2, <3>3
  <2> QED
    BY <2>1, <2>2
<1>9. CASE Move(t)
  BY <1>9, MoveEffect
<1>10. CASE WatchMove(t)
  BY <1>10, WatchMoveEffect
<1>11. CASE CasObj(t)
  <2>1. blk[t] = b => nRefObj[b] # 0
    BY <1>11 DEF CasObj
  <2> QED
    BY <1>11, <2>1, CasObjEffect DEF Grows
<1>12. CASE IncWeak(t)
  BY <1>12, IncWeakEffect DEF Grows
<1>13. CASE IncObj(t)
  <2>1. blk[t] = b => nRefObj[b] # 0
    <3>1. op[t].src \in StrongPtrs /\ pc[t] = "incObj"
      BY <1>13, Known DEF IncObj, OpInv
    <3> QED
      BY <3>1, SourceHolds, Known, Counted
  <2> QED
    BY <1>13, <2>1, IncObjEffect DEF Grows
<1> QED
  BY <1>1, <1>2, <1>3, <1>4, <1>5, <1>6, <1>7, <1>8, <1>9, <1>10, <1>11, <1>12, <1>13
     DEF Begin, Release, Acquire

LEMMA CountStep ==
    ASSUME IInv, NEW t \in Threads, Begin(t) \/ Release(t) \/ Acquire(t), NEW b \in Blocks
    PROVE  CountInv(b)'
<1>1. CASE Creates(t, b)
  <2>1. leaked[b] = 0
    BY <1>1, Known DEF Creates, BlockInv
  <2>2. PICK d : d = op[t].dst
    OBVIOUS
  <2>3. /\ MemHolders(b)' = {d} /\ nRefWeak'[b] = 1
        /\ ObjHolders(b)' = IF d \in StrongPtrs THEN {d} ELSE {}
        /\ nRefObj'[b] = IF d \in StrongPtrs THEN 1 ELSE 0
        /\ leaked'[b] = 0
    BY <1>1, <2>1, <2>2 DEF Creates
  <2>4. Cardinality({d}) = 1 /\ Cardinality({}) = 0
    BY FS_Singleton, FS_EmptySet
  <2> QED
    BY <2>3, <2>4 DEF CountInv
<1>2. CASE ~Creates(t, b)
  <2>1. nRefWeak'[b] = Cardinality(MemHolders(b)')
    BY <1>2, Effects, Known, MemCount DEF MemEffect, Grows
  <2>2. nRefObj'[b] = Cardinality(ObjHolders(b)') + leaked'[b]
    BY <1>2, Effects, Known, ObjCount DEF ObjEffect, Grows
  <2> QED
    BY <2>1, <2>2 DEF CountInv
<1> QED
  BY <1>1, <1>2

-----------------------------------------------------------------------------
(* What a step does to the rest of the state, one variable at a time. *)

\* A step leaves the other threads where they are.
LEMMA Others ==
    ASSUME IInv, NEW t \in Threads, Begin(t) \/ Release(t) \/ Acquire(t), NEW u \in Threads \ {t}
    PROVE  pc'[u] = pc[u] /\ op'[u] = op[u] /\ blk'[u] = blk[u]
<1>1. ASSUME NEW r \in Requests, Call(t, r) PROVE pc'[u] = pc[u] /\ op'[u] = op[u] /\ blk'[u] = blk[u]
  BY <1>1, Known DEF Call, TypeOK
<1>2. ASSUME NEW x, NEW y, Swap(t, x, y) PROVE pc'[u] = pc[u] /\ op'[u] = op[u] /\ blk'[u] = blk[u]
  BY <1>2 DEF Swap
<1>3. CASE Release(t)
  <2>1. op'[u] = op[u]
    <3>1. op' = op \/ AfterThrow(t, DtorMayThrow) \/ AfterThrow(t, TRUE)
      BY <1>3 DEF Release, DecObj, DestroyT, DtorMember, DecWeak, Dealloc
    <3> QED
      BY <3>1, Known, ThrowType, ThrowAssumption, ZenonT(60)
  <2>2. pc'[u] = pc[u] /\ blk'[u] = blk[u]
    <3>1. \E l \in {"destroy", "dtorMember", "decWeak", "dealloc", "acquire"} : pc' = [pc EXCEPT ![t] = l]
      BY <1>3 DEF Release, DecObj, DestroyT, DtorMember, DecWeak, Dealloc
    <3>2. blk' = blk \/ blk' = [blk EXCEPT ![t] = blk[t]] \/ blk' = [blk EXCEPT ![t] = NULL]
      BY <1>3 DEF Release, DecObj, DestroyT, DtorMember, DecWeak, Dealloc
    <3> QED
      BY <3>1, <3>2, Known DEF TypeOK
  <2> QED
    BY <2>1, <2>2
<1>4. CASE Finish(t)
  BY <1>4, Known DEF Finish, TypeOK
<1>5. CASE Acquire(t) /\ ~Finish(t)
  BY <1>5, Known DEF Acquire, EndReset, PCreate, Move, WatchMove, SourceEmpty, Copy, LoadObj,
                     CasObj, CasFail, LockExpired, IncWeak, IncObj, TypeOK
<1> QED
  BY <1>1, <1>2, <1>3, <1>4, <1>5 DEF Begin

\* Who owns the object holds the memory as well.
LEMMA OwnersHold ==
    ASSUME IInv, NEW b \in Blocks, ObjHolders(b) # {}
    PROVE  MemHolders(b) # {}
<1>1. PICK x : x \in ObjHolders(b)
  OBVIOUS
<1>2. CASE x \in StrongPtrs
  <2>1. x \in Slots /\ x \notin Threads
    BY <1>2, DistinctAssumption DEF Slots
  <2>2. ptr[x] = b
    BY <1>1, <2>1 DEF ObjHolders
  <2> QED
    BY <2>1, <2>2 DEF MemHolders
<1>3. CASE x \in Threads
  <2>1. blk[x] = b /\ HoldsObj(x)
    BY <1>1, <1>3, Known DEF ObjHolders
  <2>2. CASE pc[x] = "decObj"
    BY <1>3, <2>1, <2>2 DEF MemHolders, HoldsMem
  <2>3. CASE pc[x] = "incWeak"
    BY <1>3, <2>1, <2>3, SourceHolds
  <2> QED
    BY <2>1, <2>2, <2>3 DEF HoldsObj
<1> QED
  BY <1>1, <1>2, <1>3 DEF ObjHolders

\* A count that is zero stays zero, as long as the block is there.
LEMMA StaysZero ==
    ASSUME IInv, NEW t \in Threads, Begin(t) \/ Release(t) \/ Acquire(t), NEW b \in Blocks,
           ~Creates(t, b)
    PROVE  /\ nRefObj[b] = 0 => nRefObj'[b] = 0
           /\ nRefWeak[b] = 0 => nRefWeak'[b] = 0 \/ blk[t] = b
<1>1. /\ TypeOK /\ CountInv(b)
      /\ (MemEffect(b) /\ ObjEffect(b)) \/ Grows(t, b)
  BY Known, Effects
<1>2. nRefWeak[b] = 0 => MemHolders(b) = {}
  BY <1>1, Counted
<1>3. nRefObj[b] = 0 => ObjHolders(b) = {}
  BY <1>1, Counted
<1>4. nRefObj[b] = 0 => nRefObj'[b] = 0
  BY <1>1, <1>3 DEF ObjEffect, Grows, SameObj, HandsObj, DropsObj, LeavesObj
<1>5. nRefWeak[b] = 0 => nRefWeak'[b] = 0 \/ blk[t] = b
  BY <1>1, <1>2 DEF MemEffect, Grows, SameMem, HandsMem, DropsMem
<1> QED
  BY <1>4, <1>5

\* A block changes state when it is created and when it is deallocated.
LEMMA MemChange ==
    ASSUME IInv, NEW t \in Threads, Begin(t) \/ Release(t) \/ Acquire(t), NEW b \in Blocks
    PROVE  \/ mem'[b] = mem[b]
           \/ Creates(t, b)
           \/ /\ pc[t] = "dealloc" /\ blk[t] = b /\ blk'[t] = NULL
              /\ mem'[b] \in {"freed", "orphaned"}
              /\ SameMem(b) /\ SameObj(b)
<1>1. CASE mem' = mem
  BY <1>1
<1>2. CASE PCreate(t) /\ mem' # mem
  <2>1. PICK c \in Blocks :
            LET strong == op[t].dst \in StrongPtrs
            IN  /\ mem[c] = "unused" /\ mem' = [mem EXCEPT ![c] = "allocated"]
                /\ MemHolders(c)' = {op[t].dst} /\ nRefWeak'[c] = 1
                /\ ObjHolders(c)' = IF strong THEN {op[t].dst} ELSE {}
                /\ nRefObj'[c] = IF strong THEN 1 ELSE 0
                /\ tyT'[c] = IF strong THEN "constructed" ELSE tyT[c]
                /\ leaked' = leaked
                /\ \A a \in Blocks \ {c} : SameMem(a) /\ SameObj(a) /\ tyT'[a] = tyT[a]
                /\ ptr' = [ptr EXCEPT ![op[t].dst] = c]
    BY <1>2, CreateEffect
  <2> QED
    BY <2>1, Known DEF Creates, TypeOK
<1>3. CASE Dealloc(t)
  <2>1. /\ pc[t] = "dealloc" /\ blk' = [blk EXCEPT ![t] = NULL]
        /\ mem' = [mem EXCEPT ![blk[t]] = "freed"] \/ mem' = [mem EXCEPT ![blk[t]] = "orphaned"]
    BY <1>3 DEF Dealloc
  <2>2. SameMem(b) /\ SameObj(b)
    BY <1>3, DestroyEffect
  <2> QED
    BY <2>1, <2>2, Known DEF TypeOK
<1>4. CASE DtorMember(t)
  <2>1. CASE blk[t] = b
    <3>1. /\ MemHolders(b)' = MemHolders(b) \ {b} /\ t \in MemHolders(b)'
          /\ nRefWeak'[b] = Cardinality(MemHolders(b)') /\ ptr[b] = b
      BY <1>4, <2>1, DtorMemberEffect, CountStep DEF DropsMem, CountInv, Release
    <3>2. IsFiniteSet(MemHolders(b) \ {b})
      BY HoldersFinite, FS_Subset
    <3>3. nRefWeak'[b] # 0
      BY <3>1, <3>2, FS_EmptySet
    <3> QED
      BY <1>4, <2>1, <3>1, <3>3, Known DEF DtorMember, TypeOK
  <2>2. CASE blk[t] # b
    BY <1>4, <2>2, DtorMemberEffect, Known DEF DtorMember, TypeOK
  <2> QED
    BY <2>1, <2>2
<1> QED
  BY <1>1, <1>2, <1>3, <1>4 DEF Begin, Release, Acquire, Call, Swap, DecObj, DestroyT, DecWeak, EndReset,
     Move, WatchMove, SourceEmpty, Copy, LoadObj, CasObj, CasFail, LockExpired, IncWeak, IncObj

\* The state of an object changes when it is created and when it is destroyed.
LEMMA ObjectChange ==
    ASSUME IInv, NEW t \in Threads, Begin(t) \/ Release(t) \/ Acquire(t), NEW b \in Blocks
    PROVE  \/ tyT'[b] = tyT[b]
           \/ Creates(t, b)
           \/ /\ pc[t] \in {"destroy", "dtorMember"} /\ blk[t] = b
              /\ mem[b] = "allocated" /\ nRefObj[b] = 0
<1>1. CASE tyT' = tyT
  BY <1>1
<1>2. CASE PCreate(t) /\ tyT' # tyT
  <2>1. PICK c \in Blocks :
            LET strong == op[t].dst \in StrongPtrs
            IN  /\ mem[c] = "unused" /\ mem' = [mem EXCEPT ![c] = "allocated"]
                /\ MemHolders(c)' = {op[t].dst} /\ nRefWeak'[c] = 1
                /\ ObjHolders(c)' = IF strong THEN {op[t].dst} ELSE {}
                /\ nRefObj'[c] = IF strong THEN 1 ELSE 0
                /\ tyT'[c] = IF strong THEN "constructed" ELSE tyT[c]
                /\ leaked' = leaked
                /\ \A a \in Blocks \ {c} : SameMem(a) /\ SameObj(a) /\ tyT'[a] = tyT[a]
                /\ ptr' = [ptr EXCEPT ![op[t].dst] = c]
    BY <1>2, CreateEffect
  <2> QED
    BY <2>1, Known DEF Creates, TypeOK
<1>3. CASE DestroyT(t) \/ DtorMember(t)
  <2>1. pc[t] \in {"destroy", "dtorMember"} /\ blk[t] \in Blocks
    BY <1>3, Known DEF DestroyT, DtorMember
  <2>2. mem[blk[t]] = "allocated" /\ nRefObj[blk[t]] = 0
    BY <2>1, Known DEF ThreadInv
  <2>3. \E l \in {"destroying", "destroyed"} : tyT' = [tyT EXCEPT ![blk[t]] = l]
    BY <1>3 DEF DestroyT, DtorMember
  <2> QED
    BY <2>1, <2>2, <2>3, Known DEF TypeOK
<1> QED
  BY <1>1, <1>2, <1>3 DEF Begin, Release, Acquire, Call, Swap, DecObj, DecWeak, Dealloc, EndReset,
     Move, WatchMove, SourceEmpty, Copy, LoadObj, CasObj, CasFail, LockExpired, IncWeak, IncObj

\* The weak pointer in a T refers to its own block or to none, and is emptied
\* only through an owner of that T or by its destructor.
LEMMA MemberChange ==
    ASSUME IInv, NEW t \in Threads, Begin(t) \/ Release(t) \/ Acquire(t), NEW b \in Blocks
    PROVE  \/ ptr'[b] \in {ptr[b], b}
           \/ ptr'[b] = NULL /\ nRefObj[b] # 0
           \/ ptr'[b] = NULL /\ pc[t] = "dtorMember" /\ blk[t] = b
<1>0. b \in Slots /\ b \notin StrongPtrs \cup WeakPtrs
  BY Known
<1>1. ASSUME NEW r \in Requests, Call(t, r)
      PROVE  ptr'[b] = ptr[b] \/ (ptr'[b] = NULL /\ nRefObj[b] # 0)
  <2>1. ptr' = [ptr EXCEPT ![r.dst] = NULL] /\ (r.dst \in Blocks => ptr[r.src] = r.dst)
    BY <1>1 DEF Call
  <2>2. r.dst \in Blocks => r.src \in StrongPtrs
    BY Known DEF Requests, LockKinds
  <2>3. r.dst = b => ObjHolders(b) # {}
    BY <2>1, <2>2 DEF ObjHolders
  <2>4. r.dst = b => nRefObj[b] # 0
    BY <2>3, Counted, Known
  <2> QED
    BY <1>0, <2>1, <2>4, Known DEF TypeOK
<1>2. ASSUME NEW x, NEW y, {x, y} \subseteq StrongPtrs \/ {x, y} \subseteq WeakPtrs, Swap(t, x, y)
      PROVE  ptr'[b] = ptr[b]
  BY <1>0, <1>2, Known DEF Swap, TypeOK
<1>3. CASE DtorMember(t)
  BY <1>0, <1>3, DtorMemberEffect, Known DEF DtorMember, TypeOK
<1>4. CASE IncWeak(t) /\ op[t].dst = b
  <2>1. op[t].kind = "watch" /\ blk[t] = ptr[op[t].src]
    BY <1>0, <1>4, Known DEF IncWeak, OpInv, LockKinds
  <2>2. blk[t] = b
    BY <1>4, <2>1, Known DEF OpInv
  <2>3. ptr' = [ptr EXCEPT ![b] = b]
    BY <1>0, <1>4, <2>2, SMTT(60) DEF IncWeak
  <2> QED
    BY <1>0, <2>3, Known DEF TypeOK
<1>5. CASE Acquire(t) /\ op[t].dst # b
  <2>1. op[t].src # b
    BY <1>0, Known DEF OpInv, Slots
  <2> QED
    BY <1>0, <1>5, <2>1, Known DEF Acquire, EndReset, PCreate, Move, WatchMove, SourceEmpty, Copy,
       LoadObj, CasObj, CasFail, LockExpired, IncWeak, IncObj, TypeOK
<1>6. CASE Acquire(t) /\ ~IncWeak(t) /\ op[t].dst = b
  <2>1. /\ op[t].kind # "none"
        /\ op[t].kind \notin {"emplace", "copy", "move", "watchMove"} \cup LockKinds
    BY <1>0, <1>6, Known DEF OpInv, Acquire, EndReset, PCreate, Move, WatchMove, SourceEmpty, Copy,
       LoadObj, CasObj, CasFail, LockExpired, IncObj
  <2>2. pc[t] \notin {"cas", "incObj"}
    BY <2>1, Known DEF OpInv
  <2> QED
    BY <1>6, <2>1, <2>2, SMTT(60) DEF Acquire, EndReset, PCreate, Move, WatchMove, SourceEmpty, Copy,
       LoadObj, CasObj, CasFail, LockExpired, IncObj
<1>7. CASE DecObj(t) \/ DestroyT(t) \/ DecWeak(t) \/ Dealloc(t)
  BY <1>7 DEF DecObj, DestroyT, DecWeak, Dealloc
<1> QED
  BY <1>1, <1>2, <1>3, <1>4, <1>5, <1>6, <1>7 DEF Begin, Release

-----------------------------------------------------------------------------
(* Every step keeps what is known of the blocks. *)

LEMMA BlockStep ==
    ASSUME IInv, NEW t \in Threads, Begin(t) \/ Release(t) \/ Acquire(t), NEW b \in Blocks
    PROVE  BlockInv(b)'
<1>0. /\ TypeOK /\ CountInv(b) /\ BlockInv(b) /\ ThreadInv(t) /\ NULL \notin Blocks
      /\ (MemEffect(b) /\ ObjEffect(b)) \/ Grows(t, b) \/ Creates(t, b)
  BY Known, Effects
<1>1. ASSUME mem[b] # "allocated", ~Creates(t, b) PROVE SameMem(b) /\ SameObj(b)
  <2>1. MemHolders(b) = {} /\ ObjHolders(b) = {} /\ blk[t] # b
    BY <1>0, <1>1 DEF BlockInv, ThreadInv
  <2>2. MemEffect(b) /\ ObjEffect(b)
    BY <1>0, <1>1, <2>1 DEF Grows
  <2> QED
    BY <2>1, <2>2 DEF MemEffect, ObjEffect, HandsMem, HandsObj, DropsMem, DropsObj, LeavesObj
<1>2. (mem[b] # "allocated" => MemHolders(b) = {} /\ ObjHolders(b) = {})'
  <2>1. CASE mem'[b] = mem[b]
    BY <1>0, <1>1, <2>1 DEF BlockInv, SameMem, SameObj, Creates
  <2>2. CASE Creates(t, b)
    BY <2>2 DEF Creates
  <2>3. CASE pc[t] = "dealloc" /\ blk[t] = b /\ SameMem(b) /\ SameObj(b)
    <3>1. nRefWeak[b] = 0
      BY <1>0, <2>3 DEF ThreadInv
    <3>2. MemHolders(b) = {}
      BY <1>0, <3>1, Counted
    <3>3. ObjHolders(b) = {}
      BY <3>2, OwnersHold
    <3> QED
      BY <2>3, <3>2, <3>3 DEF SameMem, SameObj
  <2> QED
    BY <2>1, <2>2, <2>3, MemChange
<1>3. (mem[b] = "unused" => leaked[b] = 0 /\ tyT[b] = "none")'
  <2>1. SUFFICES ASSUME mem'[b] = "unused" PROVE leaked'[b] = 0 /\ tyT'[b] = "none"
    OBVIOUS
  <2>2. ~Creates(t, b) /\ mem[b] = "unused"
    BY <2>1, MemChange DEF Creates
  <2>3. leaked'[b] = 0
    BY <1>0, <1>1, <2>2 DEF SameObj, BlockInv
  <2>4. tyT'[b] = "none"
    BY <1>0, <2>2, ObjectChange DEF BlockInv
  <2> QED
    BY <2>3, <2>4
<1>4. (nRefObj[b] # 0 => tyT[b] = "constructed")'
  <2>1. CASE Creates(t, b)
    BY <2>1 DEF Creates
  <2>2. CASE ~Creates(t, b) /\ nRefObj'[b] # 0
    <3>1. nRefObj[b] # 0
      BY <2>2, StaysZero
    <3>2. tyT[b] = "constructed"
      BY <1>0, <3>1 DEF BlockInv
    <3> QED
      BY <2>2, <3>1, <3>2, ObjectChange
  <2> QED
    BY <2>1, <2>2
<1>5. (ptr[b] \in {b, NULL})'
  BY <1>0, MemberChange DEF BlockInv
<1> QED
  BY <1>2, <1>3, <1>4, <1>5 DEF BlockInv

-----------------------------------------------------------------------------
(* Every step keeps what the threads know of their blocks. *)

\* Where a thread goes on from: the block it had, or one a pointer refers to.
LEMMA OwnBlock ==
    ASSUME IInv, NEW t \in Threads, Begin(t) \/ Release(t) \/ Acquire(t)
    PROVE  /\ pc'[t] = "destroy" => DecObj(t)
           /\ pc'[t] = "dtorMember" => DestroyT(t)
           /\ pc'[t] = "dealloc" => DecWeak(t)
           /\ blk'[t] # NULL /\ blk'[t] # blk[t] =>
                 pc[t] \in {"idle", "acquire"} /\ \E s \in Slots : ptr[s] = blk'[t]
<1> DEFINE Goal == /\ pc'[t] = "destroy" => DecObj(t)
                   /\ pc'[t] = "dtorMember" => DestroyT(t)
                   /\ pc'[t] = "dealloc" => DecWeak(t)
                   /\ blk'[t] # NULL /\ blk'[t] # blk[t] =>
                         pc[t] \in {"idle", "acquire"} /\ \E s \in Slots : ptr[s] = blk'[t]
<1>1. ASSUME NEW r \in Requests, Call(t, r) PROVE Goal
  <2>1. r.dst \in Slots
    BY DEF Requests, Slots
  <2> QED
    BY <1>1, <2>1, Known DEF Call, TypeOK
<1>2. ASSUME NEW x, NEW y, Swap(t, x, y) PROVE Goal
  BY <1>2 DEF Swap
<1>3. CASE DecObj(t) \/ DecWeak(t)
  BY <1>3, Known DEF DecObj, DecWeak, TypeOK
<1>4. CASE DestroyT(t) \/ DtorMember(t)
  BY <1>4, Known DEF DestroyT, DtorMember, TypeOK
<1>5. CASE Dealloc(t)
  <2>1. pc' = [pc EXCEPT ![t] = "acquire"] /\ blk' = [blk EXCEPT ![t] = NULL]
    BY <1>5 DEF Dealloc
  <2> QED
    BY <2>1, Known DEF TypeOK
<1>6. CASE Finish(t)
  BY <1>6, Known DEF Finish, TypeOK
<1>7. CASE Copy(t) \/ LoadObj(t)
  <2>1. op[t].src \in Slots
    BY <1>7, Known DEF Copy, LoadObj, OpInv, LockKinds
  <2> QED
    BY <1>7, <2>1, Known DEF Copy, LoadObj, TypeOK
<1>8. CASE (CasObj(t) \/ CasFail(t) \/ LockExpired(t) \/ IncWeak(t)) /\ ~Finish(t)
  BY <1>8, Known DEF CasObj, CasFail, LockExpired, IncWeak, TypeOK
<1> QED
  BY <1>1, <1>2, <1>3, <1>4, <1>5, <1>6, <1>7, <1>8
     DEF Begin, Release, Acquire, EndReset, PCreate, Move, WatchMove, SourceEmpty, IncObj

LEMMA OwnThreadStep ==
    ASSUME IInv, NEW t \in Threads, Begin(t) \/ Release(t) \/ Acquire(t)
    PROVE  ThreadInv(t)'
<1>1. (blk[t] # NULL => mem[blk[t]] = "allocated")'
  <2> SUFFICES ASSUME blk'[t] # NULL PROVE mem'[blk'[t]] = "allocated"
    OBVIOUS
  <2>1. PICK c \in Blocks : c = blk'[t]
    BY TypeStep DEF TypeOK, IInv
  <2>2. CASE c = blk[t]
    <3>1. mem[c] = "allocated"
      BY <2>1, <2>2, Known DEF ThreadInv
    <3> QED
      BY <2>1, <3>1, MemChange DEF Creates
  <2>3. CASE c # blk[t]
    <3>1. pc[t] \in {"idle", "acquire"} /\ MemHolders(c) # {}
      BY <2>1, <2>3, OwnBlock DEF MemHolders
    <3>2. mem[c] = "allocated"
      BY <3>1, Known DEF BlockInv
    <3> QED
      BY <2>1, <3>1, <3>2, MemChange DEF Creates
  <2> QED
    BY <2>2, <2>3
<1>2. (pc[t] = "destroy" => nRefObj[blk[t]] = 0 /\ tyT[blk[t]] = "constructed")'
  <2> SUFFICES ASSUME pc'[t] = "destroy" PROVE nRefObj'[blk'[t]] = 0 /\ tyT'[blk'[t]] = "constructed"
    OBVIOUS
  <2>1. DecObj(t)
    BY OwnBlock
  <2>2. PICK c \in Blocks : c = blk[t]
    BY <2>1, Known DEF DecObj
  <2>3. blk' = blk /\ tyT' = tyT /\ nRefObj'[c] = 0
    BY <2>1, <2>2, Known DEF DecObj, TypeOK
  <2>4. ObjHolders(c) # {}
    BY <2>1, <2>2 DEF DecObj, ObjHolders, HoldsObj
  <2>5. tyT[c] = "constructed"
    BY <2>4, Counted, Known DEF BlockInv
  <2> QED
    BY <2>2, <2>3, <2>5
<1>3. (pc[t] = "dtorMember" => nRefObj[blk[t]] = 0 /\ tyT[blk[t]] = "destroying" /\ ptr[blk[t]] # NULL)'
  <2> SUFFICES ASSUME pc'[t] = "dtorMember"
               PROVE  nRefObj'[blk'[t]] = 0 /\ tyT'[blk'[t]] = "destroying" /\ ptr'[blk'[t]] # NULL
    OBVIOUS
  <2>1. DestroyT(t)
    BY OwnBlock
  <2>2. blk[t] \in Blocks /\ nRefObj[blk[t]] = 0
    BY <2>1, Known DEF DestroyT, ThreadInv
  <2>3. ptr[blk[t]] # NULL
    BY <2>1, Known DEF DestroyT, TypeOK
  <2> QED
    BY <2>1, <2>2, <2>3, Known DEF DestroyT, TypeOK
<1>4. (pc[t] = "dealloc" => nRefWeak[blk[t]] = 0)'
  <2> SUFFICES ASSUME pc'[t] = "dealloc" PROVE nRefWeak'[blk'[t]] = 0
    OBVIOUS
  <2>1. DecWeak(t)
    BY OwnBlock
  <2> QED
    BY <2>1, Known DEF DecWeak, TypeOK
<1> QED
  BY <1>1, <1>2, <1>3, <1>4 DEF ThreadInv

LEMMA OtherThreadStep ==
    ASSUME IInv, NEW t \in Threads, Begin(t) \/ Release(t) \/ Acquire(t), NEW u \in Threads \ {t}
    PROVE  ThreadInv(u)'
<1>1. /\ pc'[u] = pc[u] /\ blk'[u] = blk[u]
      /\ ThreadInv(u) /\ PairInv(t, u) /\ PairInv(u, t)
      /\ pc[u] \notin {"idle", "acquire"} <=> blk[u] # NULL
      /\ NULL \notin Blocks
  BY Others, Known DEF IInv
<1>2. CASE blk[u] = NULL
  BY <1>1, <1>2 DEF ThreadInv
<1>3. CASE blk[u] # NULL
  <2>1. PICK c \in Blocks : c = blk[u]
    BY <1>3, Known
  <2>2. mem[c] = "allocated" /\ ~Creates(t, c)
    BY <1>1, <1>3, <2>1 DEF ThreadInv, Creates
  <2>3. mem'[c] = "allocated"
    BY <1>1, <1>3, <2>1, <2>2, MemChange DEF PairInv
  <2>4. nRefObj[c] = 0 => nRefObj'[c] = 0
    BY <2>2, StaysZero
  <2>5. pc[u] \in {"destroy", "dtorMember"} => tyT'[c] = tyT[c]
    BY <1>1, <1>3, <2>1, <2>2, ObjectChange DEF PairInv
  <2>6. pc[u] = "dtorMember" => ptr'[c] # NULL
    BY <1>1, <1>3, <2>1, MemberChange DEF PairInv, ThreadInv
  <2>7. pc[u] = "dealloc" => nRefWeak'[c] = 0
    BY <1>1, <1>3, <2>1, <2>2, StaysZero DEF PairInv, ThreadInv
  <2> QED
    BY <1>1, <1>3, <2>1, <2>3, <2>4, <2>5, <2>6, <2>7 DEF ThreadInv
<1> QED
  BY <1>2, <1>3

LEMMA PairStep ==
    ASSUME IInv, NEW t \in Threads, Begin(t) \/ Release(t) \/ Acquire(t), NEW u \in Threads \ {t}
    PROVE  PairInv(t, u)' /\ PairInv(u, t)'
<1>1. /\ pc'[u] = pc[u] /\ blk'[u] = blk[u]
      /\ ThreadInv(t) /\ ThreadInv(u) /\ PairInv(t, u) /\ PairInv(u, t)
      /\ pc[u] \notin {"idle", "acquire"} <=> blk[u] # NULL
      /\ NULL \notin Blocks
  BY Others, Known DEF IInv
<1> SUFFICES ASSUME blk'[t] # NULL, blk'[t] = blk[u]
             PROVE  /\ ~(pc'[t] \in {"destroy", "dtorMember"} /\ pc[u] \in {"destroy", "dtorMember"})
                    /\ pc'[t] # "dealloc" /\ pc[u] # "dealloc"
  BY <1>1 DEF PairInv
<1>2. PICK c \in Blocks : c = blk[u]
  BY Known
<1>3. ~(pc'[t] \in {"destroy", "dtorMember"} /\ pc[u] \in {"destroy", "dtorMember"})
  <2>1. SUFFICES ASSUME pc'[t] \in {"destroy", "dtorMember"}, pc[u] \in {"destroy", "dtorMember"}
                 PROVE  FALSE
    OBVIOUS
  <2>2. (DecObj(t) \/ DestroyT(t)) /\ blk[t] = c
    BY <1>2, <2>1, OwnBlock DEF DecObj, DestroyT
  <2>3. CASE DecObj(t)
    <3>1. ObjHolders(c) # {}
      BY <2>2, <2>3 DEF DecObj, ObjHolders, HoldsObj
    <3>2. nRefObj[c] # 0
      BY <3>1, Counted, Known
    <3> QED
      BY <1>1, <1>2, <2>1, <3>2 DEF ThreadInv
  <2>4. CASE DestroyT(t)
    BY <1>1, <1>2, <2>1, <2>2, <2>4 DEF DestroyT, PairInv
  <2> QED
    BY <2>2, <2>3, <2>4
<1>4. pc'[t] # "dealloc"
  <2>1. SUFFICES ASSUME pc'[t] = "dealloc" PROVE FALSE
    OBVIOUS
  <2>2. DecWeak(t) /\ pc[t] = "decWeak" /\ blk[t] = c /\ nRefWeak'[c] = 0
    <3>1. DecWeak(t)
      BY <2>1, OwnBlock
    <3>2. blk[t] \in Blocks /\ blk'[t] \in {blk[t], NULL}
      BY <3>1, Known DEF DecWeak, TypeOK
    <3>3. ThreadInv(t)'
      BY OwnThreadStep
    <3> QED
      BY <1>2, <2>1, <3>1, <3>2, <3>3 DEF ThreadInv, DecWeak
  <2>3. MemHolders(c)' = MemHolders(c) \ {t} /\ MemHolders(c)' = {}
    <3>1. nRefWeak'[c] = Cardinality(MemHolders(c)') /\ MemHolders(c)' = MemHolders(c) \ {t}
      BY <2>2, CountStep, DecWeakEffect DEF CountInv, DropsMem
    <3>2. IsFiniteSet(MemHolders(c) \ {t})
      BY HoldersFinite, FS_Subset
    <3> QED
      BY <2>2, <3>1, <3>2, FS_EmptySet
  <2>4. pc[u] \in {"cas", "incWeak", "incObj", "terminated"}
    <3>1. ~HoldsMem(u)
      BY <1>2, <2>3 DEF MemHolders
    <3>2. pc[u] # "dealloc"
      BY <1>1, <1>2, <2>2 DEF PairInv
    <3> QED
      BY <1>1, <1>2, <3>1, <3>2 DEF HoldsMem, TypeOK, IInv
  <2>5. op[u].src \in MemHolders(c) /\ op[u].src # t
    BY <1>2, <2>4, SourceHolds, Known
  <2> QED
    BY <2>3, <2>5
<1>5. pc[u] # "dealloc"
  <2>1. SUFFICES ASSUME pc[u] = "dealloc" PROVE FALSE
    OBVIOUS
  <2>2. nRefWeak[c] = 0
    BY <1>1, <1>2, <2>1 DEF ThreadInv
  <2>3. MemHolders(c) = {}
    BY <2>2, Counted, Known
  <2>4. blk'[t] # blk[t]
    BY <1>1, <2>1 DEF PairInv
  <2>5. \E s \in Slots : ptr[s] = c
    BY <1>2, <2>4, OwnBlock
  <2> QED
    BY <2>3, <2>5 DEF MemHolders
<1> QED
  BY <1>3, <1>4, <1>5

-----------------------------------------------------------------------------
(* The inductive invariant holds, and with it the properties. *)

LEMMA InvNext ==
    ASSUME IInv, NEW t \in Threads, Begin(t) \/ Release(t) \/ Acquire(t)
    PROVE  IInv'
<1>1. TypeOK'
  BY TypeStep DEF IInv
<1>2. (\A u \in Threads : OpInv(u)') /\ (\A u, v \in Threads : u # v => Apart(u, v)')
  BY OpStep
<1>3. \A b \in Blocks : CountInv(b)' /\ BlockInv(b)'
  BY CountStep, BlockStep
<1>4. \A u \in Threads : ThreadInv(u)'
  BY OwnThreadStep, OtherThreadStep
<1>5. ASSUME NEW u \in Threads, NEW v \in Threads, u # v PROVE PairInv(u, v)'
  <2>1. CASE u = t \/ v = t
    BY <1>5, <2>1, PairStep
  <2>2. CASE u # t /\ v # t
    <3>1. pc'[u] = pc[u] /\ pc'[v] = pc[v] /\ blk'[u] = blk[u] /\ blk'[v] = blk[v]
      BY <2>2, Others
    <3> QED
      BY <1>5, <3>1 DEF PairInv, IInv
  <2> QED
    BY <2>1, <2>2
<1> QED
  BY <1>1, <1>2, <1>3, <1>4, <1>5 DEF IInv

LEMMA InvStutter == IInv /\ UNCHANGED vars => IInv'
<1> SUFFICES ASSUME IInv, UNCHANGED vars PROVE IInv'
  OBVIOUS
<1>1. TypeOK'
  BY DEF IInv, vars, TypeOK
<1>2. \A t, u \in Threads : (OpInv(t)' <=> OpInv(t)) /\ (Apart(t, u)' <=> Apart(t, u))
  BY DEF vars, OpInv, Apart, Writes, Uses
<1>3. \A b \in Blocks : CountInv(b)' <=> CountInv(b)
  BY DEF vars, CountInv, MemHolders, ObjHolders, HoldsMem, HoldsObj
<1>4. \A b \in Blocks : BlockInv(b)' <=> BlockInv(b)
  BY DEF vars, BlockInv, MemHolders, ObjHolders, HoldsMem, HoldsObj
<1>5. \A t, u \in Threads : (ThreadInv(t)' <=> ThreadInv(t)) /\ (PairInv(t, u)' <=> PairInv(t, u))
  BY DEF vars, ThreadInv, PairInv
<1> QED
  BY <1>1, <1>2, <1>3, <1>4, <1>5 DEF IInv

\* IInv is an inductive invariant of every behaviour.
THEOREM Invariance == SafeSpec => []IInv
<1>1. IInv /\ [Next]_vars => IInv'
  <2>1. ASSUME IInv, Next PROVE IInv'
    BY <2>1, InvNext DEF Next
  <2> QED
    BY <2>1, InvStutter
<1> QED
  BY <1>1, InitInv, PTL DEF SafeSpec

\* Every variable keeps its type, and a thread about to touch a counter has a
\* block to touch.
THEOREM TypeCorrect == SafeSpec => []TypeOK
<1>1. IInv => TypeOK
  BY DEF IInv
<1> QED
  BY <1>1, Invariance, PTL

\* m_nRefWeak and m_nRefObj count exactly the pointers and threads that stand
\* for a reference, whatever copies, conversions and releases interleave.
THEOREM CountsExact == SafeSpec => []CountsMatchHolders
<1>1. IInv => CountsMatchHolders
  BY DEF IInv, CountInv, CountsMatchHolders
<1> QED
  BY <1>1, Invariance, PTL

\* No pointer and no thread refers to a container after it was given back.
THEOREM MemorySafe == SafeSpec => []NoUseAfterFree
<1>1. IInv => NoUseAfterFree
  <2> SUFFICES ASSUME IInv PROVE NoUseAfterFree
    OBVIOUS
  <2>1. ASSUME NEW s \in Slots, ptr[s] # NULL PROVE mem[ptr[s]] = "allocated"
    <3>1. ptr[s] \in Blocks /\ MemHolders(ptr[s]) # {}
      BY <2>1 DEF MemHolders, IInv, TypeOK
    <3> QED
      BY <3>1 DEF IInv, BlockInv
  <2> QED
    BY <2>1 DEF NoUseAfterFree, IInv, ThreadInv
<1> QED
  BY <1>1, Invariance, PTL

\* As long as anyone owns the T it is constructed and nobody destroys it.
THEOREM OwnersKeepObject == SafeSpec => []ObjectOutlivesOwners
<1>1. IInv => ObjectOutlivesOwners
  <2> SUFFICES ASSUME IInv, NEW b \in Blocks, ObjHolders(b) # {} PROVE tyT[b] = "constructed"
    BY DEF ObjectOutlivesOwners
  <2>1. nRefObj[b] # 0
    BY Counted DEF IInv
  <2> QED
    BY <2>1 DEF IInv, BlockInv
<1> QED
  BY <1>1, Invariance, PTL

\* One thread destroys a T and one thread deallocates a container, when no
\* other thread works on it.
THEOREM SingleReleaser == SafeSpec => []OneReleaser
<1>1. IInv => OneReleaser
  BY Known DEF IInv, OneReleaser, ThreadInv, PairInv, TypeOK
<1> QED
  BY <1>1, Invariance, PTL

\* T's own weak pointer is never the last reference to the block while T is
\* being destroyed.
THEOREM DestructorKeepsBlock == SafeSpec => []MemberReleaseKeepsBlock
<1>1. IInv => MemberReleaseKeepsBlock
  <2> SUFFICES ASSUME IInv, NEW t \in Threads, pc[t] = "dtorMember" PROVE nRefWeak[blk[t]] > 1
    BY DEF MemberReleaseKeepsBlock
  <2>1. PICK b \in Blocks : b = blk[t]
    BY Known
  <2>2. ptr[b] = b
    BY <2>1, Known DEF ThreadInv, BlockInv
  <2>3. b \in MemHolders(b) /\ t \in MemHolders(b) /\ b # t
    BY <2>1, <2>2, Known DEF MemHolders, HoldsMem
  <2>4. IsFiniteSet(MemHolders(b)) /\ IsFiniteSet(MemHolders(b) \ {b})
    BY HoldersFinite, FS_Subset
  <2>5. Cardinality(MemHolders(b) \ {b}) = Cardinality(MemHolders(b)) - 1
    BY <2>3, <2>4, Dropped
  <2>6. Cardinality(MemHolders(b) \ {b}) # 0 /\ Cardinality(MemHolders(b) \ {b}) \in Nat
    BY <2>3, <2>4, FS_EmptySet, FS_CardinalityType
  <2>7. nRefWeak[b] = Cardinality(MemHolders(b)) /\ Cardinality(MemHolders(b)) \in Nat
    BY <2>4, Known, FS_CardinalityType DEF CountInv
  <2> QED
    BY <2>1, <2>5, <2>6, <2>7
<1> QED
  BY <1>1, Invariance, PTL

\* No conversion revives an object whose count has been zero.
THEOREM NeverRevived == SafeSpec => NoResurrection
<1>1. ASSUME IInv, [Next]_vars
      PROVE  [\A b \in Blocks : mem[b] # "unused" /\ nRefObj[b] = 0 => nRefObj'[b] = 0]_vars
  <2>1. ASSUME Next, NEW b \in Blocks, mem[b] # "unused", nRefObj[b] = 0 PROVE nRefObj'[b] = 0
    BY <1>1, <2>1, StaysZero DEF Next, Creates
  <2> QED
    BY <1>1, <2>1
<1> QED
  BY <1>1, Invariance, PTL DEF SafeSpec, NoResurrection
-----------------------------------------------------------------------------
(* Weak pointers do not keep the object alive. *)

\* An object that nobody counts, or whose destructor has begun, is in the
\* hands of the thread that destroys it.
DeathInv(b) ==
    /\ tyT[b] = "constructed" /\ nRefObj[b] = 0 =>
          \E t \in Threads : pc[t] = "destroy" /\ blk[t] = b
    /\ tyT[b] = "destroying" => \E t \in Threads : pc[t] = "dtorMember" /\ blk[t] = b

\* A count that was just taken is not zero.
LEMMA TakenCount ==
    ASSUME TypeOK, NEW b \in Blocks, CountInv(b)', \E y : TakesObj(b, y)
    PROVE  nRefObj'[b] # 0
<1>1. PICK y : ObjHolders(b)' = ObjHolders(b) \cup {y} /\ leaked'[b] = leaked[b]
  BY DEF TakesObj
<1>2. IsFiniteSet(ObjHolders(b)')
  BY <1>1, HoldersFinite, FS_AddElement
<1>3. Cardinality(ObjHolders(b)') \in Nat /\ Cardinality(ObjHolders(b)') # 0
  BY <1>1, <1>2, FS_CardinalityType, FS_EmptySet
<1>4. leaked[b] \in Nat
  BY RefAssumption DEF TypeOK
<1> QED
  BY <1>1, <1>3, <1>4 DEF CountInv

\* Only a strong release takes the last count of an object.
LEMMA LastCount ==
    ASSUME IInv, NEW t \in Threads, Begin(t) \/ Release(t) \/ Acquire(t), NEW b \in Blocks,
           nRefObj[b] # 0, nRefObj'[b] = 0
    PROVE  DecObj(t) /\ blk[t] = b
<1>1. nRefObj' # nRefObj /\ nRefObj[b] \in Nat
  BY Known, Counted
<1>2. ~PCreate(t)
  <2>1. SUFFICES ASSUME PCreate(t) PROVE FALSE
    OBVIOUS
  <2>2. PICK c \in Blocks : nRefObj' = [nRefObj EXCEPT ![c] = 1]
    BY <1>1, <2>1 DEF PCreate
  <2> QED
    BY <1>1, <2>2, Known DEF TypeOK
<1>3. ~CasObj(t)
  <2>1. SUFFICES ASSUME CasObj(t) PROVE FALSE
    OBVIOUS
  <2>2. blk[t] = b
    BY <1>1, <2>1, Known DEF CasObj, TypeOK
  <2>3. CountInv(b)' /\ \E y : TakesObj(b, y)
    BY <2>1, <2>2, CasObjEffect, CountStep DEF Acquire
  <2> QED
    BY <1>1, <2>3, TakenCount, Known
<1>4. ~IncObj(t)
  <2>1. SUFFICES ASSUME IncObj(t) PROVE FALSE
    OBVIOUS
  <2>2. blk[t] = b
    BY <1>1, <2>1, Known DEF IncObj, TypeOK
  <2>3. CountInv(b)' /\ \E y : TakesObj(b, y)
    BY <2>1, <2>2, IncObjEffect, CountStep DEF Acquire
  <2> QED
    BY <1>1, <2>3, TakenCount, Known
<1>5. DecObj(t)
  BY <1>1, <1>2, <1>3, <1>4 DEF Begin, Release, Acquire, Call, Swap, DestroyT, DtorMember, DecWeak,
     Dealloc, EndReset, Move, WatchMove, SourceEmpty, Copy, LoadObj, CasFail, LockExpired, IncWeak
<1> QED
  BY <1>1, <1>5, Known DEF DecObj, TypeOK

\* A thread at the destructor of an object can only go on with it.
LEMMA WhoDestroys ==
    ASSUME IInv, NEW t \in Threads, Begin(t) \/ Release(t) \/ Acquire(t),
           pc[t] \in {"destroy", "dtorMember"}
    PROVE  /\ DestroyT(t) \/ DtorMember(t)
           /\ blk[t] \in Blocks /\ blk'[t] = blk[t]
           /\ tyT'[blk[t]] \in {"destroying", "destroyed"}
           /\ tyT'[blk[t]] = "destroying" => pc'[t] = "dtorMember"
<1>1. DestroyT(t) \/ DtorMember(t)
  BY DEF Begin, Release, Acquire, Call, Swap, DecObj, DecWeak, Dealloc, EndReset, PCreate, Move,
     WatchMove, SourceEmpty, Copy, LoadObj, CasObj, CasFail, LockExpired, IncWeak, IncObj
<1>2. blk[t] \in Blocks
  BY Known
<1> QED
  BY <1>1, <1>2, Known DEF DestroyT, DtorMember, TypeOK

LEMMA DeathStep ==
    ASSUME IInv, NEW t \in Threads, Begin(t) \/ Release(t) \/ Acquire(t), NEW b \in Blocks,
           DeathInv(b)
    PROVE  DeathInv(b)'
<1>1. CASE Creates(t, b)
  <2>1. tyT'[b] # "destroying" /\ ~(tyT'[b] = "constructed" /\ nRefObj'[b] = 0)
    BY <1>1, Known DEF Creates, BlockInv
  <2> QED
    BY <2>1 DEF DeathInv
<1>2. CASE pc[t] \in {"destroy", "dtorMember"} /\ blk[t] = b
  BY <1>2, WhoDestroys DEF DeathInv
<1>3. CASE ~Creates(t, b) /\ ~(pc[t] \in {"destroy", "dtorMember"} /\ blk[t] = b)
  <2>1. tyT'[b] = tyT[b]
    BY <1>3, ObjectChange
  <2>2. \A u \in Threads : pc[u] \in {"destroy", "dtorMember"} /\ blk[u] = b =>
                              pc'[u] = pc[u] /\ blk'[u] = b
    BY <1>3, Others
  <2>3. CASE nRefObj'[b] = 0 /\ nRefObj[b] # 0
    <3>1. DecObj(t) /\ blk[t] = b
      BY <2>3, LastCount
    <3>2. pc'[t] = "destroy" /\ blk'[t] = b
      BY <2>3, <3>1, Known DEF DecObj, TypeOK
    <3> QED
      BY <2>1, <2>2, <3>2 DEF DeathInv
  <2>4. CASE ~(nRefObj'[b] = 0 /\ nRefObj[b] # 0)
    BY <2>1, <2>2, <2>4 DEF DeathInv
  <2> QED
    BY <2>3, <2>4
<1> QED
  BY <1>1, <1>2, <1>3

\* A client that never assigns a strong pointer to a weak one by move leaves
\* no count behind.
NoLeak == (\A t \in Threads : op[t].kind # "watchMove") /\ (\A b \in Blocks : leaked[b] = 0)

LEMMA NoLeakStep ==
    ASSUME "watchMove" \notin Kinds, IInv, NoLeak,
           NEW t \in Threads, Begin(t) \/ Release(t) \/ Acquire(t)
    PROVE  NoLeak'
<1>1. ~WatchMove(t)
  BY DEF NoLeak, WatchMove
<1>2. leaked' = leaked
  BY <1>1 DEF Begin, Release, Acquire, Call, Swap, DecObj, DestroyT, DtorMember, DecWeak, Dealloc,
     EndReset, PCreate, Move, SourceEmpty, Copy, LoadObj, CasObj, CasFail, LockExpired, IncWeak, IncObj
<1>3. op'[t].kind # "watchMove"
  <2>1. ASSUME NEW r \in Requests, Call(t, r) PROVE op'[t].kind # "watchMove"
    BY <2>1, Known DEF Call, TypeOK
  <2>2. CASE AfterThrow(t, DtorMayThrow) \/ AfterThrow(t, TRUE)
    BY <2>2, Known, ThrowType, ThrowAssumption, ZenonT(60) DEF NoLeak
  <2>3. CASE Finish(t)
    BY <2>3, Known, FinishType DEF NoOp
  <2>4. CASE op' = op
    BY <2>4 DEF NoLeak
  <2> QED
    BY <1>1, <2>1, <2>2, <2>3, <2>4 DEF Begin, Release, Acquire, Swap, DecObj, DestroyT, DtorMember, DecWeak,
       Dealloc, EndReset, PCreate, Move, SourceEmpty, Copy, LoadObj, CasObj, CasFail, LockExpired, IncWeak, IncObj
<1>4. \A u \in Threads \ {t} : op'[u] = op[u]
  BY Others
<1> QED
  BY <1>2, <1>3, <1>4 DEF NoLeak

\* What a client that leaves no count behind can rely on.
LifeInv ==
    /\ IInv
    /\ \A b \in Blocks : DeathInv(b)
    /\ NoLeak

THEOREM LifeInvariance ==
    ASSUME "watchMove" \notin Kinds
    PROVE  SafeSpec => []LifeInv
<1>1. Init => LifeInv
  BY InitInv DEF LifeInv, Init, DeathInv, NoLeak, NoOp
<1>2. LifeInv /\ [Next]_vars => LifeInv'
  <2>1. ASSUME LifeInv, NEW t \in Threads, Begin(t) \/ Release(t) \/ Acquire(t) PROVE LifeInv'
    BY <2>1, InvNext, DeathStep, NoLeakStep DEF LifeInv
  <2>2. ASSUME LifeInv, UNCHANGED vars PROVE LifeInv'
    BY <2>2, InvStutter DEF LifeInv, vars, DeathInv, NoLeak
  <2> QED
    BY <2>1, <2>2 DEF Next
<1> QED
  BY <1>1, <1>2, PTL DEF SafeSpec

\* In the states of LifeInv, to be counted is to be held.
LEMMA HeldIsCounted ==
    ASSUME LifeInv, NEW b \in Blocks
    PROVE  /\ ObjHolders(b) # {} <=> nRefObj[b] # 0
           /\ MemHolders(b) # {} <=> nRefWeak[b] # 0
<1>1. TypeOK /\ CountInv(b) /\ leaked[b] = 0
  BY DEF LifeInv, IInv, NoLeak
<1>2. IsFiniteSet(ObjHolders(b)) /\ Cardinality(ObjHolders(b)) \in Nat
  BY HoldersFinite, FS_CardinalityType
<1>3. nRefObj[b] = Cardinality(ObjHolders(b))
  BY <1>1, <1>2 DEF CountInv
<1> QED
  BY <1>1, <1>2, <1>3, Counted, FS_EmptySet

\* A weak pointer does not prolong the life of a T: when the last owner is
\* gone, a thread that let go of it is on its way into ~T.
THEOREM WeakPointersDoNotOwn ==
    ASSUME "watchMove" \notin Kinds
    PROVE  SafeSpec => []WeakDoesNotLockObject
<1>1. LifeInv => WeakDoesNotLockObject
  BY HeldIsCounted DEF LifeInv, DeathInv, WeakDoesNotLockObject
<1> QED
  BY <1>1, LifeInvariance, PTL

-----------------------------------------------------------------------------
(* The pointers implement SharedLifetime, step by step. *)

\* What SharedLifetime sees of a block.
ObjOf(b) == IF tyT[b] = "destroying" THEN "constructed" ELSE tyT[b]
OwnedOf(b) == ObjHolders(b) # {}
WatchedOf(b) == MemHolders(b) # {}

SameView(b) ==
    /\ mem'[b] = mem[b] /\ ObjOf(b)' = ObjOf(b)
    /\ OwnedOf(b)' = OwnedOf(b) /\ WatchedOf(b)' = WatchedOf(b)

\* A step that changes nothing SharedLifetime sees is a stuttering step.
LEMMA NoViewChange ==
    ASSUME TypeOK, TypeOK', \A b \in Blocks : SameView(b)
    PROVE  UNCHANGED Lifetime!vars
<1>1. mem' = mem
  BY DEF TypeOK, SameView
<1> QED
  BY <1>1 DEF Lifetime!vars, SameView, ObjOf, OwnedOf, WatchedOf

\* A step that changes the view of one block is a step of SharedLifetime on it.
LEMMA OneViewChange ==
    ASSUME TypeOK, TypeOK', NEW c \in Blocks, \A b \in Blocks \ {c} : SameView(b),
           \/ /\ mem[c] = "unused" /\ mem'[c] = "allocated" /\ WatchedOf(c)'
              /\ \/ ObjOf(c)' = "constructed" /\ OwnedOf(c)'
                 \/ ObjOf(c)' = ObjOf(c) /\ OwnedOf(c)' = OwnedOf(c)
           \/ /\ mem'[c] = mem[c] /\ ObjOf(c)' = ObjOf(c) /\ WatchedOf(c)' = WatchedOf(c)
              /\ OwnedOf(c) /\ ~OwnedOf(c)'
           \/ /\ mem'[c] = mem[c] /\ OwnedOf(c)' = OwnedOf(c) /\ WatchedOf(c)' = WatchedOf(c)
              /\ ObjOf(c) = "constructed" /\ ~OwnedOf(c) /\ ObjOf(c)' = "destroyed"
           \/ /\ mem'[c] = mem[c] /\ OwnedOf(c)' = OwnedOf(c) /\ ObjOf(c)' = ObjOf(c)
              /\ WatchedOf(c) /\ ObjOf(c) # "constructed" /\ ~WatchedOf(c)'
           \/ /\ OwnedOf(c)' = OwnedOf(c) /\ ObjOf(c)' = ObjOf(c) /\ WatchedOf(c)' = WatchedOf(c)
              /\ mem[c] = "allocated" /\ ~WatchedOf(c) /\ mem'[c] = "freed"
    PROVE  Lifetime!Next
<1> DEFINE obj == [b \in Blocks |-> ObjOf(b)]
           owned == [b \in Blocks |-> OwnedOf(b)]
           watched == [b \in Blocks |-> WatchedOf(b)]
<1>1. /\ mem \in [Blocks -> {"unused", "allocated", "freed", "orphaned"}]
      /\ mem' \in [Blocks -> {"unused", "allocated", "freed", "orphaned"}]
      /\ \A b \in Blocks : OwnedOf(b) \in BOOLEAN /\ OwnedOf(b)' \in BOOLEAN
      /\ \A b \in Blocks : WatchedOf(b) \in BOOLEAN /\ WatchedOf(b)' \in BOOLEAN
  BY DEF TypeOK, OwnedOf, WatchedOf
<1>2. /\ mem' = [mem EXCEPT ![c] = mem'[c]]
      /\ obj' = [obj EXCEPT ![c] = ObjOf(c)']
      /\ owned' = [owned EXCEPT ![c] = OwnedOf(c)']
      /\ watched' = [watched EXCEPT ![c] = WatchedOf(c)']
  BY <1>1 DEF SameView
<1>3. /\ mem'[c] = mem[c] => mem' = mem
      /\ ObjOf(c)' = ObjOf(c) => obj' = obj
      /\ OwnedOf(c)' = OwnedOf(c) => owned' = owned
      /\ WatchedOf(c)' = WatchedOf(c) => watched' = watched
  BY <1>1 DEF SameView
<1>4. /\ OwnedOf(c)' => OwnedOf(c)' = TRUE
      /\ ~OwnedOf(c)' => OwnedOf(c)' = FALSE
      /\ WatchedOf(c)' => WatchedOf(c)' = TRUE
      /\ ~WatchedOf(c)' => WatchedOf(c)' = FALSE
  BY <1>1
<1>5. obj[c] = ObjOf(c) /\ owned[c] = OwnedOf(c) /\ watched[c] = WatchedOf(c)
  OBVIOUS
<1>6. \/ /\ mem[c] = "unused"
         /\ mem' = [mem EXCEPT ![c] = "allocated"]
         /\ watched' = [watched EXCEPT ![c] = TRUE]
         /\ \/ /\ obj' = [obj EXCEPT ![c] = "constructed"]
               /\ owned' = [owned EXCEPT ![c] = TRUE]
            \/ obj' = obj /\ owned' = owned
      \/ /\ owned[c]
         /\ owned' = [owned EXCEPT ![c] = FALSE]
         /\ mem' = mem /\ obj' = obj /\ watched' = watched
      \/ /\ obj[c] = "constructed" /\ ~owned[c]
         /\ obj' = [obj EXCEPT ![c] = "destroyed"]
         /\ mem' = mem /\ owned' = owned /\ watched' = watched
      \/ /\ watched[c] /\ obj[c] # "constructed"
         /\ watched' = [watched EXCEPT ![c] = FALSE]
         /\ mem' = mem /\ obj' = obj /\ owned' = owned
      \/ /\ mem[c] = "allocated" /\ ~watched[c]
         /\ mem' = [mem EXCEPT ![c] = "freed"]
         /\ obj' = obj /\ owned' = owned /\ watched' = watched
  <2> HIDE DEF obj, owned, watched
  <2> QED
    BY <1>2, <1>3, <1>4, <1>5
<1> QED
  BY <1>6 DEF Lifetime!Next, Lifetime!Create, Lifetime!Disown, Lifetime!Destroy, Lifetime!Unwatch,
              Lifetime!Free, ObjOf, OwnedOf, WatchedOf

\* Giving a count to another holder, or taking one more of a block that is
\* held, changes nothing that SharedLifetime sees.
Keeps(b) ==
    /\ SameMem(b) \/ (\E x, y : HandsMem(b, x, y)) \/ (MemHolders(b) # {} /\ \E y : TakesMem(b, y))
    /\ SameObj(b) \/ (\E x, y : HandsObj(b, x, y)) \/ (ObjHolders(b) # {} /\ \E y : TakesObj(b, y))

LEMMA KeepsView ==
    ASSUME NEW b \in Blocks, Keeps(b), mem'[b] = mem[b], tyT'[b] = tyT[b]
    PROVE  SameView(b)
<1>1. OwnedOf(b)' = OwnedOf(b)
  BY DEF Keeps, SameObj, HandsObj, TakesObj, OwnedOf
<1>2. WatchedOf(b)' = WatchedOf(b)
  BY DEF Keeps, SameMem, HandsMem, TakesMem, WatchedOf
<1> QED
  BY <1>1, <1>2 DEF SameView, ObjOf

\* The steps that no client of SharedLifetime sees: all that begin an operation,
\* and all that acquire a value except a creation.
LEMMA UnseenStep ==
    ASSUME LifeInv, NEW t \in Threads, Begin(t) \/ (Acquire(t) /\ ~PCreate(t)), NEW b \in Blocks
    PROVE  SameView(b)
<1>0. IInv /\ ~WatchMove(t)
  BY DEF LifeInv, NoLeak, WatchMove
<1>1. mem' = mem /\ tyT' = tyT
  BY <1>0 DEF Begin, Acquire, Call, Swap, EndReset, Move, SourceEmpty, Copy, LoadObj, CasObj, CasFail,
     LockExpired, IncWeak, IncObj
<1>2. ASSUME pc[t] \in {"cas", "incWeak", "incObj"}, blk[t] = b PROVE MemHolders(b) # {}
  BY <1>0, <1>2, SourceHolds
<1>3. Keeps(b)
  <2>1. ASSUME NEW r \in Requests, Call(t, r) PROVE Keeps(b)
    BY <1>0, <2>1, CallEffect DEF Keeps
  <2>2. ASSUME NEW x, NEW y, {x, y} \subseteq StrongPtrs \/ {x, y} \subseteq WeakPtrs, Swap(t, x, y)
        PROVE  Keeps(b)
    BY <1>0, <2>2, SwapEffect DEF Keeps
  <2>3. CASE EndReset(t) \/ SourceEmpty(t) \/ Copy(t) \/ LoadObj(t) \/ CasFail(t) \/ LockExpired(t)
    BY <1>0, <2>3, QuietEffect DEF Keeps
  <2>4. CASE Move(t)
    BY <1>0, <2>4, MoveEffect DEF Keeps
  <2>5. CASE CasObj(t)
    <3>1. blk[t] = b => ObjHolders(b) # {}
      BY <2>5, HeldIsCounted DEF CasObj
    <3> QED
      BY <1>0, <2>5, <3>1, CasObjEffect DEF Keeps
  <2>6. CASE IncWeak(t)
    <3>1. blk[t] = b => MemHolders(b) # {}
      BY <1>2, <2>6 DEF IncWeak
    <3> QED
      BY <1>0, <2>6, <3>1, IncWeakEffect DEF Keeps
  <2>7. CASE IncObj(t)
    <3>1. op[t].src \in StrongPtrs /\ pc[t] = "incObj"
      BY <1>0, <2>7, Known DEF IncObj, OpInv
    <3>2. blk[t] = b => ObjHolders(b) # {}
      BY <1>0, <3>1, SourceHolds
    <3> QED
      BY <1>0, <2>7, <3>2, IncObjEffect DEF Keeps
  <2> QED
    BY <1>0, <2>1, <2>2, <2>3, <2>4, <2>5, <2>6, <2>7 DEF Begin, Acquire
<1> QED
  BY <1>1, <1>3, KeepsView

\* PCreate is Create of the new block, or nothing.
LEMMA CreateRefines ==
    ASSUME LifeInv, TypeOK', NEW t \in Threads, PCreate(t)
    PROVE  Lifetime!Next \/ UNCHANGED Lifetime!vars
<1>0. IInv /\ TypeOK
  BY DEF LifeInv, IInv
<1>1. CASE /\ \A b \in Blocks : SameMem(b) /\ SameObj(b)
           /\ UNCHANGED <<ptr, nRefWeak, nRefObj, tyT, mem, leaked>>
  <2>1. \A b \in Blocks : SameView(b)
    BY <1>1, KeepsView DEF Keeps
  <2> QED
    BY <1>0, <2>1, NoViewChange
<1>2. CASE \E c \in Blocks :
              LET strong == op[t].dst \in StrongPtrs
              IN  /\ mem[c] = "unused" /\ mem' = [mem EXCEPT ![c] = "allocated"]
                  /\ MemHolders(c)' = {op[t].dst} /\ nRefWeak'[c] = 1
                  /\ ObjHolders(c)' = IF strong THEN {op[t].dst} ELSE {}
                  /\ nRefObj'[c] = IF strong THEN 1 ELSE 0
                  /\ tyT'[c] = IF strong THEN "constructed" ELSE tyT[c]
                  /\ leaked' = leaked
                  /\ \A b \in Blocks \ {c} : SameMem(b) /\ SameObj(b) /\ tyT'[b] = tyT[b]
                  /\ ptr' = [ptr EXCEPT ![op[t].dst] = c]
  <2>1. PICK c \in Blocks :
              LET strong == op[t].dst \in StrongPtrs
              IN  /\ mem[c] = "unused" /\ mem' = [mem EXCEPT ![c] = "allocated"]
                  /\ MemHolders(c)' = {op[t].dst}
                  /\ ObjHolders(c)' = IF strong THEN {op[t].dst} ELSE {}
                  /\ tyT'[c] = IF strong THEN "constructed" ELSE tyT[c]
                  /\ \A b \in Blocks \ {c} : SameMem(b) /\ SameObj(b) /\ tyT'[b] = tyT[b]
    BY <1>2
  <2>2. \A b \in Blocks \ {c} : SameView(b)
    <3>1. \A b \in Blocks \ {c} : mem'[b] = mem[b]
      BY <1>0, <2>1 DEF TypeOK
    <3> QED
      BY <2>1, <3>1, KeepsView DEF Keeps
  <2>3. mem[c] = "unused" /\ mem'[c] = "allocated" /\ WatchedOf(c)' /\ ~OwnedOf(c)
    <3>1. mem'[c] = "allocated"
      BY <1>0, <2>1 DEF TypeOK
    <3>2. ObjHolders(c) = {}
      BY <1>0, <2>1, Known DEF BlockInv
    <3> QED
      BY <2>1, <3>1, <3>2 DEF WatchedOf, OwnedOf
  <2>4. CASE op[t].dst \in StrongPtrs
    <3>1. ObjOf(c)' = "constructed" /\ OwnedOf(c)'
      BY <2>1, <2>4 DEF ObjOf, OwnedOf
    <3> QED
      BY <1>0, <2>2, <2>3, <3>1, OneViewChange
  <2>5. CASE op[t].dst \notin StrongPtrs
    <3>1. ObjOf(c)' = ObjOf(c) /\ OwnedOf(c)' = OwnedOf(c)
      BY <2>1, <2>3, <2>5 DEF ObjOf, OwnedOf
    <3> QED
      BY <1>0, <2>2, <2>3, <3>1, OneViewChange
  <2> QED
    BY <2>4, <2>5
<1> QED
  BY <1>0, <1>1, <1>2, CreateEffect

\* Who owns the object holds the memory as well, other than a thread that is
\* just giving up the memory.
LEMMA OwnerHoldsToo ==
    ASSUME IInv, NEW b \in Blocks, NEW t \in Threads, pc[t] = "decWeak", NEW x \in ObjHolders(b)
    PROVE  \E y \in MemHolders(b) : y # t
<1>0. Slots \cap Threads = {} /\ StrongPtrs \cup WeakPtrs \subseteq Slots
  BY DistinctAssumption DEF Slots
<1>1. CASE x \in StrongPtrs
  <2>1. ptr[x] = b /\ x \in Slots /\ x # t
    BY <1>0, <1>1 DEF ObjHolders
  <2> QED
    BY <2>1 DEF MemHolders
<1>2. CASE x \in Threads
  <2>1. blk[x] = b /\ HoldsObj(x) /\ x # t
    BY <1>0, <1>2 DEF ObjHolders, HoldsObj
  <2>2. CASE pc[x] = "decObj"
    BY <1>2, <2>1, <2>2 DEF MemHolders, HoldsMem
  <2>3. CASE pc[x] = "incWeak"
    <3>1. op[x].src \in MemHolders(b) /\ op[x].src # t
      BY <1>0, <1>2, <2>1, <2>3, SourceHolds
    <3> QED
      BY <3>1
  <2> QED
    BY <2>1, <2>2, <2>3 DEF HoldsObj
<1> QED
  BY <1>1, <1>2 DEF ObjHolders

\* The steps of a release: the last owner lets go (Disown), the object is
\* destroyed, the last reference goes (Unwatch), the block is freed.
LEMMA ReleaseRefines ==
    ASSUME ~AllocMayThrow, LifeInv, LifeInv', NEW t \in Threads, Release(t)
    PROVE  Lifetime!Next \/ UNCHANGED Lifetime!vars
<1>0. IInv /\ IInv' /\ TypeOK /\ TypeOK'
  BY DEF LifeInv, IInv
<1>1. PICK c \in Blocks : c = blk[t]
  BY <1>0, Known DEF Release, DecObj, DestroyT, DtorMember, DecWeak, Dealloc
<1>2. \A b \in Blocks \ {c} : SameMem(b) /\ SameObj(b)
  BY <1>0, <1>1, DecObjEffect, DestroyEffect, DtorMemberEffect, DecWeakEffect DEF Release
<1>3. \A b \in Blocks \ {c} : mem'[b] = mem[b] /\ tyT'[b] = tyT[b]
  <2>1. ASSUME NEW b \in Blocks \ {c} PROVE ~Creates(t, b)
    BY <1>0, <1>2, <2>1, Known DEF Creates, SameMem, BlockInv
  <2> QED
    BY <1>0, <1>1, <2>1, MemChange, ObjectChange
<1>4. \A b \in Blocks \ {c} : SameView(b)
  BY <1>2, <1>3, KeepsView DEF Keeps
<1>5. CASE DecObj(t)
  <2>1. DropsObj(c, t) /\ SameMem(c) /\ mem' = mem /\ tyT' = tyT
    BY <1>0, <1>1, <1>5, DecObjEffect DEF DecObj
  <2>2. /\ OwnedOf(c) /\ WatchedOf(c)' = WatchedOf(c)
        /\ mem'[c] = mem[c] /\ ObjOf(c)' = ObjOf(c)
    BY <2>1 DEF DropsObj, SameMem, OwnedOf, WatchedOf, ObjOf
  <2>3. CASE OwnedOf(c)'
    BY <1>0, <1>4, <2>2, <2>3, NoViewChange DEF SameView, OwnedOf
  <2>4. CASE ~OwnedOf(c)'
    BY <1>0, <1>4, <2>2, <2>4, OneViewChange
  <2> QED
    BY <2>3, <2>4
<1>6. CASE DestroyT(t) \/ DtorMember(t)
  <2>1. tyT[c] \in {"constructed", "destroying"} /\ nRefObj[c] = 0
    BY <1>0, <1>1, <1>6, Known DEF ThreadInv, DestroyT, DtorMember
  <2>2. ObjOf(c) = "constructed" /\ ~OwnedOf(c)
    BY <2>1, HeldIsCounted DEF ObjOf, OwnedOf
  <2>3. SameObj(c) /\ t \in MemHolders(c) /\ t \in MemHolders(c)'
    <3>1. t \in MemHolders(c)
      BY <1>1, <1>6 DEF DestroyT, DtorMember, MemHolders, HoldsMem
    <3> QED
      BY <1>0, <1>1, <1>6, <3>1, DestroyEffect, DtorMemberEffect DEF SameMem
  <2>4. OwnedOf(c)' = OwnedOf(c) /\ WatchedOf(c)' = WatchedOf(c)
    BY <2>3 DEF SameObj, OwnedOf, WatchedOf
  <2>5. mem'[c] = mem[c]
    <3>1. ~Creates(t, c)
      BY <1>0, <1>1, <1>6, Known DEF Creates, ThreadInv, DestroyT, DtorMember
    <3> QED
      BY <1>0, <1>6, <3>1, MemChange DEF Release, DestroyT, DtorMember
  <2>6. tyT'[c] \in {"destroying", "destroyed"}
    BY <1>0, <1>1, <1>6, WhoDestroys DEF Release, DestroyT, DtorMember
  <2>7. CASE tyT'[c] = "destroying"
    <3>1. ObjOf(c)' = ObjOf(c)
      BY <2>2, <2>7 DEF ObjOf
    <3> QED
      BY <1>0, <1>4, <2>4, <2>5, <3>1, NoViewChange DEF SameView
  <2>8. CASE tyT'[c] = "destroyed"
    <3>1. ObjOf(c)' = "destroyed"
      BY <2>8 DEF ObjOf
    <3> QED
      BY <1>0, <1>4, <2>2, <2>4, <2>5, <3>1, OneViewChange
  <2> QED
    BY <2>6, <2>7, <2>8
<1>7. CASE DecWeak(t)
  <2>1. DropsMem(c, t) /\ SameObj(c) /\ mem' = mem /\ tyT' = tyT
    BY <1>0, <1>1, <1>7, DecWeakEffect DEF DecWeak
  <2>2. /\ WatchedOf(c) /\ OwnedOf(c)' = OwnedOf(c)
        /\ mem'[c] = mem[c] /\ ObjOf(c)' = ObjOf(c)
    BY <2>1 DEF DropsMem, SameObj, OwnedOf, WatchedOf, ObjOf
  <2>3. CASE WatchedOf(c)'
    BY <1>0, <1>4, <2>2, <2>3, NoViewChange DEF SameView, WatchedOf
  <2>4. CASE ~WatchedOf(c)'
    <3>1. ObjOf(c) # "constructed"
      <4>1. SUFFICES ASSUME tyT[c] \in {"constructed", "destroying"} PROVE FALSE
        BY DEF ObjOf
      <4>2. ASSUME NEW u \in Threads, pc[u] \in {"destroy", "dtorMember"}, blk[u] = c PROVE FALSE
        <5>1. u \in MemHolders(c) /\ u # t
          BY <1>7, <4>2 DEF MemHolders, HoldsMem, DecWeak
        <5> QED
          BY <2>1, <2>4, <5>1 DEF DropsMem, WatchedOf
      <4>3. tyT[c] = "constructed" /\ nRefObj[c] # 0
        BY <4>1, <4>2 DEF LifeInv, DeathInv
      <4>4. PICK x : x \in ObjHolders(c)
        BY <4>3, HeldIsCounted
      <4>5. \E y \in MemHolders(c) : y # t
        BY <1>0, <1>1, <1>7, <4>4, OwnerHoldsToo DEF DecWeak
      <4> QED
        BY <2>1, <2>4, <4>5 DEF DropsMem, WatchedOf
    <3> QED
      BY <1>0, <1>4, <2>2, <2>4, <3>1, OneViewChange
  <2> QED
    BY <2>3, <2>4
<1>8. CASE Dealloc(t)
  <2>1. SameMem(c) /\ SameObj(c) /\ tyT' = tyT /\ mem' = [mem EXCEPT ![c] = "freed"]
    BY <1>0, <1>1, <1>8, DestroyEffect DEF Dealloc
  <2>2. mem[c] = "allocated" /\ mem'[c] = "freed" /\ ~WatchedOf(c)
    BY <1>0, <1>1, <1>8, <2>1, Known, HeldIsCounted DEF ThreadInv, Dealloc, WatchedOf, TypeOK
  <2>3. OwnedOf(c)' = OwnedOf(c) /\ ObjOf(c)' = ObjOf(c) /\ WatchedOf(c)' = WatchedOf(c)
    BY <2>1 DEF SameMem, SameObj, OwnedOf, WatchedOf, ObjOf
  <2> QED
    BY <1>0, <1>4, <2>2, <2>3, OneViewChange
<1> QED
  BY <1>5, <1>6, <1>7, <1>8 DEF Release

\* Every run of the pointers is a run of SharedLifetime, as far as safety goes:
\* a T is destroyed once, only when nobody owns it, and a block freed once,
\* only when nobody refers to it.
THEOREM PointersImplementLifetime ==
    ASSUME "watchMove" \notin Kinds, ~AllocMayThrow
    PROVE  SafeSpec => Lifetime!SafeSpec
<1>1. Init => Lifetime!Init
  <2>1. Init => \A b \in Blocks : MemHolders(b) = {} /\ ObjHolders(b) = {}
    BY DistinctAssumption DEF Init, MemHolders, ObjHolders, HoldsObj, HoldsMem, Slots
  <2> QED
    BY <2>1 DEF Init, Lifetime!Init
<1>2. LifeInv /\ LifeInv' /\ [Next]_vars => [Lifetime!Next]_(Lifetime!vars)
  <2> SUFFICES ASSUME LifeInv, LifeInv', [Next]_vars
               PROVE  Lifetime!Next \/ UNCHANGED Lifetime!vars
    OBVIOUS
  <2>0. TypeOK /\ TypeOK'
    BY DEF LifeInv, IInv
  <2>1. ASSUME NEW t \in Threads, Release(t) PROVE Lifetime!Next \/ UNCHANGED Lifetime!vars
    BY <2>1, ReleaseRefines
  <2>2. ASSUME NEW t \in Threads, PCreate(t) PROVE Lifetime!Next \/ UNCHANGED Lifetime!vars
    BY <2>0, <2>2, CreateRefines
  <2>3. ASSUME NEW t \in Threads, Begin(t) \/ (Acquire(t) /\ ~PCreate(t))
        PROVE  UNCHANGED Lifetime!vars
    BY <2>0, <2>3, UnseenStep, NoViewChange
  <2>4. CASE UNCHANGED vars
    BY <2>4 DEF vars, Lifetime!vars, ObjHolders, MemHolders, HoldsObj, HoldsMem
  <2> QED
    BY <2>1, <2>2, <2>3, <2>4 DEF Next
<1>3. SafeSpec => []LifeInv
  BY LifeInvariance
<1> QED
  BY <1>1, <1>2, <1>3, PTL DEF SafeSpec, Lifetime!SafeSpec

=============================================================================
