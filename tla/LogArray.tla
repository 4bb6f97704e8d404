------------------------------ MODULE LogArray ------------------------------
(***************************************************************************)
(* The logarithmic array of _logarray.h: blocks of 2^min, 2^(min+1), ...,  *)
(* 2^max, 2^max, ... elements that never move, behind a pointer that is    *)
(* the only block itself as long as one block is enough, and a block of    *)
(* block pointers from then on.                                            *)
(*                                                                         *)
(* An array is a record: "n" is m_nElements, negative while the last cell  *)
(* is taken but holds no element because its constructor threw; "at" is    *)
(* what the pointer points at, the one block if not "many", else the block *)
(* pointers.  A block is a sequence of cells, an empty one is a null       *)
(* pointer; a cell holds an element or is Raw.                             *)
(*                                                                         *)
(* A call yields the set of its outcomes: any allocation, constructor or   *)
(* assignment of an element may throw.  LogArray implements ElementSeq.    *)
(***************************************************************************)
EXTENDS Integers, SequencesExt

CONSTANTS
    Arrays,         \* the array objects of the client
    Shapes,         \* their types: t_knPow2Min, t_knPow2Max, which is greater
    PtrsIn,         \* s_knAllocateBlockPtrsInBlocksOf
    Values,         \* the elements the client stores
    Default, Moved, \* an element made by _TyT(), and one that was moved from
    Raw,            \* a cell without an element
    NoArray,        \* an object that is not constructed
    MaxElements,    \* bound: the size of an array
    MaxTogether     \* bound: the size of all arrays, when there are several

VARIABLES
    arr,    \* the arrays
    shape,  \* the type of each
    call    \* the last call: its arguments, how it ended and what it lost

vars == <<arr, shape, call>>

NoBlock == <<>>
RawBlock(size) == [i \in 1..size |-> Raw]
NullPointers(n) == [i \in 1..n |-> NoBlock]
Lesser(a, b) == IF a < b THEN a ELSE b

Empty(sh) == [n |-> 0, many |-> FALSE, at |-> <<>>, shape |-> sh]

NElements(la) == IF la.n < 0 THEN -la.n - 1 ELSE la.n
NElementsAllocated(la) == IF la.n < 0 THEN -la.n ELSE la.n
FHasSingleBlock(la) == NElementsAllocated(la) <= 2 ^ la.shape.min
\* The number of pointers for so many blocks.
RoundedUp(blocks) == blocks + ((PtrsIn - blocks) % PtrsIn)

Done(la, lost) == [la |-> la, res |-> "ok", lost |-> lost]
Thrown(la, lost) == [la |-> la, res |-> "throw", lost |-> lost]
Crashed(la) == [la |-> la, res |-> "crash", lost |-> {}]

\* What comes of doing Op to every array that came through.
Then(outs, Op(_)) ==
    UNION {IF o.res = "ok" THEN {[p EXCEPT !.lost = @ \cup o.lost] : p \in Op(o.la)} ELSE {o} : o \in outs}

(***************************************************************************)
(* Where an element is                                                     *)
(***************************************************************************)

\* The block of element el of a shape, its place in it, and the size of that block.
NBlockOf(sh, el) ==
    LET fixed == 2 ^ sh.max - 2 ^ sh.min
        log == CHOOSE k \in 0..sh.max : 2 ^ k <= el + 2 ^ sh.min /\ el + 2 ^ sh.min < 2 ^ (k + 1)
    IN IF el >= fixed
       THEN [block |-> sh.max - sh.min + ((el - fixed) \div 2 ^ sh.max), at |-> (el - fixed) % 2 ^ sh.max, size |-> 2 ^ sh.max]
       ELSE [block |-> log - sh.min, at |-> el - (2 ^ log - 2 ^ sh.min), size |-> 2 ^ log]

Places == [sh \in Shapes, el \in 0..MaxElements |-> NBlockOf(sh, el)]
NBlockFromEl(la, el) == Places[la.shape, el]

\* The number of the pointer to a block, the only block having the only pointer.
Pointer(la, block) == IF FHasSingleBlock(la) THEN 1 ELSE block + 1

\* There is such a cell: the pointer is of the kind the count says, and not null.
Backed(la, p) ==
    /\ la.many # FHasSingleBlock(la)
    /\ Pointer(la, p.block) \in DOMAIN la.at
    /\ p.at < Len(la.at[Pointer(la, p.block)])

Cell(la, p) == la.at[Pointer(la, p.block)][p.at + 1]
SetCell(la, p, v) == [la EXCEPT !.at[Pointer(la, p.block)][p.at + 1] = v]
ElGet(la, i) == Cell(la, NBlockFromEl(la, i))
Elements(la) == [i \in 1..NElements(la) |-> IF Backed(la, NBlockFromEl(la, i - 1)) THEN ElGet(la, i - 1) ELSE Raw]

(***************************************************************************)
(* Growing                                                                 *)
(***************************************************************************)

\* One more cell is taken, but not by an element yet.
Taken(la) == [la EXCEPT !.n = -(@ + 1)]

\* The block at p is new.  What was allocated before is not freed if its
\* allocation fails: "pointers".
NewBlock(la, p) ==
    LET more == p.block % PtrsIn = 0
        ptrs == IF more THEN SubSeq(la.at, 1, p.block) \o NullPointers(PtrsIn) ELSE la.at
    IN {Done(Taken([la EXCEPT !.at = [ptrs EXCEPT ![p.block + 1] = RawBlock(p.size)]]), {}), Thrown(la, {})}
       \cup (IF more THEN {Thrown(la, {"pointers"})} ELSE {})

FirstBlock(la) == {Done([la EXCEPT !.n = -1, !.at = <<RawBlock(2 ^ la.shape.min)>>], {}), Thrown(la, {})}
\* From the one block to pointers to it and to a second one.
SecondBlock(la, p) ==
    {Done(Taken([la EXCEPT !.many = TRUE, !.at = <<@[1], RawBlock(p.size)>> \o NullPointers(PtrsIn - 2)]), {}), Thrown(la, {})}

PvAllocEndForgets(la) ==
    LET p == NBlockFromEl(la, NElements(la)) IN
    CASE la.at = <<>> -> FirstBlock(la)
      [] la.at # <<>> /\ p.at = 0 -> IF p.block = 1 THEN SecondBlock(la, p) ELSE NewBlock(la, p)
      [] OTHER -> {Done(Taken(la), {})}

\* A cell behind the last element: the one that a constructor left, if it threw.
PvAllocEnd(la) ==
    LET p == NBlockFromEl(la, NElements(la)) IN
    CASE la.at = <<>> -> FirstBlock(la)
      [] la.n < 0 -> {Done(la, {})}
      [] la.n > 0 /\ p.at = 0 -> IF p.block = 1 THEN SecondBlock(la, p) ELSE NewBlock(la, p)
      [] OTHER -> {Done(Taken(la), {})}

\* emplaceAtEnd: an element in that cell, whose constructor may throw.
Emplaced(la, v) ==
    LET p == NBlockFromEl(la, NElements(la)) IN
    IF ~Backed(la, p) THEN {Crashed(la)}
    ELSE {Thrown(la, {}),
          Done([SetCell(la, p, v) EXCEPT !.n = -@], IF Cell(la, p) # Raw THEN {"element"} ELSE {})}
EmplaceAtEnd(la, v) == Then(PvAllocEnd(la), LAMBDA b : Emplaced(b, v))

\* The elements vals at the end of la, one by one.
EmplaceAll(la, vals) == FoldLeft(LAMBDA outs, v : Then(outs, LAMBDA b : EmplaceAtEnd(b, v)), {Done(la, {})}, vals)

SetSizeLarger(la, size) == EmplaceAll(la, [i \in 1..size-NElements(la) |-> Default])

(***************************************************************************)
(* Shrinking                                                               *)
(***************************************************************************)

\* The sizes of the blocks up to tail.block, found backwards from that of the last.
SizesBelow(la, tail) ==
    LET size[b \in 0..tail.block] ==
            IF b = tail.block THEN tail.size
            ELSE IF b < la.shape.max - la.shape.min THEN size[b + 1] \div 2 ELSE size[b + 1]
    IN size

HeldShort(la, tail) == [SizesBelow(la, tail) EXCEPT ![tail.block] = tail.at]
HeldAll(la, tail) == [SizesBelow(la, tail) EXCEPT ![tail.block] = tail.at + 1]
\* How many elements each of those blocks holds; tail is the last cell taken.
Held(la, tail) == [SizesBelow(la, tail) EXCEPT ![tail.block] = IF la.n < 0 THEN tail.at ELSE tail.at + 1]

\* _DestructContigRange of the cells [from, to) of a block.
Destructed(block, from, to) == [i \in DOMAIN block |-> IF i \in from+1..to THEN Raw ELSE block[i]]
Destructible(block, from, to) == to <= Len(block) /\ \A i \in from+1..to : block[i] # Raw
\* What goes with the memory of blocks.
LostWith(blocks) == IF \E i \in DOMAIN blocks : \E k \in DOMAIN blocks[i] : blocks[i][k] # Raw THEN {"element"} ELSE {}
NotFreed(blocks) == IF \E i \in DOMAIN blocks : blocks[i] # NoBlock THEN {"block"} ELSE {}

\* _Clear of an array with a block, from the last block to the first, and what is
\* left of it.
Clear(la) ==
    IF la.at = <<>> THEN Done(la, {})
    ELSE LET tail == NBlockFromEl(la, NElementsAllocated(la) - 1)
             held == Held(la, tail)
             gone == [i \in 1..tail.block+1 |-> Destructed(la.at[i], 0, held[i - 1])]
         IN IF ~(/\ la.many # FHasSingleBlock(la) /\ tail.block < Len(la.at)
                 /\ \A i \in 1..tail.block+1 : Destructible(la.at[i], 0, held[i - 1]))
            THEN Crashed(la)
            ELSE Done([la EXCEPT !.n = 0, !.many = FALSE, !.at = <<>>],
                      LostWith(gone) \cup NotFreed(SubSeq(la.at, tail.block + 2, Len(la.at))))

\* The blocks of la after the elements behind the size-th went, and the blocks
\* with nothing left in them, backwards from the last one.
Shortened(la, tail, new) ==
    LET held == Held(la, tail) IN
    [i \in DOMAIN la.at |->
        CASE i - 1 \in new.block+1..tail.block -> NoBlock
          [] i - 1 = new.block -> IF new.at = 0 THEN NoBlock ELSE Destructed(la.at[i], new.at, held[i - 1])
          [] OTHER -> la.at[i]]

\* Needs memory only for fewer block pointers, and gets it first.
SetSizeSmaller(la, size) ==
    IF size = 0 THEN {Clear(la)}
    ELSE LET tail == NBlockFromEl(la, NElementsAllocated(la) - 1)
             new == NBlockFromEl(la, size)
             held == Held(la, tail)
             blocks == IF new.at = 0 THEN new.block ELSE new.block + 1
             left == Shortened(la, tail, new)
             whole == /\ tail.block < Len(la.at) /\ la.many # FHasSingleBlock(la)
                      /\ \A b \in new.block..tail.block :
                            Destructible(la.at[b + 1], IF b = new.block THEN new.at ELSE 0, held[b])
         IN CASE ~whole -> {Crashed(la)}
              [] whole /\ (blocks = 1 \/ tail.block = 0) ->
                    {Done([la EXCEPT !.n = size, !.many = FALSE, !.at = <<left[1]>>], NotFreed(Tail(left)))}
              [] whole /\ blocks > 1 /\ RoundedUp(tail.block + 1) = RoundedUp(blocks) -> {Done([la EXCEPT !.n = size, !.at = left], {})}
              [] OTHER -> {Done([la EXCEPT !.n = size, !.at = SubSeq(left, 1, RoundedUp(blocks))],
                                NotFreed(SubSeq(left, RoundedUp(blocks) + 1, Len(left)))),
                           Thrown(la, {})}

SetSize(la, size) ==
    CASE size < NElements(la) -> SetSizeSmaller(la, size)
      [] size > NElements(la) -> SetSizeLarger(la, size)
      [] OTHER -> {Done(la, {})}

\* Element m.from is moved to m.to, for each m in turn; an assignment may throw.
MoveElements(la, moves) ==
    LET move(b, m) == SetCell(SetCell(b, NBlockFromEl(b, m.to), ElGet(b, m.from)), NBlockFromEl(b, m.from), Moved)
    IN {Done(FoldLeft(move, la, moves), {})}
       \cup {Thrown(FoldLeft(move, la, SubSeq(moves, 1, k)), {}) : k \in 0..Len(moves)-1}

RemoveRange(la, pos, els) ==
    IF els = 0 THEN {Done(la, {})}
    ELSE Then(MoveElements(la, [k \in 1..NElements(la)-pos-els |-> [from |-> pos + els + k - 1, to |-> pos + k - 1]]),
              LAMBDA b : SetSizeSmaller(b, NElements(la) - els))

RemoveBvElementsAt(la, bits) ==
    LET keep == SetToSortSeq({i \in 0..NElements(la)-1 : i \notin bits /\ \E b \in bits : b < i}, LAMBDA i, j : i < j)
        first == CHOOSE b \in bits : \A c \in bits : b <= c
    IN IF bits = {} THEN {Done(la, {})}
       ELSE Then(MoveElements(la, [k \in 1..Len(keep) |-> [from |-> keep[k], to |-> first + k]]),
                 LAMBDA b : SetSizeSmaller(b, NElements(la) - Cardinality(bits)))
\* Removes the elements whose bits are set: those between move down to the first.
RemoveBvElements(la, bits) ==
    LET keep == SetToSortSeq({i \in 0..NElements(la)-1 : i \notin bits /\ \E b \in bits : b < i}, LAMBDA i, j : i < j)
        first == CHOOSE b \in bits : \A c \in bits : b <= c
    IN IF bits = {} THEN {Done(la, {})}
       ELSE Then(MoveElements(la, [k \in 1..Len(keep) |-> [from |-> keep[k], to |-> first + k - 1]]),
                 LAMBDA b : SetSizeSmaller(b, NElements(la) - Cardinality(bits)))

(***************************************************************************)
(* Reading                                                                 *)
(***************************************************************************)

ContiguousPiecesDoubling(la, begin, end) ==
    LET tail == NBlockFromEl(la, end - 1)
        first == NBlockFromEl(la, begin)
        size[b \in first.block..tail.block] ==
            IF b = first.block THEN first.size ELSE 2 * size[b - 1]
    IN IF begin = end THEN <<>>
       ELSE IF FHasSingleBlock(la) THEN <<[block |-> 0, from |-> begin, to |-> end]>>
       ELSE [k \in 1..tail.block-first.block+1 |->
                LET b == first.block + k - 1 IN
                [block |-> b, from |-> IF k = 1 THEN first.at ELSE 0,
                 to |-> IF b = tail.block THEN tail.at + 1 ELSE size[b]]]
\* ApplyContiguous: the pieces of blocks that [begin, end) consists of, forwards.
\* Up to the boundary each block is twice as long as the one before.
ContiguousPieces(la, begin, end) ==
    LET tail == NBlockFromEl(la, end - 1)
        first == NBlockFromEl(la, begin)
        size[b \in first.block..tail.block] ==
            IF b = first.block THEN first.size
            ELSE IF b - 1 < la.shape.max - la.shape.min THEN 2 * size[b - 1] ELSE size[b - 1]
    IN IF begin = end THEN <<>>
       ELSE IF FHasSingleBlock(la) THEN <<[block |-> 0, from |-> begin, to |-> end]>>
       ELSE [k \in 1..tail.block-first.block+1 |->
                LET b == first.block + k - 1 IN
                [block |-> b, from |-> IF k = 1 THEN first.at ELSE 0,
                 to |-> IF b = tail.block THEN tail.at + 1 ELSE size[b]]]

\* NApplyContiguous with a functor that is content after "most" elements.
NApplyContiguous(la, begin, end, most) ==
    FoldLeft(LAMBDA acc, p :
                LET applied == Lesser(p.to - p.from, most - acc.n) IN
                IF acc.stop THEN acc ELSE [n |-> acc.n + applied, stop |-> applied # p.to - p.from],
             [n |-> 0, stop |-> FALSE], ContiguousPieces(la, begin, end)).n

(***************************************************************************)
(* The client                                                              *)
(***************************************************************************)

Constructed == {a \in Arrays : arr[a] # NoArray}

Init ==
    /\ arr = [a \in Arrays |-> NoArray]
    /\ shape \in [Arrays -> Shapes]
    /\ call = [op |-> "none"]

Running == IF call.op = "none" THEN TRUE ELSE call.res # "crash"
InAll(f) == MapThenSumSet(LAMBDA a : IF f[a] = NoArray THEN 0 ELSE NElementsAllocated(f[a]), Arrays)

Returned(c, o) == call' = [res |-> o.res, lost |-> o.lost] @@ c

On(a, c, outs) == \E o \in outs : arr' = [arr EXCEPT ![a] = o.la] /\ Returned([on |-> a] @@ c, o)

\* A constructor that throws leaves everything it has made: its object, which has
\* the pointer to it, is not destroyed.
Abandoned(la) == (IF la.at # <<>> THEN {"block"} ELSE {}) \cup (IF NElements(la) > 0 THEN {"element"} ELSE {})
Constructs(a, c, outs) ==
    /\ arr[a] = NoArray
    /\ \E o \in outs :
        IF o.res = "ok" THEN arr' = [arr EXCEPT ![a] = o.la] /\ Returned(c, o)
        ELSE UNCHANGED arr /\ Returned(c, [o EXCEPT !.lost = @ \cup Abandoned(o.la)])

CallConstruct(a) ==
    \E n \in 0..MaxElements :
        Constructs(a, [on |-> a, op |-> "construct", n |-> n], SetSize(Empty(shape[a]), n))

\* Element by element, from an array of any shape.
CopyOf(a, b) == EmplaceAll(Empty(shape[a]), Elements(arr[b]))

CallCopyConstruct(a, b) == Constructs(a, [on |-> a, from |-> b, op |-> "copy construct"], CopyOf(a, b))

CallCopyAssign(a, b) ==
    \E o \in CopyOf(a, b) :
        IF o.res = "ok"
        THEN LET gone == Clear(arr[a])
             IN arr' = [arr EXCEPT ![a] = o.la]
                /\ Returned([on |-> a, from |-> b, op |-> "copy assign"], [gone EXCEPT !.lost = @ \cup o.lost])
        ELSE UNCHANGED arr
             /\ Returned([on |-> a, from |-> b, op |-> "copy assign"], [o EXCEPT !.lost = @ \cup Abandoned(o.la)])

CallMoveConstruct(a, b) ==
    /\ arr[a] = NoArray /\ shape[a] = shape[b]
    /\ arr' = [arr EXCEPT ![a] = arr[b], ![b] = Empty(shape[b])]
    /\ Returned([on |-> a, from |-> b, op |-> "move construct"], Done(arr[b], {}))

\* Moves the other one into a third that is swapped with this one, and goes.
CallMoveAssign(a, b) ==
    /\ shape[a] = shape[b]
    /\ IF a = b THEN UNCHANGED arr /\ Returned([on |-> a, from |-> b, op |-> "move assign"], Done(arr[a], {}))
       ELSE /\ arr' = [arr EXCEPT ![a] = arr[b], ![b] = Empty(shape[b])]
            /\ Returned([on |-> a, from |-> b, op |-> "move assign"], Clear(arr[a]))

CallSwap(a, b) ==
    /\ shape[a] = shape[b]
    /\ arr' = [arr EXCEPT ![a] = arr[b], ![b] = arr[a]]
    /\ Returned([on |-> a, from |-> b, op |-> "swap"], Done(arr[a], {}))

CallDestroy(a) ==
    /\ arr' = [arr EXCEPT ![a] = NoArray]
    /\ Returned([on |-> a, op |-> "destroy"], Clear(arr[a]))

CallClear(a) == On(a, [op |-> "clear"], {Clear(arr[a])})

CallEmplaceAtEnd(a) == \E v \in Values : On(a, [op |-> "push_back", val |-> v], EmplaceAtEnd(arr[a], v))

CallSetSize(a) == \E n \in 0..MaxElements : On(a, [op |-> "set size", n |-> n], SetSize(arr[a], n))

CallRemove(a) ==
    \E pos, els \in 0..NElements(arr[a]) :
        /\ pos + els <= NElements(arr[a])
        /\ On(a, [op |-> "remove", pos |-> pos, els |-> els], RemoveRange(arr[a], pos, els))

CallRemoveBvElements(a) ==
    \E bits \in SUBSET (0..NElements(arr[a])-1) :
        On(a, [op |-> "remove bv", bits |-> bits], RemoveBvElements(arr[a], bits))

Next ==
    /\ Running
    /\ \/ \E a \in Arrays : CallConstruct(a)
       \/ \E a \in Constructed :
            \/ CallDestroy(a) \/ CallClear(a) \/ CallEmplaceAtEnd(a) \/ CallSetSize(a)
            \/ CallRemove(a) \/ CallRemoveBvElements(a)
       \/ \E a \in Arrays, b \in Constructed : CallCopyConstruct(a, b) \/ CallMoveConstruct(a, b)
       \/ \E a, b \in Constructed : CallCopyAssign(a, b) \/ CallMoveAssign(a, b) \/ CallSwap(a, b)
    /\ InAll(arr') <= IF \E a \in Arrays : arr'[a] = NoArray THEN MaxElements ELSE MaxTogether
    /\ UNCHANGED shape

Spec == Init /\ [][Next]_vars

(***************************************************************************)
(* Properties                                                              *)
(***************************************************************************)

\* The blocks an array has are those its count needs, each of its own size and
\* behind a pointer, and every pointer behind them is null (AssertValid); exactly
\* the cells before the last constructed element hold one, so that none is
\* destroyed twice and none forgotten, wherever a constructor threw.
BlocksBackElements ==
    \A a \in Constructed : LET la == arr[a] IN
        IF la.n = 0 THEN la.at = <<>> /\ ~la.many
        ELSE LET last == NBlockFromEl(la, NElementsAllocated(la) - 1).block IN
             /\ la.many # FHasSingleBlock(la)
             /\ Len(la.at) = IF la.many THEN RoundedUp(last + 1) ELSE 1
             /\ \A i \in DOMAIN la.at :
                    Len(la.at[i]) = IF i - 1 <= last THEN 2 ^ Lesser(la.shape.min + i - 1, la.shape.max) ELSE 0
             /\ \A i \in 0..last : \A k \in 0..Len(la.at[i + 1])-1 :
                    (la.at[i + 1][k + 1] # Raw)
                        <=> (\E e \in 0..NElements(la)-1 : NBlockFromEl(la, e).block = i /\ NBlockFromEl(la, e).at = k)

\* No call goes through a null pointer, takes the one block for block pointers or
\* the other way round, or leaves a block; none destroys what is not there.
NoStrayAccess == Running

\* A call that comes through leaves nothing behind that nobody will ever free or
\* destroy.  One that throws does so only if it is a constructor, and in growing
\* loses the new block pointers at most.
OnlyConstructorsLose ==
    LET lost == IF call.op = "none" THEN {} ELSE call.lost IN
    lost # {} => /\ call.res = "throw"
                 /\ call.op \in {"construct", "copy construct", "copy assign"} \/ lost = {"pointers"}

\* ApplyContiguous sees the elements of any range in their order, each piece
\* within a block; NApplyContiguous ends where its functor is content.
ContiguousCoversRange ==
    \A a \in Constructed : LET la == arr[a] IN
        \A begin \in 0..NElements(la) : \A end \in begin..NElements(la) :
            LET pieces == ContiguousPieces(la, begin, end) IN
            /\ \A k \in DOMAIN pieces : Backed(la, [block |-> pieces[k].block, at |-> pieces[k].to - 1])
            /\ FlattenSeq([k \in DOMAIN pieces |->
                    SubSeq(la.at[Pointer(la, pieces[k].block)], pieces[k].from + 1, pieces[k].to)])
                 = SubSeq(Elements(la), begin + 1, end)
            /\ \A most \in 0..MaxElements : NApplyContiguous(la, begin, end, most) = Lesser(most, end - begin)

\* The four above.
BlocksAreSound ==
    BlocksBackElements /\ NoStrayAccess /\ OnlyConstructorsLose /\ ContiguousCoversRange

Abstract == INSTANCE ElementSeq WITH
    OwnLifetime <- TRUE, MovedToItself <- "kept",
    contents <- [a \in Arrays |-> IF arr[a] = NoArray THEN NoArray ELSE Elements(arr[a])]

\* Whatever a client does with LogArray, it could have done to plain sequences.
LogArrayIsElementSeq == Abstract!Spec
=============================================================================
