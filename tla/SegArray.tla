------------------------------ MODULE SegArray ------------------------------
(***************************************************************************)
(* The segmented array of segarray.h under a client that makes any legal   *)
(* sequence of calls on a few arrays, with allocations, elements and       *)
(* streams that may throw.  One action is one call: arrays are not shared  *)
(* between threads.  SegArrayOps says what each call does to one array;    *)
(* SegArray implements ElementSeq.                                         *)
(***************************************************************************)
EXTENDS SegArrayOps

CONSTANTS
    Arrays,         \* the array objects of the client
    NoArray,        \* an object that is not constructed
    Values,         \* the elements the client stores
    SegSizes,       \* the values of NElsPerSegment the client asks for, all positive
    MaxElements,    \* bound: the size of an array, below SizeModulus
    MaxInAll,       \* bound: the size of all arrays together, when there are several
    MaxTransfer,    \* bound: the length of a bulk transfer
    Careful         \* the client compacts an owning array before it copies it, and
                    \* empties an array of plain memory before it clears it

VARIABLES
    arr,    \* the arrays
    lost,   \* history: what is lost for ever, "segment" or "element"
    call    \* the last call, with its arguments, result and how it ended

vars == <<arr, lost, call>>

Bulk == UNION {[1..k -> Values] : k \in 0..MaxTransfer}

Elems == Values \cup {Default, Moved}

Segments(per) == [0..per-1 -> Elems \cup {Raw}] \cup {Null}

IsArray(sa) ==
    /\ DOMAIN sa = {"seg", "blocks", "n", "per"}
    /\ sa.per \in SegSizes /\ sa.n \in 0..MaxElements /\ sa.blocks \in Nat
    /\ sa.seg \in [0..sa.blocks-1 -> Segments(sa.per)]

\* Every array is well formed, whatever it went through.
TypeOK ==
    /\ \A a \in Arrays : arr[a] = NoArray \/ IsArray(arr[a])
    /\ lost \subseteq {"segment", "element"}

Constructed == {a \in Arrays : arr[a] # NoArray}

Init ==
    /\ arr = [a \in Arrays |-> NoArray]
    /\ lost = {}
    /\ call = [op |-> "none"]

\* How many elements the arrays of f have in all.
InAll(f) == MapThenSumSet(LAMBDA a : IF f[a] = NoArray THEN 0 ELSE f[a].n, Arrays)

\* Once a call has gone through memory that is not there, all bets are off.
Running == IF call.op = "none" THEN TRUE ELSE call.res # "crash"

Returned(c, o) ==
    /\ call' = [res |-> o.res] @@ c
    /\ lost' = lost \cup o.lost

\* A call on one constructed array, with outcomes in outs.
On(a, c, outs) ==
    \E o \in outs :
        /\ o.sa.n <= MaxElements
        /\ arr' = [arr EXCEPT ![a] = o.sa]
        /\ Returned([on |-> a] @@ c, o)

CallConstruct(a) ==
    /\ arr[a] = NoArray
    /\ \E per \in SegSizes : On(a, [op |-> "construct"], {Done(Empty(per))})

\* ~SegArray: it may not throw, so a destructor that does ends the program.
Released(sa) == {[o EXCEPT !.res = IF @ = "throw" THEN "crash" ELSE @] : o \in Clear(sa)}

CallDestroy(a) ==
    /\ \E o \in Released(arr[a]) :
        /\ arr' = [arr EXCEPT ![a] = NoArray]
        /\ Returned([on |-> a, op |-> "destroy"], o)

\* A copy of an owning array makes objects in a segment that has no element.
Copyable(sa) ==
    Careful /\ OwnLifetime => \A s \in 0..sa.blocks-1 : sa.seg[s] # Null => s * sa.per < sa.n

\* Clear leaves the count of an array of plain memory as it was.
Clearable(sa) == Careful /\ ~OwnLifetime => sa.n = 0

CallCopyConstruct(a, b) ==
    /\ arr[a] = NoArray
    /\ Copyable(arr[b])
    /\ \E o \in CopyConstruct(arr[b]) :
        /\ arr' = IF o.res = "ok" THEN [arr EXCEPT ![a] = o.sa] ELSE arr
        /\ Returned([on |-> a, from |-> b, op |-> "copy construct"], o)

\* Swaps with a new array of the same segment size.
CallMoveConstruct(a, b) ==
    /\ arr[a] = NoArray
    /\ arr' = [arr EXCEPT ![a] = arr[b], ![b] = Empty(arr[b].per)]
    /\ Returned([on |-> a, from |-> b, op |-> "move construct"], Done(arr[b]))

\* Copies, swaps with the copy, and destroys what the array held before.
CallCopyAssign(a, b) ==
    /\ Copyable(arr[b])
    /\ \E o \in CopyConstruct(arr[b]) :
        IF o.res # "ok"
        THEN /\ Returned([on |-> a, from |-> b, op |-> "copy assign"], o)
             /\ UNCHANGED arr
        ELSE /\ arr' = [arr EXCEPT ![a] = o.sa]
             /\ \E p \in Released(arr[a]) : Returned([on |-> a, from |-> b, op |-> "copy assign"], p)

MoveAssignSwaps(a, b) ==
    /\ arr' = [arr EXCEPT ![a] = arr[b], ![b] = arr[a]]
    /\ Returned([on |-> a, from |-> b, op |-> "move assign"], Done(arr[a]))

\* Clears the array, and swaps it with the other one.
CallMoveAssign(a, b) ==
    /\ Clearable(arr[a])
    /\ \E o \in Clear(arr[a]) :
        /\ arr' = IF o.res # "ok" \/ a = b THEN [arr EXCEPT ![a] = o.sa]
                  ELSE [arr EXCEPT ![a] = arr[b], ![b] = o.sa]
        /\ Returned([on |-> a, from |-> b, op |-> "move assign"], o)

CallSwap(a, b) ==
    /\ arr' = [arr EXCEPT ![a] = arr[b], ![b] = arr[a]]
    /\ Returned([on |-> a, from |-> b, op |-> "swap"], Done(arr[a]))

CallClear(a) ==
    /\ Clearable(arr[a])
    /\ On(a, [op |-> "clear"], Clear(arr[a]))

CallInitSegmentSize(a) ==
    /\ Clearable(arr[a])
    /\ \E per \in SegSizes :
        On(a, [op |-> "init segment size"],
           Then(Clear(arr[a]), LAMBDA sa : {Done([sa EXCEPT !.per = per])}))

CallCompact(a) ==
    /\ On(a, [op |-> "compact"], {Compact(arr[a])})

CallPushBack(a) ==
    /\ \E v \in Values : On(a, [op |-> "push_back", val |-> v], PushBack(arr[a], v))

CallPopBack(a) ==
    /\ arr[a].n > 0
    /\ \E fCompact \in BOOLEAN :
        On(a, [op |-> "pop_back", out |-> Cell(arr[a], arr[a].n - 1)], PopBack(arr[a], fCompact))

CallSetSize(a) ==
    /\ \E n \in 0..MaxElements, fCompact \in BOOLEAN :
        On(a, [op |-> "set size", n |-> n], SetSize(arr[a], n, fCompact))

CallRemove(a) ==
    /\ \E pos \in 0..arr[a].n, els \in 0..arr[a].n :
        /\ pos + els <= arr[a].n
        /\ On(a, [op |-> "remove", pos |-> pos, els |-> els], RemoveRange(arr[a], pos, els))

CallRemoveBvElements(a) ==
    /\ \E bits \in SUBSET (0..arr[a].n-1) :
        On(a, [op |-> "remove bv", bits |-> bits], RemoveBvElements(arr[a], bits))

\* Bound: made only while there is no other array, as they touch no other; nothing
\* at all is transferred only to the end.
Transfer(a, op, Outcomes(_, _, _)) ==
    /\ ~OwnLifetime /\ Constructed = {a}
    /\ \E vals \in Bulk : \E pos \in IF vals = <<>> THEN {arr[a].n} ELSE 0..MaxElements-Len(vals) :
        On(a, [op |-> op, pos |-> pos, vals |-> vals], Outcomes(arr[a], pos, vals))

CallInsert(a) == Transfer(a, "insert", Insert)
CallOverwrite(a) == Transfer(a, "overwrite", Overwrite)
CallOverwriteFromStream(a) == Transfer(a, "overwrite from stream", OverwriteFromStream)

Next ==
    /\ Running
    /\ \/ \E a \in Arrays : CallConstruct(a)
       \/ \E a \in Constructed :
            \/ CallDestroy(a) \/ CallClear(a) \/ CallInitSegmentSize(a) \/ CallCompact(a)
            \/ CallPushBack(a) \/ CallPopBack(a) \/ CallSetSize(a) \/ CallRemove(a) \/ CallRemoveBvElements(a)
            \/ CallInsert(a) \/ CallOverwrite(a) \/ CallOverwriteFromStream(a)
       \/ \E a \in Arrays, b \in Constructed : CallCopyConstruct(a, b) \/ CallMoveConstruct(a, b)
       \/ \E a, b \in Constructed : CallCopyAssign(a, b) \/ CallMoveAssign(a, b) \/ CallSwap(a, b)
    /\ Cardinality(Constructed') > 1 => InAll(arr') <= MaxInAll

Spec == Init /\ [][Next]_vars

Abstract == INSTANCE ElementSeq WITH
    MovedToItself <- "cleared",
    contents <- [a \in Arrays |->
        IF arr[a] = NoArray THEN NoArray
        ELSE [i \in 1..arr[a].n |-> IF Contiguous(arr[a], i - 1, 1) THEN Cell(arr[a], i - 1) ELSE Null]]

(***************************************************************************)
(* Properties                                                              *)
(***************************************************************************)

\* The segments an array has are the first ones of its pointer block, without a
\* gap, and they hold all its elements: what emplaceAtEnd, SetSize and the copy
\* constructor rely on when they look at the current segment only.
SegmentsBackElements ==
    \A a \in Constructed :
        /\ arr[a].n <= arr[a].blocks * arr[a].per
        /\ \A s \in 1..arr[a].blocks-1 : arr[a].seg[s] # Null => arr[a].seg[s-1] # Null
        /\ \A i \in 0..arr[a].n-1 : arr[a].seg[i \div arr[a].per] # Null

\* An array that owns its elements' lifetimes has exactly the elements it counts:
\* however a call ended, none is destroyed twice and none forgotten.
LiveExactlyCounted ==
    OwnLifetime => \A a \in Constructed : \A s \in 0..arr[a].blocks-1 :
        arr[a].seg[s] # Null =>
            \A k \in 0..arr[a].per-1 : arr[a].seg[s][k] # Raw <=> s * arr[a].per + k < arr[a].n

\* No call, and no call that throws, leaves memory or an element behind that
\* nobody will ever free: "we need to free any non-null segment pointers".
NothingLost == lost = {}

\* No call goes through a segment that is not there or over the end of one:
\* every chunk of every transfer lies within one segment.
AccessInBounds == Running

\* Read, ReadSegmented, WriteToFile, ApplyContiguous, NApplyContiguous, FSpanChars
\* and FGetStringView see the elements in their order, over any range.
ReadersAgree ==
    \A a \in Constructed : LET sa == arr[a] IN
        \A begin \in 0..sa.n :
            /\ \A els \in 0..MaxElements :
                Read(sa, begin, els) = SubSeq(Elements(sa), begin + 1, Lesser(begin + els, sa.n))
            /\ \A end \in begin..sa.n :
                LET range == SubSeq(Elements(sa), begin + 1, end) IN
                /\ FlattenSeq(Pieces(sa, begin, end)) = range
                /\ FGetStringView(sa, begin, end) => begin = end \/ Contiguous(sa, begin, end - begin)
                /\ \A charSet \in SUBSET Values :
                    FSpanChars(sa, begin, end, charSet) <=> \A i \in 1..Len(range) : range[i] \in charSet
                /\ \A els \in 0..MaxElements :
                    ReadSegmented(sa, <<[begin |-> begin, end |-> end], [begin |-> 0, end |-> begin]>>, els)
                        = Abstract!Prefix(range \o SubSeq(Elements(sa), 1, begin), Lesser(els, end))

\* Whatever a client does with SegArray, it could have done to plain sequences.
ImplementsElementSeq == Abstract!Spec
=============================================================================
