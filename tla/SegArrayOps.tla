---------------------------- MODULE SegArrayOps ----------------------------
(***************************************************************************)
(* The operations of SegArray (segarray.h) as functions of one array.      *)
(*                                                                         *)
(* An array is a record: "seg" is the block of segment pointers            *)
(* [m_ppbySegments, m_ppbyEndSegments) with "blocks" entries, each of them *)
(* Null or a segment of "per" (NElsPerSegment) cells; "n" is m_nElements.  *)
(* A cell holds an element or is Raw: memory that was never written, or    *)
(* in which no object lives.                                               *)
(*                                                                         *)
(* An operation yields the set of its outcomes, because an allocation, an  *)
(* element or a stream may throw.  An outcome is the array afterwards,     *)
(* how the call ended ("ok", "throw", or "crash" when it went through a    *)
(* null segment pointer, past the pointer block or across the end of a     *)
(* segment) and what was lost on the way: a "segment" nobody points to, an *)
(* "element" whose memory was given back while it lived.                   *)
(***************************************************************************)
EXTENDS Integers, SequencesExt

CONSTANTS
    OwnLifetime,    \* s_kfOwnLifetime
    NewBlocksMin,   \* s_knNumBlocksAlloc and the default of _nNewBlockMin
    SizeModulus,    \* _tySizeType counts modulo this number
    ElementThrows,  \* making or moving a single element may throw
    CopyThrows,     \* so may copying an element of an array that is copied
    DtorThrows,     \* destroying an element may throw
    Null, Raw,      \* no segment; no element
    Default, Moved  \* an element made by _tyT(), and one that was moved from

ASSUME OpsAssumption ==
    /\ {OwnLifetime, ElementThrows, CopyThrows, DtorThrows} \subseteq BOOLEAN
    /\ NewBlocksMin \in Nat \ {0} /\ SizeModulus \in Nat \ {0}

Lesser(a, b) == IF a < b THEN a ELSE b

Done(sa) == [sa |-> sa, res |-> "ok", lost |-> {}]
Thrown(sa) == [sa |-> sa, res |-> "throw", lost |-> {}]
Crashed(sa) == [sa |-> sa, res |-> "crash", lost |-> {}]

\* What comes of doing Next to every array that came through.
Then(outs, Next(_)) ==
    UNION {IF o.res = "ok" THEN {[p EXCEPT !.lost = @ \cup o.lost] : p \in Next(o.sa)} ELSE {o}
           : o \in outs}

Empty(per) == [seg |-> <<>>, blocks |-> 0, n |-> 0, per |-> per]

FHasAnyCapacity(sa) == IF sa.blocks = 0 THEN FALSE ELSE sa.seg[0] # Null

FreshSegment(per) == [k \in 0..per-1 |-> Raw]

(***************************************************************************)
(* Access to the elements                                                  *)
(***************************************************************************)

\* ElGet( at ) is the first of len cells that are really there, side by side.
Contiguous(sa, at, len) ==
    LET s == at \div sa.per IN
    /\ s < sa.blocks
    /\ sa.seg[s] # Null
    /\ (at % sa.per) + len <= sa.per

Cell(sa, i) == sa.seg[i \div sa.per][i % sa.per]

Load(sa, at, len) == [k \in 1..len |-> Cell(sa, at + k - 1)]

Store(sa, at, vals) ==
    [sa EXCEPT !.seg[at \div sa.per] =
        [k \in 0..sa.per-1 |->
            LET j == k - (at % sa.per) + 1 IN IF j \in 1..Len(vals) THEN vals[j] ELSE @[k]]]

StoreChecked(sa, at, vals) ==
    IF Contiguous(sa, at, Len(vals)) THEN Done(Store(sa, at, vals)) ELSE Crashed(sa)

Elements(sa) == Load(sa, 0, sa.n)

\* Cuts a transfer of len elements into chunks: room[done] is how many more fit
\* side by side once "done" elements have been transferred.
Chunks(len, room) ==
    LET cut[left \in 0..len] ==
            IF left = 0 THEN <<>>
            ELSE LET m == Lesser(left, room[len - left])
                 IN <<[done |-> len - left, len |-> m]>> \o cut[left - m]
    IN cut[len]

BackOffPastEnd(per, end) == (end % per) + 1
\* How many elements lie between the start of a segment and position "end" in it.
BackOff(per, end) == ((end - 1) % per) + 1

ForwardChunksAligned(per, begin, len) == Chunks(len, [done \in 0..len |-> per])

ForwardChunks(per, begin, len) ==
    Chunks(len, [done \in 0..len |-> IF done = 0 THEN per - (begin % per) ELSE per])

\* Applies Do to the array chunk by chunk, until one of them goes wrong.
ForEach(chunks, out, Do(_, _)) ==
    FoldLeft(LAMBDA o, c : IF o.res = "ok" THEN Do(o.sa, c) ELSE o, out, chunks)

\* Copies vals, which the caller holds in one piece, to "to", from the back.
CopyIn(sa, to, vals) ==
    LET end == to + Len(vals)
        copy(b, c) ==
            LET last == Len(vals) - c.done
            IN StoreChecked(b, end - c.done - c.len, SubSeq(vals, last - c.len + 1, last))
    IN ForEach(Chunks(Len(vals), [done \in 0..Len(vals) |-> BackOff(sa.per, end - done)]), Done(sa), copy)

\* Shifts the len elements that end at "from" so that they end at "to".
ShiftUp(sa, from, to, len) ==
    LET shift(b, c) ==
            LET src == from - c.done - c.len
            IN IF Contiguous(b, src, c.len)
               THEN StoreChecked(b, to - c.done - c.len, Load(b, src, c.len))
               ELSE Crashed(b)
    IN ForEach(Chunks(len, [done \in 0..len |-> Lesser(BackOff(sa.per, to - done), BackOff(sa.per, from - done))]),
               Done(sa), shift)

(***************************************************************************)
(* Memory                                                                  *)
(***************************************************************************)

AllocNewSegmentPointerBlock(sa, more) ==
    {Thrown(sa),
     Done([sa EXCEPT !.blocks = @ + more,
                     !.seg = [s \in 0..sa.blocks+more-1 |-> IF s < sa.blocks THEN @[s] ELSE Null]])}

AllocSegment(sa, s) ==
    IF sa.seg[s] # Null THEN {Done(sa)}
    ELSE {Thrown(sa), Done([sa EXCEPT !.seg[s] = FreshSegment(sa.per)])}

\* Every segment of from..to-1 that is not there yet, one after the other: a
\* failure leaves those before it.
AllocSegments(sa, from, to) ==
    LET filled(k) ==
            [sa EXCEPT !.seg = [s \in 0..sa.blocks-1 |->
                IF s \in from..k-1 /\ @[s] = Null THEN FreshSegment(sa.per) ELSE @[s]]]
    IN {Done(filled(to))} \cup {Thrown(filled(k)) : k \in {s \in from..to-1 : sa.seg[s] = Null}}

PbyAllocEnd(sa) ==
    LET cur == sa.n \div sa.per IN
    IF cur > sa.blocks THEN {Crashed(sa)}
    ELSE Then(IF cur = sa.blocks THEN AllocNewSegmentPointerBlock(sa, NewBlocksMin) ELSE {Done(sa)},
              LAMBDA b : AllocSegment(b, cur))

\* Gives the segments in S back; an object that lives in one of them is lost.
FreeSegments(sa, S) ==
    [sa |-> [sa EXCEPT !.seg = [s \in DOMAIN @ |-> IF s \in S THEN Null ELSE @[s]]],
     res |-> "ok",
     lost |-> IF OwnLifetime /\ \E s \in S : sa.seg[s] # Null /\ \E k \in 0..sa.per-1 : sa.seg[s][k] # Raw
              THEN {"element"} ELSE {}]

\* The destructors of elements first..n-1 have run, from the back.
Destroyed(sa, first) ==
    [sa EXCEPT !.seg = [s \in DOMAIN @ |->
        IF @[s] = Null THEN Null
        ELSE [k \in 0..sa.per-1 |-> IF s * sa.per + k \in first..sa.n-1 THEN Raw ELSE @[s][k]]]]

DestroyOneMore(sa, first) == {Done([Destroyed(sa, first) EXCEPT !.n = first - 1])}

\* Ends the lifetimes of the elements from "first" on.  A destructor that throws
\* leaves its element counted, although there is nothing left of it.
DestroyFrom(sa, first) ==
    {Done([Destroyed(sa, first) EXCEPT !.n = first])}
    \cup {Thrown([Destroyed(sa, k) EXCEPT !.n = k + 1]) : k \in IF DtorThrows THEN first..sa.n-1 ELSE {}}

ClearKeepsElements(sa) ==
    {[FreeSegments(sa, 0..sa.blocks-1) EXCEPT !.sa = Empty(sa.per)]}

\* Without lifetimes to end, the count is left as it is.
Clear(sa) ==
    IF sa.blocks = 0 THEN {Done(sa)}
    ELSE Then(IF OwnLifetime THEN DestroyFrom(sa, 0) ELSE {Done(sa)},
              LAMBDA b : {[FreeSegments(b, 0..b.blocks-1) EXCEPT !.sa = [Empty(b.per) EXCEPT !.n = b.n]]})

CompactUsedToo(sa) == FreeSegments(sa, {s \in DOMAIN sa.seg : s >= sa.n \div sa.per})

Compact(sa) ==
    LET needed == ((((sa.n - 1) % SizeModulus) \div sa.per) + 1) % SizeModulus
    IN FreeSegments(sa, {s \in DOMAIN sa.seg : s >= needed})

MaybeCompact(sa, fCompact) == IF fCompact THEN {Compact(sa)} ELSE {Done(sa)}

(***************************************************************************)
(* Size                                                                    *)
(***************************************************************************)

Construct(sa, v) ==
    [Store(sa, sa.n, <<v>>) EXCEPT !.n = @ + 1]

\* emplaceAtEnd and push_back: memory first, then the element, then the count.
PushBack(sa, v) ==
    Then(PbyAllocEnd(sa),
         LAMBDA b : {Done(Construct(b, v))} \cup (IF ElementThrows THEN {Thrown(b)} ELSE {}))

SetSizeSmaller(sa, n, fCompact) ==
    Then(IF OwnLifetime THEN DestroyFrom(sa, n) ELSE {Done([sa EXCEPT !.n = n])},
         LAMBDA b : MaybeCompact(b, fCompact))

\* One default-constructed element after the other.
GrowOwned(sa, n) ==
    LET grown[k \in sa.n..n] ==
            IF k = sa.n THEN {Done(sa)} ELSE Then(grown[k-1], LAMBDA b : PushBack(b, Default))
    IN grown[n]

GrowMemoryShort(sa, n, fCompact) ==
    LET more == (n \div sa.per) - sa.blocks
    IN Then(IF more > 0 THEN AllocNewSegmentPointerBlock(sa, more) ELSE {Done(sa)},
            LAMBDA b : {Done([b EXCEPT !.n = n])})

\* From the current segment to the last one needed, in this order.
GrowMemory(sa, n, fCompact) ==
    LET needed == ((n - 1) \div sa.per) + 1
        more == needed - sa.blocks
    IN Then(Then(IF more > 0
                 THEN AllocNewSegmentPointerBlock(sa,
                        IF ~fCompact /\ more < NewBlocksMin THEN NewBlocksMin ELSE more)
                 ELSE {Done(sa)},
                 LAMBDA b : AllocSegments(b, b.n \div b.per, needed)),
            LAMBDA b : MaybeCompact([b EXCEPT !.n = n], fCompact /\ more <= 0))

SetSize(sa, n, fCompact) ==
    IF n < sa.n THEN SetSizeSmaller(sa, n, fCompact)
    ELSE IF n = sa.n THEN MaybeCompact(sa, fCompact)
    ELSE IF OwnLifetime THEN Then(GrowOwned(sa, n), LAMBDA b : MaybeCompact(b, fCompact))
    ELSE GrowMemory(sa, n, fCompact)

\* pop_back: the last element is moved out, then destroyed.
PopBack(sa, fCompact) ==
    (IF ElementThrows THEN {Thrown(sa)} ELSE {})
    \cup SetSizeSmaller(IF OwnLifetime THEN Store(sa, sa.n - 1, <<Moved>>) ELSE sa, sa.n - 1, fCompact)

(***************************************************************************)
(* Removal                                                                 *)
(***************************************************************************)

\* The move assignments of a list of <<to, from>> pairs, in order.
MoveElements(sa, moves) ==
    FoldLeft(LAMBDA b, m :
                LET put == Store(b, m[1], <<Cell(b, m[2])>>)
                IN IF OwnLifetime THEN Store(put, m[2], <<Moved>>) ELSE put,
             sa, moves)

\* Moves, then drops the tail; a move that throws ends the call there.
MoveThenShrink(sa, moves, n) ==
    SetSizeSmaller(MoveElements(sa, moves), n, FALSE)
    \cup {Thrown(MoveElements(sa, SubSeq(moves, 1, k))) :
            k \in IF ElementThrows THEN 0..Len(moves)-1 ELSE {}}

RemoveMoves(sa, pos, els) == [i \in 1..sa.n-pos-els |-> <<pos + i - 1, pos + els + i - 1>>]

RemoveRange(sa, pos, els) ==
    IF els = 0 THEN {Done(sa)} ELSE MoveThenShrink(sa, RemoveMoves(sa, pos, els), sa.n - els)

\* getfirstset, getnextset and getnextnotset of the bit vector; n is "none".
NextBit(bits, from, n) == CHOOSE i \in from..n : (i \in bits \/ i = n) /\ \A j \in from..i-1 : j \notin bits

\* From the set bit "cur" on: how many elements go, and which of the others are
\* read, in order, to fill the gap.
BvRun(bits, n) ==
    LET from[cur \in 0..n] ==
            LET notSet == IF cur = n THEN n ELSE NextBit((0..n-1) \ bits, cur + 1, n)
                next == IF notSet = n THEN n ELSE NextBit(bits, notSet + 1, n)
            IN IF notSet = n THEN [removed |-> n - cur, reads |-> <<>>]
               ELSE [removed |-> notSet - cur + from[next].removed,
                     reads |-> [i \in 1..next-notSet |-> notSet + i - 1] \o from[next].reads]
    IN from

RemoveBvElements(sa, bits) ==
    IF bits = {} THEN {Done(sa)}
    ELSE LET first == NextBit(bits, 0, sa.n)
             run == BvRun(bits, sa.n)[first]
         IN MoveThenShrink(sa, [i \in 1..Len(run.reads) |-> <<first + i - 1, run.reads[i]>>],
                           sa.n - run.removed)

(***************************************************************************)
(* Bulk transfers, for types whose lifetime the array does not own         *)
(***************************************************************************)

InsertShiftsOneLess(sa, pos, vals) ==
    LET beyond == pos >= sa.n
        open(b) == IF beyond THEN Done(b) ELSE ShiftUp(b, sa.n, b.n, sa.n - pos - 1)
    IN IF vals = <<>> THEN {Done(sa)}
       ELSE Then(Then(SetSize(sa, (IF beyond THEN pos ELSE sa.n) + Len(vals), FALSE),
                      LAMBDA b : {open(b)}),
                 LAMBDA b : {CopyIn(b, pos, vals)})

Insert(sa, pos, vals) ==
    LET beyond == pos >= sa.n
        open(b) == IF beyond THEN Done(b) ELSE ShiftUp(b, sa.n, b.n, sa.n - pos)
    IN IF vals = <<>> THEN {Done(sa)}
       ELSE Then(Then(SetSize(sa, (IF beyond THEN pos ELSE sa.n) + Len(vals), FALSE),
                      LAMBDA b : {open(b)}),
                 LAMBDA b : {CopyIn(b, pos, vals)})

\* Overwrite and OverwriteFromStream first make room for all they will write.
Room(sa, end) == IF end > sa.n THEN SetSize(sa, end, FALSE) ELSE {Done(sa)}

Overwrite(sa, pos, vals) ==
    IF vals = <<>> THEN {Done(sa)}
    ELSE Then(Room(sa, pos + Len(vals)), LAMBDA b : {CopyIn(b, pos, vals)})

\* The stream fills chunk after chunk, and may fail in any of them: what that
\* chunk then holds is anybody's guess.
OverwriteFromStream(sa, pos, vals) ==
    LET chunks == ForwardChunks(sa.per, pos, Len(vals))
        fill(b, c) == StoreChecked(b, pos + c.done, SubSeq(vals, c.done + 1, c.done + c.len))
        upTo(b, k) == ForEach(SubSeq(chunks, 1, k), Done(b), fill)
        failIn(b, k) ==
            LET c == chunks[k]
                o == ForEach(<<c>>, upTo(b, k - 1),
                        LAMBDA d, e : StoreChecked(d, pos + e.done, [i \in 1..e.len |-> Raw]))
            IN IF o.res = "ok" THEN Thrown(o.sa) ELSE o
    IN IF vals = <<>> THEN {Done(sa)}
       ELSE Then(Room(sa, pos + Len(vals)),
                 LAMBDA b : {upTo(b, Len(chunks))} \cup {failIn(b, k) : k \in 1..Len(chunks)})

(***************************************************************************)
(* Copies of a whole array                                                 *)
(***************************************************************************)

CopyEndFull(src) == src.n \div src.per

\* The segments that are copied: the current one too, if it is there.
CopyEnd(src) ==
    LET cur == src.n \div src.per
    IN IF cur < src.blocks /\ src.seg[cur] # Null THEN cur + 1 ELSE cur

CopyLengthWhole(src, s) == src.per
\* How much of segment s is copied: up to the last element; but a segment in
\* which there is no element at all is copied as if it were full.
CopyLength(src, s) == IF s * src.per < src.n THEN Lesser(src.per, src.n - s * src.per) ELSE src.per

\* An object that is copied from where none lives has no value to speak of.
CopyOfSegment(src, s) ==
    [k \in 0..src.per-1 |->
        IF k >= CopyLength(src, s) THEN Raw
        ELSE IF OwnLifetime /\ src.seg[s][k] = Raw THEN Moved
        ELSE src.seg[s][k]]

CopyOf(src) ==
    [src EXCEPT !.seg = [s \in DOMAIN @ |-> IF s < CopyEnd(src) THEN CopyOfSegment(src, s) ELSE Null]]

\* The clean-up after a failure in segment s looks at the segments before s only:
\* if it was the copy of an element that threw, s is there and forgotten.
CopyFailed(src, s, made) ==
    [Thrown(Empty(src.per)) EXCEPT !.lost = {"segment"} \cup IF made > 0 THEN {"element"} ELSE {}]

CopyConstruct(src) ==
    IF src.blocks = 0 THEN {Done(Empty(src.per))}
    ELSE {Thrown(Empty(src.per))}
         \cup {IF \E s \in 0..CopyEnd(src)-1 : src.seg[s] = Null THEN Crashed(src) ELSE Done(CopyOf(src))}
         \cup UNION {{CopyFailed(src, s, made) : made \in
                            IF OwnLifetime /\ CopyThrows THEN 0..CopyLength(src, s)-1 ELSE {}}
                     : s \in 0..CopyEnd(src)-1}

(***************************************************************************)
(* Reading                                                                 *)
(***************************************************************************)

OutOfBounds == <<"out of bounds">>

LoadChecked(sa, at, len) == IF Contiguous(sa, at, len) THEN Load(sa, at, len) ELSE OutOfBounds

\* Reads what there is of the range, from the back.
Read(sa, pos, els) ==
    LET len == IF pos + els <= sa.n THEN els ELSE IF pos >= sa.n THEN 0 ELSE sa.n - pos
        end == pos + len
    IN FoldLeft(LAMBDA out, c : LoadChecked(sa, end - c.done - c.len, c.len) \o out, <<>>,
                Chunks(len, [done \in 0..len |-> BackOff(sa.per, end - done)]))

\* The ranges one after the other, until the caller's buffer is full.
ReadSegmented(sa, ranges, els) ==
    FoldLeft(LAMBDA out, r : out \o Read(sa, r.begin, Lesser(r.end - r.begin, els - Len(out))), <<>>, ranges)

\* The contiguous pieces that ApplyContiguous and WriteToFile hand on, in order.
Pieces(sa, begin, end) ==
    LET chunks == ForwardChunks(sa.per, begin, end - begin)
    IN [i \in 1..Len(chunks) |-> LoadChecked(sa, begin + chunks[i].done, chunks[i].len)]

\* The functor has used used[i] elements of piece i: adds up, until one piece is
\* not used up.
NApplyContiguous(pieces, used) ==
    FoldLeft(LAMBDA acc, i :
                IF acc.stopped THEN acc
                ELSE [total |-> acc.total + used[i], stopped |-> used[i] # Len(pieces[i])],
             [total |-> 0, stopped |-> FALSE], [i \in DOMAIN pieces |-> i]).total

\* StrSpn: the length of the longest prefix made of members of charSet.
StrSpn(str, charSet) == CHOOSE k \in 0..Len(str) :
    /\ \A i \in 1..k : str[i] \in charSet
    /\ k < Len(str) => str[k + 1] \notin charSet

FSpanChars(sa, begin, end, charSet) ==
    LET pieces == Pieces(sa, begin, end)
    IN NApplyContiguous(pieces, [i \in DOMAIN pieces |-> StrSpn(pieces[i], charSet)]) = end - begin

FGetStringView(sa, begin, end) == begin = end \/ begin \div sa.per = (end - 1) \div sa.per
=============================================================================
