--------------------------- MODULE RotatingBuffer ---------------------------
(***************************************************************************)
(* The rotating buffer of segarray.h: a SegArray with a base.  A base that *)
(* is not negative lies in the first segment; moving it over the end of    *)
(* that segment rotates the segments before it to the end of the pointer   *)
(* block and takes their elements off the count.  A negative base is just  *)
(* the position of the first element.  A buffer is a record of the array   *)
(* "sa" and "base" (m_iBaseEl), and so are the outcomes of its operations. *)
(***************************************************************************)
EXTENDS SegArrayOps

EmptyBuffer(per) == [sa |-> Empty(per), base |-> 0]

\* An operation of the array, seen as one of the buffer.
Lift(rb, outs) == {[o EXCEPT !.sa = [rb EXCEPT !.sa = o.sa]] : o \in outs}

NBaseElMagnitude(rb) == IF rb.base < 0 THEN -rb.base ELSE rb.base

NBaseOffset(rb) == IF rb.base < 0 THEN -rb.base ELSE rb.base - (rb.base % rb.sa.per)

NElements(rb) == rb.sa.n + NBaseOffset(rb)

\* Does Op(offset) if pos is not before the base; otherwise VerifyThrowSz throws.
FromBase(rb, pos, Op(_)) ==
    IF pos < NBaseElMagnitude(rb) THEN {Thrown(rb)} ELSE Lift(rb, Op(pos - NBaseOffset(rb)))

RotateKeepsCount(sa, by) ==
    [sa EXCEPT !.seg = [s \in DOMAIN @ |-> @[(s + by) % sa.blocks]]]

RotateTakesOneMore(sa, by) ==
    [sa EXCEPT !.seg = [s \in DOMAIN @ |-> @[(s + by) % sa.blocks]],
               !.n = @ - (by + 1) * sa.per]

\* The first "by" segments go behind all the others.
Rotate(sa, by) ==
    [sa EXCEPT !.seg = [s \in DOMAIN @ |-> @[(s + by) % sa.blocks]],
               !.n = @ - by * sa.per]

SetIBaseElEmpties(rb, iBaseEl) ==
    IF iBaseEl < rb.base THEN {Thrown(rb)}
    ELSE IF iBaseEl >= NElements(rb)
    THEN Lift([rb EXCEPT !.base = iBaseEl], SetSize(rb.sa, 0, FALSE))
    ELSE {Done([rb EXCEPT !.base = iBaseEl,
                          !.sa = Rotate(@, (iBaseEl \div @.per) - (rb.base \div @.per))])}

\* The shift is taken modulo the number of blocks.  Computed from a base below zero
\* it wraps around: nothing moves, or far too much.
SetIBaseEl(rb, iBaseEl) ==
    LET moved == [rb EXCEPT !.base = iBaseEl]
        shifted == (iBaseEl \div rb.sa.per) - (rb.base \div rb.sa.per)
    IN IF iBaseEl < 0 THEN IF rb.base <= 0 THEN {Done(moved)} ELSE {Thrown(rb)}
       ELSE IF iBaseEl < rb.base THEN {Thrown(rb)}
       ELSE IF iBaseEl = rb.base THEN {Done(rb)}
       ELSE IF iBaseEl >= NElements(rb)
       THEN Lift(moved, SetSize(rb.sa, iBaseEl % rb.sa.per, FALSE))
       ELSE IF rb.sa.blocks = 0 THEN {Crashed(rb)}
       ELSE IF rb.base < 0 THEN {Crashed(rb), Done(moved)}
       ELSE IF shifted = 0 THEN {Done(moved)}
       ELSE {Done([moved EXCEPT !.sa = Rotate(@, shifted)])}

HardResetIBaseEl(rb, iBaseEl) == {Done([rb EXCEPT !.base = iBaseEl])}

BufferClear(rb) == Lift([rb EXCEPT !.base = 0], Clear(rb.sa))

BufferSetSize(rb, n, fCompact) == FromBase(rb, n, LAMBDA m : SetSize(rb.sa, m, fCompact))

BufferInsert(rb, pos, vals) == FromBase(rb, pos, LAMBDA p : Insert(rb.sa, p, vals))

BufferOverwrite(rb, pos, vals) == FromBase(rb, pos, LAMBDA p : Overwrite(rb.sa, p, vals))

BufferFromStream(rb, pos, vals) == FromBase(rb, pos, LAMBDA p : OverwriteFromStream(rb.sa, p, vals))

\* What Read and ApplyContiguous hand out of [begin, end).
BufferRead(rb, begin, end) == Read(rb.sa, begin - NBaseOffset(rb), end - begin)
BufferPieces(rb, begin, end) == Pieces(rb.sa, begin - NBaseOffset(rb), end - NBaseOffset(rb))

CopyDataAndAdvanceBuffer(rb, pos, len) ==
    IF rb.base < 0 \/ pos < rb.base THEN {Thrown(rb)} ELSE SetIBaseEl(rb, pos + len)
=============================================================================
