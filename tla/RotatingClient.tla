--------------------------- MODULE RotatingClient ---------------------------
(***************************************************************************)
(* A SegArrayRotatingBuffer under a client that makes any sequence of      *)
(* calls.  It implements ElementWindow.                                    *)
(***************************************************************************)
EXTENDS RotatingBuffer

CONSTANTS
    NoArray,
    Values,         \* the elements the client stores
    SegSize,        \* NElsPerSegment, positive
    MaxPosition,    \* bound: the largest position
    MaxTransfer,    \* bound: the length of a bulk transfer
    Bases,          \* the bases the client asks for
    Careful         \* the client keeps the sign of the base, and moves the base
                    \* past the end only of a buffer with capacity

VARIABLES
    rb,     \* the buffer
    call    \* the last call

vars == <<rb, call>>

Bulk == UNION {[1..k -> Values] : k \in 0..MaxTransfer}

TypeOK ==
    /\ DOMAIN rb = {"sa", "base"} /\ rb.base \in Int
    /\ rb.sa.n \in Nat /\ rb.sa.blocks \in Nat /\ rb.sa.per = SegSize
    /\ rb.sa.seg \in [0..rb.sa.blocks-1 -> [0..SegSize-1 -> Values \cup {Raw}] \cup {Null}]

Init ==
    /\ rb = EmptyBuffer(SegSize)
    /\ call = [op |-> "none"]

Running == IF call.op = "none" THEN TRUE ELSE call.res # "crash"

Do(c, outs) ==
    \E o \in outs :
        /\ rb' = o.sa
        /\ NElements(rb') <= MaxPosition
        /\ call' = [on |-> "buffer", res |-> o.res] @@ c

Keeps(base) ==
    Careful => /\ rb.base < 0 => base < 0
               /\ base >= NElements(rb) => FHasAnyCapacity(rb.sa)

SetBase ==
    \E base \in Bases :
        /\ Keeps(base)
        /\ Do([op |-> "set base", base |-> base], SetIBaseEl(rb, base))

\* The first segment must reach up to the new base.
HardReset ==
    \E base \in Bases :
        /\ base >= 0 => base % SegSize <= rb.sa.n
        /\ Do([op |-> "hard reset", base |-> base], HardResetIBaseEl(rb, base))

ClearBuffer ==
    /\ Careful => rb.sa.n = 0
    /\ Do([op |-> "clear"], BufferClear(rb))

\* The caller asks for what is there.
CopyAndAdvance ==
    \E pos \in 0..NElements(rb) : \E len \in 0..NElements(rb)-pos :
        /\ Careful => rb.base >= 0
        /\ Keeps(pos + len)
        /\ Do([op |-> "copy and advance", begin |-> pos, base |-> pos + len,
               out |-> IF rb.base < 0 \/ pos < rb.base THEN <<>> ELSE FlattenSeq(BufferPieces(rb, pos, pos + len))],
              CopyDataAndAdvanceBuffer(rb, pos, len))

EmplaceAtEnd ==
    \E v \in Values : Do([op |-> "push_back", val |-> v], Lift(rb, PushBack(rb.sa, v)))

SetSizeTo ==
    \E n \in 0..MaxPosition, fCompact \in BOOLEAN :
        Do([op |-> "set size", n |-> n], BufferSetSize(rb, n, fCompact))

CompactBuffer == Do([op |-> "compact"], Lift(rb, {Compact(rb.sa)}))

\* Nothing at all is transferred only to where the array itself ends.
Transfer(op, Outcomes(_, _, _)) ==
    \E vals \in Bulk : \E pos \in IF vals = <<>> THEN {rb.sa.n} ELSE 0..MaxPosition-Len(vals) :
        Do([op |-> op, pos |-> pos, vals |-> vals], Outcomes(rb, pos, vals))

InsertElements == Transfer("insert", BufferInsert)
OverwriteElements == Transfer("overwrite", BufferOverwrite)
StreamElements == Transfer("overwrite from stream", BufferFromStream)

Next ==
    /\ Running
    /\ SetBase \/ HardReset \/ ClearBuffer \/ CopyAndAdvance \/ EmplaceAtEnd \/ SetSizeTo \/ CompactBuffer
       \/ InsertElements \/ OverwriteElements \/ StreamElements

Spec == Init /\ [][Next]_vars

Window == INSTANCE ElementWindow WITH
    first <- NBaseElMagnitude(rb),
    signed <- rb.base < 0,
    elements <- SubSeq(Elements(rb.sa), NBaseElMagnitude(rb) - NBaseOffset(rb) + 1, rb.sa.n)

(***************************************************************************)
(* Properties                                                              *)
(***************************************************************************)

\* Every position of the window is in a segment that is there, wherever the
\* rotation has put it, and no call goes anywhere else.
WindowIsBacked ==
    /\ Running
    /\ \A i \in 0..rb.sa.n-1 : Contiguous(rb.sa, i, 1)

\* "It is invalid to set the number of elements to be less than m_iBaseEl": the
\* buffer never ends before its base, not even after a call that threw.
EndNotBeforeBase == NElements(rb) >= NBaseElMagnitude(rb)

\* Whatever the base does, the buffer is a window on a sequence.
ImplementsWindow == Window!Spec

\* "... or switch signs which is not possible": a base below zero is never
\* replaced by one that is not.
SignIsKept == call'.op = "set base" /\ rb.base < 0 /\ call'.base >= 0 => call'.res = "throw"
=============================================================================
