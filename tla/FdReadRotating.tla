--------------------------- MODULE FdReadRotating ---------------------------
(***************************************************************************)
(* The reader of fdrotbuf.h: characters of a file that cannot be sought    *)
(* pass through a rotating buffer, either one by one or, with read-ahead,  *)
(* several segments at a time.  The client gets characters, goes back to   *)
(* the base, and consumes or discards what it has seen.  The characters of *)
(* the file are its own; Raw is a character nobody has read.               *)
(***************************************************************************)
EXTENDS RotatingBuffer

CONSTANTS
    File,               \* the characters of the file
    SegSize,            \* NElsPerSegment
    SegmentsReadAhead,  \* s_knSegmentsReadAhead
    CharSize,           \* sizeof _tyChar
    Unlimited,          \* m_stchLenRead when the client gave no length
    LenReads,           \* the lengths the client may ask for
    KnownLength,        \* the client reads ahead only within the file's length
    ShortReads,         \* read() may give less than asked for before the end, as on a pipe
    GivesUp             \* the client calls no more once a call has thrown

VARIABLES
    saBuffer,   \* m_saBuffer
    stchLenRead,\* m_stchLenRead
    posCur,     \* m_posCur
    fReadAhead, \* m_fReadAhead
    fdPos,      \* where the file descriptor is
    got         \* the last call: where it was made, what it gave, how it ended

vars == <<saBuffer, stchLenRead, posCur, fReadAhead, fdPos, got>>

Chars == {File[i] : i \in 1..Len(File)} \cup {Raw}

TypeOK ==
    /\ saBuffer.base \in Nat /\ saBuffer.sa.n \in Nat
    /\ saBuffer.sa.seg \in [0..saBuffer.sa.blocks-1 -> [0..SegSize-1 -> Chars] \cup {Null}]
    /\ stchLenRead \in LenReads /\ fReadAhead \in BOOLEAN
    /\ posCur \in Nat /\ fdPos \in 0..Len(File)

Init ==
    /\ saBuffer = EmptyBuffer(SegSize)
    /\ stchLenRead \in LenReads
    /\ fReadAhead \in BOOLEAN
    /\ KnownLength /\ fReadAhead => stchLenRead \in 0..Len(File)
    /\ posCur = 0 /\ fdPos = 0
    /\ got = [op |-> "Init", res |-> "ok"]

NLenRemainingWhole(most) == IF stchLenRead = Unlimited THEN most ELSE Lesser(most, stchLenRead)

NLenRemainingOneLess(most) ==
    IF stchLenRead = Unlimited THEN most ELSE Lesser(most, stchLenRead - posCur - 1)

\* _NLenRemaining, capped: no more than "most" is asked for at a time.
NLenRemaining(most) ==
    IF stchLenRead = Unlimited THEN most ELSE Lesser(most, stchLenRead - posCur)

Buffered == posCur # NElements(saBuffer)

Gives(res, chr) == got' = [op |-> "FGetChar", res |-> res, pos |-> posCur, chr |-> chr]

Eof ==
    /\ \/ NLenRemaining(1) = 0
       \/ ~Buffered /\ ~fReadAhead /\ fdPos = Len(File)
    /\ Gives("eof", Raw)
    /\ UNCHANGED <<saBuffer, stchLenRead, posCur, fReadAhead, fdPos>>

\* FileRead fails before anything is stored.
ReadError ==
    /\ ~Buffered /\ ~fReadAhead
    /\ NLenRemaining(1) > 0
    /\ Gives("throw", Raw)
    /\ UNCHANGED <<saBuffer, stchLenRead, posCur, fReadAhead, fdPos>>

GetOneAfter ==
    /\ ~Buffered /\ ~fReadAhead
    /\ NLenRemaining(1) > 0 /\ fdPos < Len(File)
    /\ \E o \in BufferOverwrite(saBuffer, posCur + 1, <<File[fdPos + 1]>>) :
        /\ saBuffer' = o.sa
        /\ Gives(o.res, File[fdPos + 1])
    /\ fdPos' = fdPos + 1
    /\ posCur' = posCur + 1
    /\ UNCHANGED <<stchLenRead, fReadAhead>>

\* sizeof _rc elements are stored, of which the first is the character; the
\* position has been moved before that, even if there is no memory.
GetOne ==
    /\ ~Buffered /\ ~fReadAhead
    /\ NLenRemaining(1) > 0 /\ fdPos < Len(File)
    /\ \E o \in BufferOverwrite(saBuffer, posCur,
                         [i \in 1..CharSize |-> IF i = 1 THEN File[fdPos + 1] ELSE Raw]) :
        /\ saBuffer' = o.sa
        /\ Gives(o.res, File[fdPos + 1])
    /\ fdPos' = fdPos + 1
    /\ posCur' = posCur + 1
    /\ UNCHANGED <<stchLenRead, fReadAhead>>

FromBuffer(rb, pos) ==
    LET read == BufferRead(rb, pos, pos + 1) IN IF read = <<>> THEN Raw ELSE read[1]

\* Puts the next "count" characters of the file at position posCur.
Filled(rb, count) ==
    LET chunks == ForwardChunks(SegSize, posCur - NBaseOffset(rb), count)
        put(sa, c) ==
            StoreChecked(sa, posCur - NBaseOffset(rb) + c.done,
                         SubSeq(File, fdPos + c.done + 1, fdPos + c.done + c.len))
    IN [rb EXCEPT !.sa = ForEach(chunks, Done(@), put).sa]

\* What reading segment by segment comes to: it ends with the first segment that
\* is not filled.
ReadAheadCounts(sizeAdd) ==
    LET most == Lesser(sizeAdd, Len(File) - fdPos)
    IN {most} \cup {c \in 1..most : ShortReads /\ c % SegSize # 0}

\* The buffer has been made larger, and stays so whatever is read.
ReadAheadSucceeds(rb, sizeAdd) ==
    \E count \in ReadAheadCounts(sizeAdd) :
       /\ saBuffer' = Filled(rb, count)
       /\ fdPos' = fdPos + count
       /\ posCur' = posCur + 1
       /\ Gives("ok", FromBuffer(saBuffer', posCur))

\* ... or the reading of one of the segments fails.
ReadAheadFails(rb, sizeAdd) ==
    /\ \E k \in 0..Len(ForwardChunks(SegSize, posCur - NBaseOffset(rb), sizeAdd))-1 :
        LET count == Lesser(k * SegSize, Len(File) - fdPos)
        IN /\ saBuffer' = Filled(rb, count)
           /\ fdPos' = fdPos + count
    /\ Gives("throw", Raw)
    /\ UNCHANGED posCur

GetAhead ==
    /\ ~Buffered /\ fReadAhead
    /\ NLenRemaining(1) > 0
    /\ LET sizeAdd == NLenRemaining(SegSize * SegmentsReadAhead) IN
       \E o \in BufferSetSize(saBuffer, posCur + sizeAdd, FALSE) :
        IF o.res = "ok"
        THEN ReadAheadSucceeds(o.sa, sizeAdd) \/ ReadAheadFails(o.sa, sizeAdd)
        ELSE /\ saBuffer' = o.sa
             /\ Gives("throw", Raw)
             /\ UNCHANGED <<posCur, fdPos>>
    /\ UNCHANGED <<stchLenRead, fReadAhead>>

GetBuffered ==
    /\ Buffered
    /\ NLenRemaining(1) > 0
    /\ Gives("ok", FromBuffer(saBuffer, posCur))
    /\ posCur' = posCur + 1
    /\ UNCHANGED <<saBuffer, stchLenRead, fReadAhead, fdPos>>

FGetChar == Eof \/ ReadError \/ GetOne \/ GetAhead \/ GetBuffered

ResetPositionToBase ==
    /\ posCur' = saBuffer.base
    /\ got' = [op |-> "ResetPositionToBase", res |-> "ok"]
    /\ UNCHANGED <<saBuffer, stchLenRead, fReadAhead, fdPos>>

\* The caller consumes what it has seen.
ConsumeData ==
    /\ \E len \in 0..Lesser(posCur, NElements(saBuffer))-saBuffer.base :
        \E o \in CopyDataAndAdvanceBuffer(saBuffer, saBuffer.base, len) :
            /\ saBuffer' = o.sa
            /\ posCur' = IF o.res = "ok" THEN o.sa.base ELSE posCur
            /\ got' = [op |-> "ConsumeData", res |-> o.res, pos |-> saBuffer.base,
                       str |-> FlattenSeq(BufferPieces(saBuffer, saBuffer.base, saBuffer.base + len))]
    /\ UNCHANGED <<stchLenRead, fReadAhead, fdPos>>

DiscardData ==
    /\ \E posEnd \in saBuffer.base..posCur :
        \E o \in SetIBaseEl(saBuffer, posEnd) :
            /\ saBuffer' = o.sa
            /\ posCur' = IF o.res = "ok" THEN posEnd ELSE posCur
            /\ got' = [op |-> "DiscardData", res |-> o.res]
    /\ UNCHANGED <<stchLenRead, fReadAhead, fdPos>>

GetCurrentString == BufferRead(saBuffer, saBuffer.base, posCur)

Threw == got.res = "throw"

Next ==
    /\ ~(GivesUp /\ Threw)
    /\ FGetChar \/ ResetPositionToBase \/ ConsumeData \/ DiscardData

Spec == Init /\ [][Next]_vars

(***************************************************************************)
(* Properties                                                              *)
(***************************************************************************)

\* "Return a character and true": the character is the one of the file at the
\* position where it was asked for, however often the client went back, consumed
\* and discarded, and wherever the segments of the buffer have gone.
CharsInFileOrder ==
    got.op = "FGetChar" /\ got.res = "ok" =>
        got.pos < Len(File) /\ got.chr = File[got.pos + 1]

\* What the client has seen since the base is in the buffer, and what it consumes
\* is what the file has there.
SeenIsInBuffer ==
    /\ ~Threw => GetCurrentString = SubSeq(File, saBuffer.base + 1, posCur)
    /\ got.op = "ConsumeData" /\ got.res = "ok" =>
        got.str = SubSeq(File, got.pos + 1, got.pos + Len(got.str))

\* "Or false for EOF": only at the end of the file or of the length asked for.
EofOnlyAtEnd ==
    got.op = "FGetChar" /\ got.res = "eof" => posCur \in {Len(File), stchLenRead}

\* "Otherwise reading will read until EOF": never beyond it.
ReadingStopsAtEof == posCur <= Len(File)

\* "The current end of the buffer is register with the current position of the fd."
FdAtEndOfBuffer == ~Threw => NElements(saBuffer) = fdPos
=============================================================================
