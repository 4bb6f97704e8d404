----------------------------- MODULE MCBuffers -----------------------------
(***************************************************************************)
(* Small instances of the segmented array and of what is built on it, each *)
(* used by itself; which says which one: arrays that own their elements,   *)
(* arrays of plain memory, the rotating buffer, the reader of a file, or   *)
(* the streams of several threads on one file in memory.                   *)
(***************************************************************************)
EXTENDS MemFile

CONSTANTS
    Which,          \* the ones to use
    Arrays, NoArray,
    Element,        \* what the client stores in arrays that own, and in the buffer
    Byte, RawByte,  \* what it stores in arrays of plain memory; memory that was
                    \* never written holds RawByte, like any other
    Bases,
    Unlimited, LenReads, KnownLength

VARIABLES
    which,
    arr, lost, call,
    rb, calledBuffer,
    saBuffer, stchLenRead, posRead, fReadAhead, fdPos, got

Owned == INSTANCE SegArray WITH
    OwnLifetime <- TRUE, ElementThrows <- TRUE, Values <- {Element}, SegSizes <- {1, 2},
    MaxElements <- 4, MaxInAll <- 3, MaxTransfer <- 0

Bytes == INSTANCE SegArray WITH
    Raw <- RawByte, Values <- {Byte, RawByte}, SegSizes <- {2},
    MaxElements <- 4, MaxInAll <- 3, MaxTransfer <- 2

Client == INSTANCE RotatingClient WITH
    Values <- {Element}, SegSize <- 2, MaxPosition <- 5, MaxTransfer <- 1, call <- calledBuffer

Digits == [i \in 1..7 |-> i]

Reader == INSTANCE FdReadRotating WITH
    File <- Digits, SegSize <- 2, SegmentsReadAhead <- 2, CharSize <- 1, ShortReads <- FALSE, GivesUp <- TRUE,
    posCur <- posRead

AllBases == -1..5
FewBases == -1..2
Lengths == {Unlimited, 0, 3, 6, 7, 9}
NoLength == {Unlimited}

arrayVars == <<arr, lost, call>>
clientVars == <<rb, calledBuffer>>
readerVars == <<saBuffer, stchLenRead, posRead, fReadAhead, fdPos, got>>
allVars == <<which, vars, arrayVars, clientVars, readerVars>>

BuffersInit ==
    /\ which \in Which
    /\ Init /\ Owned!Init /\ Client!Init /\ Reader!Init
    /\ which # "reader" => ~fReadAhead /\ stchLenRead = Unlimited

\* Every one but the threads may stop where it is.
BuffersNext ==
    /\ which' = which
    /\ \/ which = "file" /\ Next /\ UNCHANGED <<arrayVars, clientVars, readerVars>>
       \/ which = "owned" /\ Owned!Next /\ UNCHANGED <<vars, clientVars, readerVars>>
       \/ which = "bytes" /\ Bytes!Next /\ UNCHANGED <<vars, clientVars, readerVars>>
       \/ which = "buffer" /\ Client!Next /\ UNCHANGED <<vars, arrayVars, readerVars>>
       \/ which = "reader" /\ Reader!Next /\ UNCHANGED <<vars, arrayVars, clientVars>>
       \/ which # "file" /\ UNCHANGED <<vars, arrayVars, clientVars, readerVars>>

BuffersSpec == BuffersInit /\ [][BuffersNext]_allVars

\* The arrays are named as the threads are, who never meet them.
Symm == Permutations(Threads) \cup Permutations(Values)

\* What the next calls depend on: the last call matters only if it crashed.
View == CASE which = "file" -> <<which, vars>>
          [] which \in {"owned", "bytes"} -> <<which, arr, lost, Owned!Running>>
          [] which = "buffer" -> <<which, rb, Client!Running>>
          [] which = "reader" -> <<which, readerVars>>

-----------------------------------------------------------------------------

\* Every array is well formed: its segments are the first of its pointer block and
\* back all its elements, and no call goes anywhere else.
ElementsAreBacked ==
    /\ which = "owned" => Owned!TypeOK /\ Owned!SegmentsBackElements
    /\ which = "bytes" => Bytes!SegmentsBackElements /\ Bytes!AccessInBounds

\* "We need to free any non-null segment pointers allocated above"
\* (segarray.h:115): no call leaves anything behind.
NothingLost == lost = {}

\* The elements that live are the ones an array counts, and no memory is lost.
LiveExactlyCounted == which = "owned" => Owned!LiveExactlyCounted /\ NothingLost

\* Every way to read gives the elements of the range, in their order.
ReadersAgree == which = "bytes" => Bytes!ReadersAgree

\* Every position of the window is in memory that is there, and none is before it.
WindowIsBacked == which = "buffer" => Client!TypeOK /\ Client!WindowIsBacked /\ Client!EndNotBeforeBase

\* See RotatingClient.
SignNeverSwitches == [][Client!SignIsKept]_clientVars

\* Characters are the ones of the file, wherever the segments have gone.
CharsInFileOrder == which = "reader" => Reader!CharsInFileOrder

\* What was seen since the base, and no more, is in the buffer.
SeenIsInBuffer == which = "reader" => Reader!TypeOK /\ Reader!SeenIsInBuffer /\ Reader!FdAtEndOfBuffer

\* "Otherwise reading will read until EOF" (fdrotbuf.h:21): see FdReadRotating.
ReadingStopsAtEof == Reader!ReadingStopsAtEof

\* The end is where the reader says it is.
EofOnlyAtEnd == which = "reader" => Reader!EofOnlyAtEnd /\ ReadingStopsAtEof

\* Arrays of both kinds are sequences, and the buffer is a window on one: whatever
\* a client does with them, it could have done to those.
ImplementsElementSeq ==
    /\ Owned!Abstract!Init
    /\ [][CASE which = "owned" -> Owned!Abstract!Next \/ UNCHANGED arrayVars
            [] which = "bytes" -> Bytes!Abstract!Next \/ UNCHANGED arrayVars
            [] OTHER -> TRUE]_arrayVars
ImplementsWindow ==
    /\ Client!Window!Init
    /\ [][which = "buffer" => Client!Window!Next \/ UNCHANGED clientVars]_clientVars
=============================================================================
