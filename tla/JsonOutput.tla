----------------------------- MODULE JsonOutput ------------------------------
(***************************************************************************)
(* The output streams of jsonstrm.h and the FileObj they hold (_fdobjs.h):  *)
(* one writes each character to the file, one keeps the text in memory until *)
(* it closes, and one writes into a mapping of the file, which it makes     *)
(* larger a block at a time and cuts to size when it closes.  Calls of the  *)
(* system may fail.                                                        *)
(***************************************************************************)
EXTENDS Integers, SequencesExt

CONSTANTS Block,      \* s_knGrowFileByBytes
          MostBytes,  \* bytes written to a file
          MostFiles,  \* files opened
          AsMeant     \* the client keeps to what the streams can do

ASSUME OutputAssumption ==
    Block \in Nat \ {0} /\ MostBytes \in Nat /\ MostFiles \in Nat /\ AsMeant \in BOOLEAN

VARIABLES st,      \* the stream
          files,   \* by handle: whether it is open, its bytes, and what should be in it
          outcome  \* of the last call: it is open, closed or gone, or the call threw

outputVars == <<st, files, outcome>>

Invalid == 0
Attached == MostFiles + 1  \* a handle whose lifetime is the client's, as of stdout
Handles == 1 .. Attached

\* FileObj is [h, owns].  swap exchanges the handles and not who owns them.
FileObj(h, owns) == [h |-> h, owns |-> owns]
Moved(fo) == FileObj(fo.h, TRUE)
FIsOpen(fo) == fo.h # Invalid

CloseObj(fs, fo) == IF FIsOpen(fo) /\ fo.owns THEN [fs EXCEPT ![fo.h].open = FALSE] ELSE fs

Unused == [open |-> FALSE, used |-> FALSE, bytes |-> <<>>, want |-> <<>>, sound |-> TRUE]
Closed(kind) == [kind |-> kind, fo |-> FileObj(Invalid, TRUE), map |-> FALSE, cur |-> 0, size |-> 0, mem |-> <<>>]
FOpened == FIsOpen(st.fo)
File == files[st.fo.h]
Fresh == {h \in 1 .. MostFiles : ~files[h].used}

Padded(s, n) == [i \in 1 .. n |-> IF i <= Len(s) THEN s[i] ELSE 0]
Failed(fs, h) == IF h = Invalid THEN fs ELSE [fs EXCEPT ![h].sound = FALSE]

InitOutput ==
    /\ \E kind \in {"file", "memory", "mapped"} : st = Closed(kind)
    /\ files = [h \in Handles |-> IF h = Attached THEN [Unused EXCEPT !.open = TRUE, !.used = TRUE] ELSE Unused]
    /\ outcome = "closed"

\* Close: what becomes of the files, when the calls that it makes succeed or not.
ClosedFile(good) == CloseObj(files, st.fo)
ClosedMemory(good) ==
    IF ~FOpened THEN files
    ELSE LET written == IF good THEN [files EXCEPT ![st.fo.h].bytes = st.mem] ELSE Failed(files, st.fo.h)
         IN  CloseObj(written, Moved(st.fo))

ClosedMapped(good) ==
    LET cut == IF st.map /\ good THEN [files EXCEPT ![st.fo.h].bytes = SubSeq(@, 1, st.cur)]
               ELSE Failed(files, st.fo.h)
    IN  CloseObj(cut, st.fo)

FilesClosed(good) == CASE st.kind = "file" -> ClosedFile(good)
                       [] st.kind = "memory" -> ClosedMemory(good)
                       [] OTHER -> ClosedMapped(good)
StreamClosed == [st EXCEPT !.fo.h = Invalid, !.map = FALSE]

CloseStream ==
    /\ outcome # "gone"
    /\ \E good \in BOOLEAN : /\ files' = FilesClosed(good)
                             /\ outcome' = IF good \/ ~FOpened THEN "closed" ELSE "threw"
    /\ st' = StreamClosed

\* The destructor: of the file stream that of its FileObj, of the others Close.
DestroyStream ==
    /\ outcome # "gone"
    /\ \E good \in BOOLEAN : files' = FilesClosed(good)
    /\ st' = StreamClosed /\ outcome' = "gone"

\* Open closes first, and throws if that fails.  The mapping is of a first block.
\* The memory keeps what it held.
OpenStream ==
    /\ outcome = "closed" /\ Fresh # {}
    /\ AsMeant /\ st.kind = "memory" => st.mem = <<>>
    /\ \E good \in BOOLEAN, made \in BOOLEAN :
           LET h == Min(Fresh)
               before == FilesClosed(good)
               block == IF st.kind = "mapped" THEN Padded(<<>>, Block) ELSE <<>>
           IN  IF good /\ made
               THEN /\ files' = [before EXCEPT ![h].open = TRUE, ![h].used = TRUE, ![h].bytes = block]
                    /\ st' = [st EXCEPT !.fo = FileObj(h, TRUE), !.map = (st.kind = "mapped"), !.cur = 0, !.size = Len(block)]
                    /\ outcome' = "open"
               ELSE files' = before /\ st' = StreamClosed /\ outcome' = "threw"

\* AttachFd, with a handle that the stream does not own.
AttachFd ==
    /\ outcome = "closed" /\ st.kind # "mapped" /\ ~FOpened
    /\ AsMeant => st.kind = "file"
    /\ st' = [st EXCEPT !.fo = FileObj(Attached, FALSE)] /\ outcome' = "open" /\ files' = files

\* A stream is moved from: the new one takes over.
MoveStream ==
    /\ outcome = "open"
    /\ AsMeant => st.fo.owns
    /\ st' = [st EXCEPT !.fo = Moved(@)] /\ UNCHANGED <<files, outcome>>

\* Mutant: by a block too few.
GrownShort(n, sized, mapped) ==
    LET size == st.size + ((n - 1) \div Block) * Block
    IN  [map |-> sized /\ mapped, size |-> size,
         bytes |-> IF sized THEN Padded(File.bytes, size) ELSE File.bytes]

\* _GrowMap, which unmaps before it asks for more.
Grown(n, sized, mapped) ==
    LET size == st.size + ((n - 1) \div Block + 1) * Block
    IN  [map |-> sized /\ mapped, size |-> size,
         bytes |-> IF sized THEN Padded(File.bytes, size) ELSE File.bytes]

Put(bytes, at, s) == [i \in DOMAIN bytes |-> IF i > at /\ i <= at + Len(s) THEN s[i - at] ELSE bytes[i]]

\* WriteChar and WriteRawChars of the n bytes that come next.
WriteMapped(s) ==
    LET n == Len(s)
    IN  \E sized \in BOOLEAN, mapped \in BOOLEAN :
            LET room == st.size - st.cur >= n
                g == IF room THEN [map |-> TRUE, size |-> st.size, bytes |-> File.bytes] ELSE Grown(n, sized, mapped)
            IN  /\ st' = [st EXCEPT !.map = g.map, !.size = g.size, !.cur = IF g.map THEN @ + n ELSE @]
                /\ files' = IF g.map THEN [files EXCEPT ![st.fo.h].bytes = Put(g.bytes, st.cur, s), ![st.fo.h].want = @ \o s]
                            ELSE Failed([files EXCEPT ![st.fo.h].bytes = g.bytes], st.fo.h)
                /\ outcome' = IF g.map THEN outcome ELSE "threw"

WriteRaw(s) ==
    \E good \in BOOLEAN :
        /\ st' = IF good /\ st.kind = "memory" THEN [st EXCEPT !.mem = @ \o s] ELSE st
        /\ files' = IF ~good THEN Failed(files, st.fo.h)
                    ELSE IF st.kind = "memory" THEN [files EXCEPT ![st.fo.h].want = @ \o s]
                    ELSE [files EXCEPT ![st.fo.h].want = @ \o s, ![st.fo.h].bytes = @ \o s]
        /\ outcome' = IF good THEN outcome ELSE "threw"

WriteStream ==
    /\ outcome = "open"
    /\ \E n \in 1 .. MostBytes - Len(File.want) :
           LET s == [i \in 1 .. n |-> Len(File.want) + i]
           IN  IF st.kind = "mapped" THEN WriteMapped(s) ELSE WriteRaw(s)

NextOutput == OpenStream \/ AttachFd \/ MoveStream \/ WriteStream \/ CloseStream \/ DestroyStream

SpecOutput == InitOutput /\ [][NextOutput]_outputVars

-----------------------------------------------------------------------------
\* A file that was closed and of which no call was reported to fail holds what was
\* written to it, no more and no less, whichever way its stream wrote it
\* (jsonstrm.h:1603, 1697).
ClosedFilesAreWhole ==
    \A h \in Handles : files[h].used /\ files[h].sound /\ ~files[h].open => files[h].bytes = files[h].want

\* What has been written survives the growth of the mapping, and a call that fails
\* half way through it.
NothingWrittenIsLost ==
    st.kind # "memory" => \A h \in Handles : IsPrefix(files[h].want, files[h].bytes)

\* A stream closes the handles it opened, however it ends, and no other
\* ("whose lifetime we do not own", jsonstrm.h:1428).
HandlesAreClosedOnce ==
    /\ files[Attached].open
    /\ \A h \in 1 .. MostFiles : files[h].open <=> FOpened /\ st.fo.h = h

\* Files that were closed have all that was written, and are closed once.
OutputsAreWhole == ClosedFilesAreWhole /\ NothingWrittenIsLost /\ HandlesAreClosedOnce
=============================================================================
