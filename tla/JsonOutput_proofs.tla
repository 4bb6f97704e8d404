-------------------------- MODULE JsonOutput_proofs --------------------------
(***************************************************************************)
(* Whatever is written, in pieces of any length, with blocks of any size   *)
(* and wherever a call of the system fails.                                *)
(***************************************************************************)
EXTENDS JsonOutput, WellFoundedInduction, TLAPS

-----------------------------------------------------------------------------
(* The state of a stream and of its files. *)

FileRecord == [open : BOOLEAN, used : BOOLEAN, bytes : Seq(Nat), want : Seq(Nat), sound : BOOLEAN]

OutputTypeOK ==
    /\ st \in [kind : {"file", "memory", "mapped"}, fo : [h : 0..Attached, owns : BOOLEAN], map : BOOLEAN,
               cur : Nat, size : Nat, mem : Seq(Nat)]
    /\ files \in [Handles -> FileRecord]
    /\ outcome \in {"closed", "open", "threw", "gone"}

\* A stream owns the handles it opened, and may have one of the client's if it
\* writes to files.
StreamOwns ==
    /\ FOpened => /\ st.fo.owns <=> st.fo.h # Attached
                  /\ st.fo.h = Attached => st.kind = "file"
                  /\ files[st.fo.h].used
    /\ outcome \in {"closed", "gone"} => ~FOpened
    /\ outcome = "open" => FOpened
    /\ st.map => FOpened /\ st.kind = "mapped"
    /\ files[Attached].used

\* What is in the file h, by the kind of the stream.  The file that a stream in
\* memory has open has nothing yet; the one that is mapped has zeros behind what
\* was written.
ContentOf(h) ==
    /\ ~files[h].used => files[h].want = <<>> /\ files[h].sound
    /\ st.kind = "file" => files[h].bytes = files[h].want
    /\ st.kind = "mapped" => IsPrefix(files[h].want, files[h].bytes)
    /\ h # st.fo.h /\ files[h].sound => files[h].bytes = files[h].want
    /\ h = st.fo.h /\ st.kind = "memory" /\ files[h].sound => st.mem = files[h].want
    /\ h = st.fo.h /\ st.kind = "mapped" /\ (files[h].sound \/ outcome = "open") => st.map
    /\ h = st.fo.h /\ st.map => st.cur = Len(files[h].want) /\ st.size = Len(files[h].bytes)

OutInv == OutputTypeOK /\ StreamOwns /\ HandlesAreClosedOnce /\ \A h \in Handles : ContentOf(h)

LEMMA HandleNumbers ==
  /\ Attached \in Nat /\ Handles = 1 .. Attached /\ Attached \in Handles
  /\ \A h \in 1 .. MostFiles : h \in Handles /\ h # Attached
  /\ \A h \in Handles : h # Attached => h \in 1 .. MostFiles
BY OutputAssumption DEF Attached, Handles

LEMMA PrefixMeans ==
  ASSUME NEW s \in Seq(Nat), NEW t \in Seq(Nat)
  PROVE  /\ IsPrefix(s, t) <=> Len(s) <= Len(t) /\ \A i \in 1..Len(s) : s[i] = t[i]
         /\ IsPrefix(s, t) => SubSeq(t, 1, Len(s)) = s
         /\ s = t => IsPrefix(s, t)
<1>1. SubSeq(s, 1, Len(s)) \in Seq(Nat) /\ Len(SubSeq(s, 1, Len(s))) = Len(s)
  OBVIOUS
<1>2. \A i \in 1..Len(s) : SubSeq(s, 1, Len(s))[i] = s[i]
  OBVIOUS
<1>3. SubSeq(s, 1, Len(s)) = s
  BY <1>1, <1>2
<1>4. ASSUME Len(s) <= Len(t)
      PROVE  /\ SubSeq(t, 1, Len(s)) \in Seq(Nat) /\ Len(SubSeq(t, 1, Len(s))) = Len(s)
             /\ \A i \in 1..Len(s) : SubSeq(t, 1, Len(s))[i] = t[i]
  BY <1>4
<1>5. ASSUME Len(s) <= Len(t), \A i \in 1..Len(s) : s[i] = t[i]
      PROVE  SubSeq(t, 1, Len(s)) = s
  BY <1>4, <1>5
<1>6. ASSUME Len(s) <= Len(t), SubSeq(t, 1, Len(s)) = s
      PROVE  \A i \in 1..Len(s) : s[i] = t[i]
  BY <1>4, <1>6
<1> QED
  BY <1>3, <1>5, <1>6 DEF IsPrefix

LEMMA EmptyIsPrefix ==
  ASSUME NEW t \in Seq(Nat)
  PROVE  IsPrefix(<<>>, t)
<1>1. SubSeq(t, 1, 0) = <<>>
  OBVIOUS
<1>2. SubSeq(<<>>, 1, 0) = <<>>
  OBVIOUS
<1>3. Len(<<>>) = 0 /\ 0 <= Len(t)
  OBVIOUS
<1> QED
  BY <1>1, <1>2, <1>3 DEF IsPrefix

LEMMA InitialOutput == InitOutput => OutInv
<1> SUFFICES ASSUME InitOutput PROVE OutInv
  OBVIOUS
<1>1. PICK kind \in {"file", "memory", "mapped"} : st = Closed(kind)
  BY DEF InitOutput
<1>2. /\ st.kind = kind /\ st.fo.h = 0 /\ ~st.map /\ ~FOpened /\ outcome = "closed"
      /\ st \in [kind : {"file", "memory", "mapped"}, fo : [h : 0..Attached, owns : BOOLEAN], map : BOOLEAN,
                 cur : Nat, size : Nat, mem : Seq(Nat)]
  BY <1>1, HandleNumbers DEF InitOutput, Closed, FileObj, Invalid, FOpened, FIsOpen
<1>3. \A h \in Handles :
         /\ files[h] \in FileRecord
         /\ files[h].bytes = <<>> /\ files[h].want = <<>> /\ files[h].sound
         /\ files[h].open <=> h = Attached
         /\ files[h].used <=> h = Attached
  <2> SUFFICES ASSUME NEW h \in Handles
               PROVE  /\ files[h] \in FileRecord
                      /\ files[h].bytes = <<>> /\ files[h].want = <<>> /\ files[h].sound
                      /\ files[h].open <=> h = Attached
                      /\ files[h].used <=> h = Attached
    OBVIOUS
  <2>1. CASE h = Attached
    <3>1. files[h] = [open |-> TRUE, used |-> TRUE, bytes |-> <<>>, want |-> <<>>, sound |-> TRUE]
      BY <2>1 DEF InitOutput, Unused
    <3> QED
      BY <2>1, <3>1 DEF FileRecord
  <2>2. CASE h # Attached
    <3>1. files[h] = Unused
      BY <2>2 DEF InitOutput
    <3> QED
      BY <2>2, <3>1 DEF FileRecord, Unused
  <2> QED
    BY <2>1, <2>2
<1>4. OutputTypeOK
  BY <1>2, <1>3 DEF OutputTypeOK, InitOutput
<1>5. StreamOwns
  BY <1>2, <1>3, HandleNumbers DEF StreamOwns
<1>6. HandlesAreClosedOnce
  BY <1>2, <1>3, HandleNumbers DEF HandlesAreClosedOnce
<1>7. ASSUME NEW h \in Handles PROVE ContentOf(h)
  <2>1. h # st.fo.h
    BY <1>2, HandleNumbers
  <2>2. IsPrefix(files[h].want, files[h].bytes)
    <3>1. files[h].want \in Seq(Nat) /\ files[h].bytes \in Seq(Nat) /\ files[h].want = files[h].bytes
      BY <1>3 DEF FileRecord
    <3> QED
      BY <3>1, PrefixMeans
  <2> QED
    BY <1>3, <2>1, <2>2 DEF ContentOf
<1> QED
  BY <1>4, <1>5, <1>6, <1>7 DEF OutInv

\* What closing makes of the file that is open, and leaves of the others.
LEMMA FilesClosedIs ==
  ASSUME OutInv, FOpened, NEW good \in BOOLEAN
  PROVE  /\ FilesClosed(good) \in [Handles -> FileRecord]
         /\ \A h \in Handles : h # st.fo.h => FilesClosed(good)[h] = files[h]
         /\ LET old == files[st.fo.h]
                new == FilesClosed(good)[st.fo.h]
            IN  /\ new.used /\ new.want = old.want /\ (new.open <=> st.fo.h = Attached)
                /\ new.sound => new.bytes = new.want
                /\ st.kind = "file" => new.bytes = new.want
                /\ st.kind = "mapped" => IsPrefix(new.want, new.bytes)
<1> DEFINE h == st.fo.h
           now == FilesClosed(good)
<1> SUFFICES /\ now \in [Handles -> FileRecord]
             /\ \A g \in Handles : g # h => now[g] = files[g]
             /\ now[h].used /\ now[h].want = files[h].want /\ (now[h].open <=> h = Attached)
             /\ now[h].sound => now[h].bytes = now[h].want
             /\ st.kind = "file" => now[h].bytes = now[h].want
             /\ st.kind = "mapped" => IsPrefix(now[h].want, now[h].bytes)
  OBVIOUS
<1>1. /\ h \in Handles /\ h # Invalid /\ st.kind \in {"file", "memory", "mapped"}
      /\ files \in [Handles -> FileRecord]
      /\ files[h] \in FileRecord /\ st.mem \in Seq(Nat) /\ st.cur \in Nat
  BY HandleNumbers DEF OutInv, OutputTypeOK, FOpened, FIsOpen, Invalid
<1>2. /\ st.fo.owns <=> h # Attached
      /\ h = Attached => st.kind = "file"
      /\ files[h].used
      /\ ContentOf(h)
  BY <1>1 DEF OutInv, StreamOwns
<1>3. files[h].open
  BY <1>1, HandleNumbers DEF OutInv, HandlesAreClosedOnce
<1>4. /\ files[h].bytes \in Seq(Nat) /\ files[h].want \in Seq(Nat)
  BY <1>1 DEF FileRecord
<1> HIDE DEF h, now
<1>5. CASE st.kind = "file"
  <2>1. now = CloseObj(files, st.fo)
    BY <1>5 DEF now, FilesClosed, ClosedFile
  <2>2. files[h].bytes = files[h].want
    BY <1>2, <1>5 DEF ContentOf, h
  <2>3. CASE st.fo.owns
    <3>1. now = [files EXCEPT ![h].open = FALSE]
      BY <2>1, <2>3 DEF CloseObj, FOpened, h
    <3>2. /\ now \in [Handles -> FileRecord]
          /\ \A g \in Handles : g # h => now[g] = files[g]
          /\ now[h].open = FALSE /\ now[h].used = files[h].used /\ now[h].want = files[h].want /\ now[h].bytes = files[h].bytes
      BY <1>1, <3>1 DEF FileRecord
    <3> QED
      BY <1>2, <1>5, <2>2, <2>3, <3>2
  <2>4. CASE ~st.fo.owns
    <3>1. now = files
      BY <2>1, <2>4 DEF CloseObj
    <3> QED
      BY <1>1, <1>2, <1>3, <1>5, <2>2, <2>4, <3>1
  <2> QED
    BY <2>3, <2>4
<1>6. CASE st.kind = "memory"
  <2> DEFINE written == IF good THEN [files EXCEPT ![h].bytes = st.mem] ELSE Failed(files, h)
  <2>1. now = CloseObj(written, Moved(st.fo))
    BY <1>6 DEF now, FilesClosed, ClosedMemory, h
  <2>2. now = [written EXCEPT ![h].open = FALSE]
    BY <2>1 DEF CloseObj, Moved, FileObj, FOpened, FIsOpen, h
  <2>3. h # Attached /\ (files[h].sound => st.mem = files[h].want)
    BY <1>2, <1>6 DEF ContentOf, h
  <2>4. /\ written \in [Handles -> FileRecord] /\ \A g \in Handles : g # h => written[g] = files[g]
        /\ written[h].used = files[h].used /\ written[h].want = files[h].want
        /\ written[h].sound => written[h].bytes = files[h].want
    <3>1. CASE good
      <4>1. written = [files EXCEPT ![h].bytes = st.mem]
        BY <3>1
      <4> HIDE DEF written
      <4>2. /\ written \in [Handles -> FileRecord] /\ \A g \in Handles : g # h => written[g] = files[g]
            /\ written[h].used = files[h].used /\ written[h].want = files[h].want /\ written[h].sound = files[h].sound
            /\ written[h].bytes = st.mem
        BY <1>1, <4>1 DEF FileRecord
      <4> QED
        BY <2>3, <4>2
    <3>2. CASE ~good
      <4>1. written = [files EXCEPT ![h].sound = FALSE]
        BY <1>1, <3>2 DEF Failed
      <4> HIDE DEF written
      <4>2. /\ written \in [Handles -> FileRecord] /\ \A g \in Handles : g # h => written[g] = files[g]
            /\ written[h].used = files[h].used /\ written[h].want = files[h].want /\ written[h].sound = FALSE
        BY <1>1, <4>1 DEF FileRecord
      <4> QED
        BY <4>2
    <3> QED
      BY <3>1, <3>2
  <2> HIDE DEF written
  <2>5. /\ now \in [Handles -> FileRecord]
        /\ \A g \in Handles : g # h => now[g] = written[g]
        /\ now[h].open = FALSE /\ now[h].used = written[h].used /\ now[h].want = written[h].want
        /\ now[h].bytes = written[h].bytes /\ now[h].sound = written[h].sound
    BY <1>1, <2>2, <2>4 DEF FileRecord
  <2> QED
    BY <1>2, <1>6, <2>3, <2>4, <2>5
<1>7. CASE st.kind = "mapped"
  <2> DEFINE cut == IF st.map /\ good THEN [files EXCEPT ![h].bytes = SubSeq(@, 1, st.cur)] ELSE Failed(files, h)
  <2>1. now = CloseObj(cut, st.fo)
    BY <1>7 DEF now, FilesClosed, ClosedMapped, h
  <2>2. now = [cut EXCEPT ![h].open = FALSE]
    BY <1>2, <1>7, <2>1 DEF CloseObj, FOpened, h
  <2>3. IsPrefix(files[h].want, files[h].bytes) /\ h # Attached
    BY <1>2, <1>7 DEF ContentOf, h
  <2>4. /\ cut \in [Handles -> FileRecord] /\ \A g \in Handles : g # h => cut[g] = files[g]
        /\ cut[h].used = files[h].used /\ cut[h].want = files[h].want
        /\ cut[h].sound => cut[h].bytes = files[h].want
        /\ IsPrefix(files[h].want, cut[h].bytes)
    <3>1. CASE st.map /\ good
      <4>1. st.cur = Len(files[h].want)
        BY <1>2, <3>1 DEF ContentOf, h
      <4>2. SubSeq(files[h].bytes, 1, st.cur) = files[h].want
        BY <1>4, <2>3, <4>1, PrefixMeans
      <4>3. cut = [files EXCEPT ![h].bytes = files[h].want]
        BY <3>1, <4>2
      <4> HIDE DEF cut
      <4>4. IsPrefix(files[h].want, files[h].want)
        BY <1>4, PrefixMeans
      <4>5. /\ cut \in [Handles -> FileRecord] /\ \A g \in Handles : g # h => cut[g] = files[g]
            /\ cut[h].used = files[h].used /\ cut[h].want = files[h].want /\ cut[h].bytes = files[h].want
        BY <1>1, <1>4, <4>3 DEF FileRecord
      <4> QED
        BY <4>4, <4>5
    <3>2. CASE ~(st.map /\ good)
      <4>1. cut = [files EXCEPT ![h].sound = FALSE]
        BY <1>1, <3>2 DEF Failed
      <4> HIDE DEF cut
      <4>2. /\ cut \in [Handles -> FileRecord] /\ \A g \in Handles : g # h => cut[g] = files[g]
            /\ cut[h].used = files[h].used /\ cut[h].want = files[h].want /\ cut[h].bytes = files[h].bytes
            /\ cut[h].sound = FALSE
        BY <1>1, <4>1 DEF FileRecord
      <4> QED
        BY <2>3, <4>2
    <3> QED
      BY <3>1, <3>2
  <2> HIDE DEF cut
  <2>5. /\ now \in [Handles -> FileRecord]
        /\ \A g \in Handles : g # h => now[g] = cut[g]
        /\ now[h].open = FALSE /\ now[h].used = cut[h].used /\ now[h].want = cut[h].want
        /\ now[h].bytes = cut[h].bytes /\ now[h].sound = cut[h].sound
    BY <1>1, <2>2, <2>4 DEF FileRecord
  <2> QED
    BY <1>2, <1>7, <2>3, <2>4, <2>5
<1> QED
  BY <1>1, <1>5, <1>6, <1>7

LEMMA NoneToClose ==
  ASSUME OutInv, ~FOpened, NEW good \in BOOLEAN
  PROVE  /\ FilesClosed(good) = files
         /\ \A h \in Handles : h # st.fo.h
<1>1. ~st.map
  BY DEF OutInv, StreamOwns
<1>2. FilesClosed(good) = files
  BY <1>1 DEF FilesClosed, ClosedFile, ClosedMemory, ClosedMapped, CloseObj, FOpened, FIsOpen, Failed
<1> QED
  BY <1>2, HandleNumbers DEF FOpened, FIsOpen, Invalid

\* However a stream closes.
LEMMA ClosingKeeps ==
  ASSUME OutInv, NEW good \in BOOLEAN, files' = FilesClosed(good), st' = StreamClosed,
         outcome' \in {"closed", "threw", "gone"}
  PROVE  OutInv'
<1>1. /\ st \in [kind : {"file", "memory", "mapped"}, fo : [h : 0..Attached, owns : BOOLEAN], map : BOOLEAN,
                 cur : Nat, size : Nat, mem : Seq(Nat)]
      /\ files \in [Handles -> FileRecord] /\ StreamOwns /\ HandlesAreClosedOnce
      /\ \A h \in Handles : ContentOf(h)
  BY DEF OutInv, OutputTypeOK
<1>2. /\ st' \in [kind : {"file", "memory", "mapped"}, fo : [h : 0..Attached, owns : BOOLEAN], map : BOOLEAN,
                  cur : Nat, size : Nat, mem : Seq(Nat)]
      /\ st'.kind = st.kind /\ st'.fo.h = 0 /\ st'.map = FALSE /\ ~FOpened'
  <2>1. st' = [kind |-> st.kind, fo |-> [h |-> 0, owns |-> st.fo.owns], map |-> FALSE,
               cur |-> st.cur, size |-> st.size, mem |-> st.mem]
    BY <1>1 DEF StreamClosed, Invalid
  <2> QED
    BY <1>1, <2>1, HandleNumbers DEF Invalid, FOpened, FIsOpen
<1>3. /\ files' \in [Handles -> FileRecord]
      /\ files'[Attached].open /\ \A h \in 1..MostFiles : ~files'[h].open
      /\ \A h \in Handles : /\ files'[h].used = files[h].used /\ files'[h].want = files[h].want
                            /\ ~files'[h].used => files'[h].sound
                            /\ files'[h].sound => files'[h].bytes = files'[h].want
                            /\ st.kind = "file" => files'[h].bytes = files'[h].want
                            /\ st.kind = "mapped" => IsPrefix(files'[h].want, files'[h].bytes)
  <2>1. CASE ~FOpened
    <3>1. files' = files /\ \A h \in Handles : h # st.fo.h
      BY <2>1, NoneToClose
    <3> QED
      BY <1>1, <2>1, <3>1, HandleNumbers DEF HandlesAreClosedOnce, ContentOf
  <2>2. CASE FOpened
    <3> DEFINE o == st.fo.h
    <3>1. o \in Handles
      BY <1>1, <2>2, HandleNumbers DEF FOpened, FIsOpen, Invalid
    <3>2. /\ files' \in [Handles -> FileRecord]
          /\ \A h \in Handles : h # o => files'[h] = files[h]
          /\ files'[o].used /\ files'[o].want = files[o].want /\ (files'[o].open <=> o = Attached)
          /\ files'[o].sound => files'[o].bytes = files'[o].want
          /\ st.kind = "file" => files'[o].bytes = files'[o].want
          /\ st.kind = "mapped" => IsPrefix(files'[o].want, files'[o].bytes)
      BY <2>2, FilesClosedIs
    <3>3. files[o].used
      BY <1>1, <2>2 DEF StreamOwns
    <3>4. ASSUME NEW h \in Handles
          PROVE  /\ files'[h].used = files[h].used /\ files'[h].want = files[h].want
                 /\ ~files'[h].used => files'[h].sound
                 /\ files'[h].sound => files'[h].bytes = files'[h].want
                 /\ st.kind = "file" => files'[h].bytes = files'[h].want
                 /\ st.kind = "mapped" => IsPrefix(files'[h].want, files'[h].bytes)
      <4>1. CASE h = o
        <5>1. files'[o].used \in BOOLEAN /\ files[o].used \in BOOLEAN
          BY <1>1, <3>1, <3>2 DEF FileRecord
        <5> QED
          BY <3>2, <3>3, <4>1, <5>1
      <4>2. CASE h # o
        BY <1>1, <3>2, <4>2 DEF ContentOf
      <4> QED
        BY <4>1, <4>2
    <3>5. files'[Attached].open
      <4>1. files[Attached].open
        BY <1>1 DEF HandlesAreClosedOnce
      <4> QED
        BY <3>2, <4>1, HandleNumbers
    <3>6. ASSUME NEW h \in 1..MostFiles PROVE ~files'[h].open
      <4>1. files[h].open <=> h = o
        BY <1>1, <2>2 DEF HandlesAreClosedOnce
      <4> QED
        BY <3>2, <4>1, HandleNumbers
    <3> QED
      BY <3>2, <3>4, <3>5, <3>6
  <2> QED
    BY <2>1, <2>2
<1>4. OutputTypeOK'
  BY <1>2, <1>3 DEF OutputTypeOK
<1>5. StreamOwns'
  BY <1>1, <1>2, <1>3, HandleNumbers DEF StreamOwns
<1>6. HandlesAreClosedOnce'
  BY <1>2, <1>3 DEF HandlesAreClosedOnce
<1>7. ASSUME NEW h \in Handles PROVE ContentOf(h)'
  <2>1. h # st'.fo.h
    BY <1>2, HandleNumbers
  <2>2. ~files[h].used => files[h].want = <<>>
    BY <1>1 DEF ContentOf
  <2> QED
    BY <1>2, <1>3, <2>1, <2>2 DEF ContentOf
<1> QED
  BY <1>4, <1>5, <1>6, <1>7 DEF OutInv

LEMMA CloseKeeps == OutInv /\ (CloseStream \/ DestroyStream) => OutInv'
<1>1. ASSUME OutInv, CloseStream PROVE OutInv'
  <2>1. PICK good \in BOOLEAN : files' = FilesClosed(good) /\ outcome' \in {"closed", "threw"}
    BY <1>1 DEF CloseStream
  <2>2. st' = StreamClosed
    BY <1>1 DEF CloseStream
  <2> QED
    BY <1>1, <2>1, <2>2, ClosingKeeps
<1>2. ASSUME OutInv, DestroyStream PROVE OutInv'
  <2>1. PICK good \in BOOLEAN : files' = FilesClosed(good)
    BY <1>2 DEF DestroyStream
  <2>2. st' = StreamClosed /\ outcome' = "gone"
    BY <1>2 DEF DestroyStream
  <2> QED
    BY <1>2, <2>1, <2>2, ClosingKeeps
<1> QED
  BY <1>1, <1>2

LEMMA MoveKeeps == AsMeant /\ OutInv /\ MoveStream => OutInv'
<1> SUFFICES ASSUME AsMeant, OutInv, MoveStream PROVE OutInv'
  OBVIOUS
<1>1. /\ st' = [st EXCEPT !.fo = FileObj(st.fo.h, TRUE)] /\ st.fo.owns = TRUE
      /\ files' = files /\ outcome' = outcome
  BY DEF MoveStream, Moved, OutInv, OutputTypeOK
<1>2. st' = st
  BY <1>1 DEF FileObj, OutInv, OutputTypeOK
<1>3. OutputTypeOK' /\ StreamOwns' /\ HandlesAreClosedOnce'
  <2>1. OutputTypeOK'
    BY <1>1, <1>2 DEF OutInv, OutputTypeOK
  <2>2. StreamOwns'
    BY <1>1, <1>2 DEF OutInv, StreamOwns, FOpened
  <2>3. HandlesAreClosedOnce'
    BY <1>1, <1>2 DEF OutInv, HandlesAreClosedOnce, FOpened
  <2> QED
    BY <2>1, <2>2, <2>3
<1>4. ASSUME NEW h \in Handles PROVE ContentOf(h)'
  <2>1. ContentOf(h)
    BY DEF OutInv
  <2> QED
    BY <1>1, <1>2, <2>1 DEF ContentOf
<1> QED
  BY <1>3, <1>4 DEF OutInv

LEMMA AttachKeeps == AsMeant /\ OutInv /\ AttachFd => OutInv'
<1> SUFFICES ASSUME AsMeant, OutInv, AttachFd PROVE OutInv'
  OBVIOUS
<1>1. /\ st \in [kind : {"file", "memory", "mapped"}, fo : [h : 0..Attached, owns : BOOLEAN], map : BOOLEAN,
                 cur : Nat, size : Nat, mem : Seq(Nat)]
      /\ st.kind = "file" /\ ~FOpened /\ ~st.map /\ files[Attached].used
      /\ st' = [st EXCEPT !.fo = FileObj(Attached, FALSE)] /\ outcome' = "open" /\ files' = files
  BY DEF AttachFd, OutInv, OutputTypeOK, StreamOwns
<1>2. st' = [kind |-> st.kind, fo |-> FileObj(Attached, FALSE), map |-> st.map,
             cur |-> st.cur, size |-> st.size, mem |-> st.mem]
  BY <1>1
<1>3. /\ st'.kind = "file" /\ st'.fo.h = Attached /\ ~st'.fo.owns /\ ~st'.map /\ FOpened'
      /\ st' \in [kind : {"file", "memory", "mapped"}, fo : [h : 0..Attached, owns : BOOLEAN], map : BOOLEAN,
                  cur : Nat, size : Nat, mem : Seq(Nat)]
  <2>1. FileObj(Attached, FALSE) \in [h : 0..Attached, owns : BOOLEAN] /\ Attached # Invalid
    BY HandleNumbers DEF FileObj, Invalid, Handles
  <2>2. st'.fo = FileObj(Attached, FALSE) /\ st'.fo.h = Attached /\ st'.fo.owns = FALSE
    BY <1>2 DEF FileObj
  <2>3. st'.kind = st.kind /\ st'.map = st.map
    BY <1>2
  <2>4. st' \in [kind : {"file", "memory", "mapped"}, fo : [h : 0..Attached, owns : BOOLEAN], map : BOOLEAN,
                 cur : Nat, size : Nat, mem : Seq(Nat)]
    BY <1>1, <1>2, <2>1
  <2> QED
    BY <1>1, <2>1, <2>2, <2>3, <2>4 DEF FOpened, FIsOpen
<1>4. OutputTypeOK'
  BY <1>1, <1>3 DEF OutInv, OutputTypeOK
<1>5. StreamOwns'
  BY <1>1, <1>3 DEF StreamOwns
<1>6. HandlesAreClosedOnce'
  <2>1. \A h \in 1..MostFiles : ~files[h].open /\ h # Attached
    BY <1>1, HandleNumbers DEF OutInv, HandlesAreClosedOnce
  <2>2. files[Attached].open
    BY DEF OutInv, HandlesAreClosedOnce
  <2> QED
    BY <1>1, <1>3, <2>1, <2>2 DEF HandlesAreClosedOnce
<1>7. ASSUME NEW h \in Handles PROVE ContentOf(h)'
  <2>1. (~files[h].used => files[h].want = <<>> /\ files[h].sound) /\ files[h].bytes = files[h].want
    BY <1>1 DEF OutInv, ContentOf
  <2> QED
    BY <1>1, <1>3, <2>1 DEF ContentOf
<1> QED
  BY <1>4, <1>5, <1>6, <1>7 DEF OutInv

LEMMA PaddedIs ==
  ASSUME NEW s \in Seq(Nat), NEW n \in Nat
  PROVE  /\ Padded(s, n) \in Seq(Nat) /\ Len(Padded(s, n)) = n
         /\ \A i \in 1..n : Padded(s, n)[i] = IF i <= Len(s) THEN s[i] ELSE 0
<1>1. \A i \in 1..n : (IF i <= Len(s) THEN s[i] ELSE 0) \in Nat
  OBVIOUS
<1>2. Padded(s, n) \in [1..n -> Nat]
  BY <1>1 DEF Padded
<1> QED
  BY <1>2 DEF Padded

\* The least number that was not used is one of them.
LEMMA FreshIs == Fresh # {} => Min(Fresh) \in Fresh
<1> SUFFICES ASSUME Fresh # {} PROVE Min(Fresh) \in Fresh
  OBVIOUS
<1> DEFINE Before == OpToRel(<, Nat)
<1>1. Fresh \subseteq Nat
  BY DEF Fresh
<1>2. PICK x \in Fresh : \A y \in Fresh : ~ (<<y, x>> \in Before)
  BY <1>1, WFMin, NatLessThanWellFounded, Zenon
<1>3. \A y \in Fresh : x <= y
  <2>1. ASSUME NEW y \in Fresh PROVE x <= y
    <3>1. x \in Nat /\ y \in Nat
      BY <1>1, <2>1
    <3>2. ~(y < x)
      BY <1>2, <2>1, <3>1 DEF OpToRel
    <3> QED
      BY <3>1, <3>2
  <2> QED
    BY <2>1
<1>4. \E z \in Fresh : \A y \in Fresh : z <= y
  BY <1>3
<1> QED
  BY <1>4, Zenon DEF Min

LEMMA OpenKeeps == AsMeant /\ OutInv /\ OpenStream => OutInv'
<1> SUFFICES ASSUME AsMeant, OutInv, OpenStream PROVE OutInv'
  OBVIOUS
<1> DEFINE h == Min(Fresh)
           block == IF st.kind = "mapped" THEN Padded(<<>>, Block) ELSE <<>>
<1>1. /\ st \in [kind : {"file", "memory", "mapped"}, fo : [h : 0..Attached, owns : BOOLEAN], map : BOOLEAN,
                 cur : Nat, size : Nat, mem : Seq(Nat)]
      /\ files \in [Handles -> FileRecord] /\ ~FOpened /\ Fresh # {}
      /\ st.kind = "memory" => st.mem = <<>>
  BY DEF OpenStream, OutInv, OutputTypeOK, StreamOwns
<1>2. \E good \in BOOLEAN, made \in BOOLEAN :
         IF good /\ made
         THEN /\ files' = [files EXCEPT ![h].open = TRUE, ![h].used = TRUE, ![h].bytes = block]
              /\ st' = [st EXCEPT !.fo = FileObj(h, TRUE), !.map = (st.kind = "mapped"), !.cur = 0, !.size = Len(block)]
              /\ outcome' = "open"
         ELSE files' = FilesClosed(good) /\ st' = StreamClosed /\ outcome' = "threw"
  BY <1>1, NoneToClose DEF OpenStream
<1>3. /\ h \in 1..MostFiles /\ h \in Handles /\ h # Attached /\ h # Invalid /\ h \in 0..Attached
      /\ ~files[h].used
  BY <1>1, FreshIs, HandleNumbers, OutputAssumption, SMTT(60) DEF Fresh, Invalid
<1>4. /\ block \in Seq(Nat) /\ IsPrefix(<<>>, block)
      /\ st.kind # "mapped" => block = <<>>
  <2>1. <<>> \in Seq(Nat) /\ Len(<<>>) = 0 /\ Block \in Nat
    BY OutputAssumption
  <2>2. block \in Seq(Nat)
    BY <2>1, PaddedIs
  <2> HIDE DEF block
  <2>3. IsPrefix(<<>>, block)
    BY <2>2, EmptyIsPrefix
  <2> QED
    BY <2>2, <2>3 DEF block
<1> HIDE DEF h, block
<1>5. CASE \E good \in BOOLEAN : files' = FilesClosed(good) /\ st' = StreamClosed /\ outcome' = "threw"
  BY <1>5, ClosingKeeps
<1>6. CASE /\ files' = [files EXCEPT ![h].open = TRUE, ![h].used = TRUE, ![h].bytes = block]
           /\ st' = [st EXCEPT !.fo = FileObj(h, TRUE), !.map = (st.kind = "mapped"), !.cur = 0, !.size = Len(block)]
           /\ outcome' = "open"
  <2>1. files[h] \in FileRecord /\ files[h].want = <<>> /\ files[h].sound
    BY <1>1, <1>3 DEF OutInv, ContentOf
  <2> DEFINE opened == [files EXCEPT ![h].open = TRUE]
             taken == [opened EXCEPT ![h].used = TRUE]
             now == [taken EXCEPT ![h].bytes = block]
  <2>2. files' = now
    BY <1>6
  <2>3. /\ files' \in [Handles -> FileRecord]
        /\ \A g \in Handles : g # h => files'[g] = files[g]
        /\ files'[h].open /\ files'[h].used /\ files'[h].bytes = block /\ files'[h].want = <<>> /\ files'[h].sound
    <3>1. opened = [files EXCEPT ![h].open = TRUE]
      OBVIOUS
    <3>2. taken = [opened EXCEPT ![h].used = TRUE]
      OBVIOUS
    <3>3. now = [taken EXCEPT ![h].bytes = block]
      OBVIOUS
    <3> HIDE DEF opened, taken, now
    <3>4. /\ opened \in [Handles -> FileRecord] /\ \A g \in Handles : g # h => opened[g] = files[g]
          /\ opened[h].open = TRUE /\ opened[h].want = files[h].want /\ opened[h].sound = files[h].sound
      BY <1>1, <1>3, <3>1, ZenonT(60) DEF FileRecord
    <3>5. /\ taken \in [Handles -> FileRecord] /\ \A g \in Handles : g # h => taken[g] = opened[g]
          /\ taken[h].used = TRUE
          /\ taken[h].open = opened[h].open /\ taken[h].want = opened[h].want /\ taken[h].sound = opened[h].sound
      BY <1>3, <3>2, <3>4 DEF FileRecord
    <3>6. /\ now \in [Handles -> FileRecord] /\ \A g \in Handles : g # h => now[g] = taken[g]
          /\ now[h].bytes = block /\ now[h].used = taken[h].used
          /\ now[h].open = taken[h].open /\ now[h].want = taken[h].want /\ now[h].sound = taken[h].sound
      BY <1>3, <1>4, <3>3, <3>5 DEF FileRecord
    <3> QED
      BY <2>1, <2>2, <3>4, <3>5, <3>6
  <2> HIDE DEF opened, taken, now
  <2>4. st' = [kind |-> st.kind, fo |-> FileObj(h, TRUE), map |-> (st.kind = "mapped"),
               cur |-> 0, size |-> Len(block), mem |-> st.mem]
    BY <1>1, <1>6
  <2>5. /\ st'.kind = st.kind /\ st'.fo = FileObj(h, TRUE) /\ st'.map = (st.kind = "mapped")
        /\ st'.cur = 0 /\ st'.size = Len(block) /\ st'.mem = st.mem
    BY <2>4
  <2>6. st'.fo.h = h /\ st'.fo.owns = TRUE /\ FOpened'
    BY <1>3, <2>5 DEF FileObj, FOpened, FIsOpen
  <2>7. FileObj(h, TRUE) \in [h : 0..Attached, owns : BOOLEAN]
    BY <1>3 DEF FileObj
  <2>8. OutputTypeOK'
    <3>1. Len(block) \in Nat
      BY <1>4
    <3>2. st' \in [kind : {"file", "memory", "mapped"}, fo : [h : 0..Attached, owns : BOOLEAN], map : BOOLEAN,
                   cur : Nat, size : Nat, mem : Seq(Nat)]
      BY <1>1, <2>4, <2>7, <3>1
    <3> QED
      BY <1>6, <2>3, <3>2 DEF OutputTypeOK
  <2>9. StreamOwns'
    <3>1. files[Attached].used
      BY DEF OutInv, StreamOwns
    <3> QED
      BY <1>3, <1>6, <2>3, <2>5, <2>6, <3>1, HandleNumbers DEF StreamOwns
  <2>10. HandlesAreClosedOnce'
    <3>1. files[Attached].open /\ \A g \in 1..MostFiles : ~files[g].open
      BY <1>1 DEF OutInv, HandlesAreClosedOnce
    <3>2. files'[Attached].open
      BY <1>3, <2>3, <3>1, HandleNumbers
    <3>3. ASSUME NEW g \in 1..MostFiles PROVE files'[g].open <=> st'.fo.h = g
      <4>1. CASE g = h
        BY <2>3, <2>6, <4>1
      <4>2. CASE g # h
        BY <2>3, <2>6, <3>1, <4>2, HandleNumbers
      <4> QED
        BY <4>1, <4>2
    <3> QED
      BY <2>6, <3>2, <3>3 DEF HandlesAreClosedOnce
  <2>11. ASSUME NEW g \in Handles PROVE ContentOf(g)'
    <3>1. CASE g = h
      BY <1>1, <1>4, <2>3, <2>5, <2>6, <3>1 DEF ContentOf
    <3>2. CASE g # h
      <4>1. ContentOf(g) /\ g # st.fo.h
        BY <1>1, NoneToClose DEF OutInv
      <4> QED
        BY <2>3, <2>5, <2>6, <3>2, <4>1 DEF ContentOf
    <3> QED
      BY <3>1, <3>2
  <2> QED
    BY <2>8, <2>9, <2>10, <2>11 DEF OutInv
<1> QED
  BY <1>2, <1>5, <1>6

-----------------------------------------------------------------------------
(* Writing. *)

\* A file that is written to stays open, and the others as they were.
LEMMA OneFileChanges ==
  ASSUME OutInv, FOpened,
         files' \in [Handles -> FileRecord],
         \A g \in Handles : g # st.fo.h => files'[g] = files[g],
         files'[st.fo.h].used = files[st.fo.h].used, files'[st.fo.h].open = files[st.fo.h].open,
         st'.kind = st.kind, st'.fo = st.fo, st'.map \in BOOLEAN, st'.map => st.kind = "mapped",
         st' \in [kind : {"file", "memory", "mapped"}, fo : [h : 0..Attached, owns : BOOLEAN], map : BOOLEAN,
                  cur : Nat, size : Nat, mem : Seq(Nat)],
         outcome' \in {"open", "threw"},
         ContentOf(st.fo.h)'
  PROVE  OutInv'
<1> DEFINE o == st.fo.h
<1>1. o \in Handles /\ st'.fo.h = o /\ FOpened'
  BY HandleNumbers DEF OutInv, OutputTypeOK, FOpened, FIsOpen, Invalid
<1>2. OutputTypeOK'
  BY DEF OutputTypeOK
<1>3. StreamOwns'
  <2>1. /\ st.fo.owns <=> o # Attached
        /\ o = Attached => st.kind = "file"
        /\ files[o].used /\ files[Attached].used
    BY DEF OutInv, StreamOwns
  <2>2. files'[o].used /\ files'[Attached].used
    BY <2>1, HandleNumbers
  <2> QED
    BY <1>1, <2>1, <2>2 DEF StreamOwns
<1>4. HandlesAreClosedOnce'
  <2>1. files[Attached].open /\ \A g \in 1..MostFiles : files[g].open <=> o = g
    BY DEF OutInv, HandlesAreClosedOnce
  <2>2. files'[Attached].open
    BY <2>1, HandleNumbers
  <2>3. ASSUME NEW g \in 1..MostFiles PROVE files'[g].open <=> o = g
    <3>1. CASE g = o
      BY <2>1, <3>1
    <3>2. CASE g # o
      BY <2>1, <3>2, HandleNumbers
    <3> QED
      BY <3>1, <3>2
  <2> QED
    BY <1>1, <2>2, <2>3 DEF HandlesAreClosedOnce
<1>5. ASSUME NEW g \in Handles PROVE ContentOf(g)'
  <2>1. CASE g = o
    BY <1>1, <2>1
  <2>2. CASE g # o
    <3>1. ContentOf(g) /\ files'[g] = files[g]
      BY <2>2 DEF OutInv
    <3> QED
      BY <1>1, <2>2, <3>1 DEF ContentOf
  <2> QED
    BY <2>1, <2>2
<1> QED
  BY <1>2, <1>3, <1>4, <1>5 DEF OutInv

\* The stream that is open, and its file.
LEMMA OpenIs ==
  ASSUME OutInv, outcome = "open"
  PROVE  /\ st \in [kind : {"file", "memory", "mapped"}, fo : [h : 0..Attached, owns : BOOLEAN], map : BOOLEAN,
                    cur : Nat, size : Nat, mem : Seq(Nat)]
         /\ files \in [Handles -> FileRecord]
         /\ FOpened /\ st.fo.h \in Handles /\ st.fo.h # Invalid /\ ContentOf(st.fo.h)
         /\ files[st.fo.h] \in FileRecord /\ files[st.fo.h].used
         /\ files[st.fo.h].bytes \in Seq(Nat) /\ files[st.fo.h].want \in Seq(Nat)
<1>1. /\ st \in [kind : {"file", "memory", "mapped"}, fo : [h : 0..Attached, owns : BOOLEAN], map : BOOLEAN,
                 cur : Nat, size : Nat, mem : Seq(Nat)]
      /\ files \in [Handles -> FileRecord]
      /\ FOpened /\ files[st.fo.h].used
  BY DEF OutInv, OutputTypeOK, StreamOwns
<1>2. st.fo.h \in Handles /\ st.fo.h # Invalid
  BY <1>1, HandleNumbers DEF FOpened, FIsOpen, Invalid
<1>3. ContentOf(st.fo.h)
  BY <1>2 DEF OutInv
<1> QED
  BY <1>1, <1>2, <1>3 DEF FileRecord

LEMMA RawKeeps ==
  ASSUME OutInv, outcome = "open", st.kind # "mapped", NEW s \in Seq(Nat), WriteRaw(s)
  PROVE  OutInv'
<1> DEFINE o == st.fo.h
           want == files[st.fo.h].want \o s
           bytes == files[st.fo.h].bytes \o s
<1>1. /\ st \in [kind : {"file", "memory", "mapped"}, fo : [h : 0..Attached, owns : BOOLEAN], map : BOOLEAN,
                 cur : Nat, size : Nat, mem : Seq(Nat)]
      /\ files \in [Handles -> FileRecord]
      /\ FOpened /\ o \in Handles /\ o # Invalid /\ files[o].used /\ ContentOf(o)
      /\ want \in Seq(Nat) /\ bytes \in Seq(Nat) /\ st.map = FALSE
  BY OpenIs, SMTT(60) DEF OutInv, StreamOwns
<1>2. PICK good \in BOOLEAN :
         /\ st' = IF good /\ st.kind = "memory" THEN [st EXCEPT !.mem = @ \o s] ELSE st
         /\ files' = IF ~good THEN Failed(files, o)
                     ELSE IF st.kind = "memory" THEN [files EXCEPT ![o].want = @ \o s]
                     ELSE [files EXCEPT ![o].want = @ \o s, ![o].bytes = @ \o s]
         /\ outcome' = IF good THEN outcome ELSE "threw"
  BY ZenonT(60) DEF WriteRaw
<1>3. outcome' \in {"open", "threw"}
  BY <1>2
<1>4. CASE ~good
  <2>1. files' = [files EXCEPT ![o].sound = FALSE] /\ st' = st
    BY <1>1, <1>2, <1>4 DEF Failed
  <2>2. /\ files' \in [Handles -> FileRecord] /\ \A g \in Handles : g # o => files'[g] = files[g]
        /\ files'[o].used = files[o].used /\ files'[o].open = files[o].open /\ files'[o].want = files[o].want
        /\ files'[o].bytes = files[o].bytes /\ files'[o].sound = FALSE
    <3> HIDE DEF o
    <3> QED
      BY <1>1, <2>1 DEF FileRecord
  <2>3. ContentOf(o)'
    BY <1>1, <2>1, <2>2 DEF ContentOf
  <2> QED
    BY <1>1, <1>3, <2>1, <2>2, <2>3, OneFileChanges
<1>5. CASE good /\ st.kind = "memory"
  <2>1. files' = [files EXCEPT ![o].want = want] /\ st' = [st EXCEPT !.mem = st.mem \o s] /\ outcome' = "open"
    BY <1>1, <1>2, <1>5
  <2>2. /\ files' \in [Handles -> FileRecord] /\ \A g \in Handles : g # o => files'[g] = files[g]
        /\ files'[o].used = files[o].used /\ files'[o].open = files[o].open /\ files'[o].want = want
        /\ files'[o].bytes = files[o].bytes /\ files'[o].sound = files[o].sound
    <3> HIDE DEF o, want
    <3> QED
      BY <1>1, <2>1 DEF FileRecord
  <2>3. st' = [kind |-> st.kind, fo |-> st.fo, map |-> st.map, cur |-> st.cur, size |-> st.size, mem |-> st.mem \o s]
    BY <1>1, <2>1
  <2>4. st'.kind = st.kind /\ st'.fo = st.fo /\ st'.map = st.map /\ st'.mem = st.mem \o s
    BY <2>3
  <2>5. st' \in [kind : {"file", "memory", "mapped"}, fo : [h : 0..Attached, owns : BOOLEAN], map : BOOLEAN,
                 cur : Nat, size : Nat, mem : Seq(Nat)]
    <3>1. st.mem \o s \in Seq(Nat)
      BY <1>1, SMTT(60)
    <3> QED
      BY <1>1, <2>3, <3>1
  <2>6. ContentOf(o)'
    <3>1. files[o].sound => st.mem = files[o].want
      BY <1>1, <1>5 DEF ContentOf
    <3> QED
      BY <1>1, <1>5, <2>2, <2>4, <3>1, ZenonT(60) DEF ContentOf
  <2> QED
    BY <1>1, <1>3, <2>2, <2>4, <2>5, <2>6, OneFileChanges
<1>6. CASE good /\ st.kind = "file"
  <2> DEFINE wanted == [files EXCEPT ![o].want = want]
  <2>1. files' = [wanted EXCEPT ![o].bytes = bytes] /\ st' = st /\ outcome' = "open"
    BY <1>1, <1>2, <1>6
  <2>2. wanted = [files EXCEPT ![o].want = want]
    OBVIOUS
  <2> HIDE DEF wanted
  <2>3. /\ files' \in [Handles -> FileRecord] /\ \A g \in Handles : g # o => files'[g] = files[g]
        /\ files'[o].used = files[o].used /\ files'[o].open = files[o].open /\ files'[o].want = want
        /\ files'[o].bytes = bytes /\ files'[o].sound = files[o].sound
    <3> HIDE DEF o, want, bytes
    <3>1. /\ wanted \in [Handles -> FileRecord] /\ \A g \in Handles : g # o => wanted[g] = files[g]
          /\ wanted[o].used = files[o].used /\ wanted[o].open = files[o].open /\ wanted[o].want = want
          /\ wanted[o].sound = files[o].sound
      BY <1>1, <2>2 DEF FileRecord
    <3>2. /\ files' \in [Handles -> FileRecord] /\ \A g \in Handles : g # o => files'[g] = wanted[g]
          /\ files'[o].used = wanted[o].used /\ files'[o].open = wanted[o].open /\ files'[o].want = wanted[o].want
          /\ files'[o].sound = wanted[o].sound /\ files'[o].bytes = bytes
      BY <1>1, <2>1, <3>1, ZenonT(60) DEF FileRecord
    <3> QED
      BY <3>1, <3>2
  <2>4. ContentOf(o)'
    <3>1. want = bytes
      BY <1>1, <1>6 DEF ContentOf
    <3> QED
      BY <1>1, <1>6, <2>1, <2>3, <3>1, ZenonT(60) DEF ContentOf
  <2> QED
    BY <1>1, <1>3, <2>1, <2>3, <2>4, OneFileChanges, Zenon
<1> QED
  BY <1>1, <1>4, <1>5, <1>6

LEMMA PutIs ==
  ASSUME NEW want \in Seq(Nat), NEW b \in Seq(Nat), NEW s \in Seq(Nat),
         IsPrefix(want, b), Len(want) + Len(s) <= Len(b)
  PROVE  /\ Put(b, Len(want), s) \in Seq(Nat) /\ Len(Put(b, Len(want), s)) = Len(b)
         /\ IsPrefix(want \o s, Put(b, Len(want), s))
<1> DEFINE p == Put(b, Len(want), s)
<1>1. Len(want) \in Nat /\ Len(s) \in Nat /\ Len(b) \in Nat /\ DOMAIN b = 1..Len(b)
  OBVIOUS
<1>2. p = [i \in 1..Len(b) |-> IF i > Len(want) /\ i <= Len(want) + Len(s) THEN s[i - Len(want)] ELSE b[i]]
  BY <1>1 DEF Put
<1>3. \A i \in 1..Len(b) :
         (IF i > Len(want) /\ i <= Len(want) + Len(s) THEN s[i - Len(want)] ELSE b[i]) \in Nat
  BY <1>1, SMTT(60)
<1>4. p \in Seq(Nat) /\ Len(p) = Len(b)
  <2> HIDE DEF p
  <2>1. p \in [1..Len(b) -> Nat]
    BY <1>2, <1>3
  <2>2. \A n \in Nat : p \in [1..n -> Nat] => p \in Seq(Nat) /\ Len(p) = n
    OBVIOUS
  <2> QED
    BY <1>1, <2>1, <2>2, Zenon
<1>5. \A i \in 1..Len(want) : b[i] = want[i]
  BY PrefixMeans
<1>6. want \o s \in Seq(Nat) /\ Len(want \o s) = Len(want) + Len(s)
  OBVIOUS
<1>7. ASSUME NEW i \in 1..Len(want \o s) PROVE (want \o s)[i] = p[i]
  <2>1. CASE i <= Len(want)
    <3>1. (want \o s)[i] = want[i] /\ p[i] = b[i] /\ i \in 1..Len(want)
      BY <1>1, <1>2, <1>6, <2>1
    <3> QED
      BY <1>5, <3>1
  <2>2. CASE i > Len(want)
    <3>1. (want \o s)[i] = s[i - Len(want)] /\ p[i] = s[i - Len(want)]
      BY <1>1, <1>2, <1>6, <2>2
    <3> QED
      BY <3>1
  <2> QED
    BY <1>1, <2>1, <2>2
<1> HIDE DEF p
<1>8. IsPrefix(want \o s, p)
  BY <1>4, <1>6, <1>7, PrefixMeans
<1> QED
  BY <1>4, <1>8 DEF p

LEMMA PaddedKeeps ==
  ASSUME NEW want \in Seq(Nat), NEW b \in Seq(Nat), NEW m \in Nat, Len(b) <= m, IsPrefix(want, b)
  PROVE  IsPrefix(want, Padded(b, m))
<1> DEFINE p == Padded(b, m)
<1>1. p \in Seq(Nat) /\ Len(p) = m /\ \A i \in 1..m : p[i] = IF i <= Len(b) THEN b[i] ELSE 0
  BY PaddedIs
<1>2. Len(want) <= Len(b) /\ \A i \in 1..Len(want) : want[i] = b[i]
  BY PrefixMeans
<1> HIDE DEF p
<1>3. \A i \in 1..Len(want) : want[i] = p[i]
  BY <1>1, <1>2, SMTT(60)
<1>4. Len(want) <= Len(p)
  BY <1>1, <1>2
<1>5. IsPrefix(want, p)
  BY <1>1, <1>3, <1>4, PrefixMeans
<1> QED
  BY <1>5 DEF p

\* The mapping grows by as many blocks as the bytes need.
LEMMA BlocksEnough ==
  ASSUME NEW n \in Nat \ {0}, NEW b \in Nat \ {0}
  PROVE  ((n - 1) \div b + 1) * b \in Nat /\ n <= ((n - 1) \div b + 1) * b
<1>1. (n - 1) \div b \in Nat /\ (n - 1) % b \in 0..b-1 /\ n - 1 = b * ((n - 1) \div b) + ((n - 1) % b)
  BY SMT
<1>2. PICK q \in Nat : q = (n - 1) \div b
  BY <1>1
<1>3. PICK r \in 0..b-1 : n - 1 = b * q + r
  BY <1>1, <1>2
<1>4. (q + 1) * b = b * q + b /\ b * q \in Nat
  BY <1>2, SMT
<1> QED
  BY <1>2, <1>3, <1>4

\* What was written lies in the mapping, and the mapping in the file.
LEMMA MappedIs ==
  ASSUME OutInv, outcome = "open", st.kind = "mapped"
  PROVE  /\ IsPrefix(files[st.fo.h].want, files[st.fo.h].bytes)
         /\ st.map = TRUE /\ st.cur = Len(files[st.fo.h].want) /\ st.size = Len(files[st.fo.h].bytes)
         /\ st.cur \in Nat /\ st.size \in Nat /\ st.cur <= st.size
<1>1. /\ IsPrefix(files[st.fo.h].want, files[st.fo.h].bytes)
      /\ st.map = TRUE /\ st.cur = Len(files[st.fo.h].want) /\ st.size = Len(files[st.fo.h].bytes)
  <2>1. ContentOf(st.fo.h) /\ st.map \in BOOLEAN
    BY OpenIs
  <2> QED
    BY <2>1 DEF ContentOf
<1>2. Len(files[st.fo.h].want) <= Len(files[st.fo.h].bytes)
  BY <1>1, OpenIs, PrefixMeans
<1>3. st.cur \in Nat /\ st.size \in Nat
  BY OpenIs
<1> QED
  BY <1>1, <1>2, <1>3

\* Bytes that fit, into what the mapping has become.
LEMMA PuttingKeeps ==
  ASSUME OutInv, outcome = "open", st.kind = "mapped",
         NEW s \in Seq(Nat), NEW b \in Seq(Nat), NEW m \in Nat,
         Len(b) = m, st.cur + Len(s) <= m, IsPrefix(files[st.fo.h].want, b)
  PROVE  /\ st' = [st EXCEPT !.map = TRUE, !.size = m, !.cur = st.cur + Len(s)]
         /\ files' = [files EXCEPT ![st.fo.h].bytes = Put(b, st.cur, s), ![st.fo.h].want = @ \o s]
         /\ outcome' = "open"
         => OutInv'
<1>0. SUFFICES ASSUME st' = [st EXCEPT !.map = TRUE, !.size = m, !.cur = st.cur + Len(s)],
                      files' = [files EXCEPT ![st.fo.h].bytes = Put(b, st.cur, s), ![st.fo.h].want = @ \o s],
                      outcome' = "open"
      PROVE  OutInv'
  OBVIOUS
<1> DEFINE o == st.fo.h
           want == files[st.fo.h].want \o s
           bytes == Put(b, st.cur, s)
           cur == st.cur + Len(s)
<1>1. /\ st \in [kind : {"file", "memory", "mapped"}, fo : [h : 0..Attached, owns : BOOLEAN], map : BOOLEAN,
                 cur : Nat, size : Nat, mem : Seq(Nat)]
      /\ files \in [Handles -> FileRecord]
      /\ FOpened /\ o \in Handles /\ o # Invalid /\ files[o].used /\ files[o] \in FileRecord
      /\ files[o].want \in Seq(Nat)
  BY OpenIs
<1>2. st.cur = Len(files[o].want) /\ st.cur \in Nat
  BY MappedIs
<1>3. /\ want \in Seq(Nat) /\ bytes \in Seq(Nat) /\ Len(bytes) = m /\ IsPrefix(want, bytes)
  BY <1>1, <1>2, PutIs
<1>4. cur = Len(want) /\ cur \in Nat
  BY <1>1, <1>2
<1> DEFINE put == [files EXCEPT ![o].bytes = bytes]
<1>5. put = [files EXCEPT ![o].bytes = bytes]
  OBVIOUS
<1>6. files' = [put EXCEPT ![o].want = want]
  BY <1>0, <1>1
<1> HIDE DEF put, bytes, cur
<1>7. /\ files' \in [Handles -> FileRecord] /\ \A g \in Handles : g # o => files'[g] = files[g]
      /\ files'[o].used = files[o].used /\ files'[o].open = files[o].open /\ files'[o].want = want
      /\ files'[o].bytes = bytes /\ files'[o].sound = files[o].sound
  <2> HIDE DEF o, want
  <2>1. /\ put \in [Handles -> FileRecord] /\ \A g \in Handles : g # o => put[g] = files[g]
        /\ put[o].used = files[o].used /\ put[o].open = files[o].open /\ put[o].bytes = bytes
        /\ put[o].sound = files[o].sound
    BY <1>1, <1>3, <1>5 DEF FileRecord
  <2>2. /\ files' \in [Handles -> FileRecord] /\ \A g \in Handles : g # o => files'[g] = put[g]
        /\ files'[o].used = put[o].used /\ files'[o].open = put[o].open /\ files'[o].want = want
        /\ files'[o].sound = put[o].sound /\ files'[o].bytes = put[o].bytes
    BY <1>1, <1>3, <1>6, <2>1 DEF FileRecord
  <2> QED
    BY <2>1, <2>2
<1>8. st' = [kind |-> st.kind, fo |-> st.fo, map |-> TRUE, cur |-> cur, size |-> m, mem |-> st.mem]
  BY <1>0, <1>1 DEF cur
<1>9. /\ st'.kind = st.kind /\ st'.fo = st.fo /\ st'.map = TRUE /\ st'.cur = cur /\ st'.size = m
  BY <1>8
<1>10. st' \in [kind : {"file", "memory", "mapped"}, fo : [h : 0..Attached, owns : BOOLEAN], map : BOOLEAN,
                cur : Nat, size : Nat, mem : Seq(Nat)]
  BY <1>1, <1>4, <1>8
<1>11. ContentOf(o)'
  BY <1>1, <1>3, <1>4, <1>7, <1>9, ZenonT(60) DEF ContentOf
<1> QED
  BY <1>0, <1>1, <1>7, <1>9, <1>10, <1>11, OneFileChanges, ZenonT(60)

\* A mapping that could not grow: what was written is in the file still.
LEMMA LosingKeeps ==
  ASSUME OutInv, outcome = "open", st.kind = "mapped",
         NEW b \in Seq(Nat), NEW m \in Nat, IsPrefix(files[st.fo.h].want, b)
  PROVE  /\ st' = [st EXCEPT !.map = FALSE, !.size = m, !.cur = st.cur]
         /\ files' = Failed([files EXCEPT ![st.fo.h].bytes = b], st.fo.h)
         /\ outcome' = "threw"
         => OutInv'
<1>0. SUFFICES ASSUME st' = [st EXCEPT !.map = FALSE, !.size = m, !.cur = st.cur],
                      files' = Failed([files EXCEPT ![st.fo.h].bytes = b], st.fo.h),
                      outcome' = "threw"
      PROVE  OutInv'
  OBVIOUS
<1> DEFINE o == st.fo.h
           cut == [files EXCEPT ![o].bytes = b]
<1>1. /\ st \in [kind : {"file", "memory", "mapped"}, fo : [h : 0..Attached, owns : BOOLEAN], map : BOOLEAN,
                 cur : Nat, size : Nat, mem : Seq(Nat)]
      /\ files \in [Handles -> FileRecord]
      /\ FOpened /\ o \in Handles /\ o # Invalid /\ files[o].used /\ files[o] \in FileRecord
  BY OpenIs
<1>2. files' = [cut EXCEPT ![o].sound = FALSE]
  BY <1>0, <1>1 DEF Failed
<1>3. cut = [files EXCEPT ![o].bytes = b]
  OBVIOUS
<1> HIDE DEF cut
<1>4. /\ files' \in [Handles -> FileRecord] /\ \A g \in Handles : g # o => files'[g] = files[g]
      /\ files'[o].used = files[o].used /\ files'[o].open = files[o].open /\ files'[o].want = files[o].want
      /\ files'[o].bytes = b /\ files'[o].sound = FALSE
  <2> HIDE DEF o
  <2>1. /\ cut \in [Handles -> FileRecord] /\ \A g \in Handles : g # o => cut[g] = files[g]
        /\ cut[o].used = files[o].used /\ cut[o].open = files[o].open /\ cut[o].bytes = b
        /\ cut[o].want = files[o].want
    BY <1>1, <1>3 DEF FileRecord
  <2>2. /\ files' \in [Handles -> FileRecord] /\ \A g \in Handles : g # o => files'[g] = cut[g]
        /\ files'[o].used = cut[o].used /\ files'[o].open = cut[o].open /\ files'[o].want = cut[o].want
        /\ files'[o].sound = FALSE /\ files'[o].bytes = cut[o].bytes
    BY <1>1, <1>2, <2>1 DEF FileRecord
  <2> QED
    BY <2>1, <2>2
<1>5. st' = [kind |-> st.kind, fo |-> st.fo, map |-> FALSE, cur |-> st.cur, size |-> m, mem |-> st.mem]
  BY <1>0, <1>1
<1>6. st'.kind = st.kind /\ st'.fo = st.fo /\ st'.map = FALSE
  BY <1>5
<1>7. st' \in [kind : {"file", "memory", "mapped"}, fo : [h : 0..Attached, owns : BOOLEAN], map : BOOLEAN,
               cur : Nat, size : Nat, mem : Seq(Nat)]
  BY <1>1, <1>5
<1>8. ContentOf(o)'
  <2>1. outcome' = "threw"
    BY <1>0
  <2> QED
    BY <1>1, <1>4, <1>6, <2>1 DEF ContentOf
<1> QED
  BY <1>0, <1>1, <1>4, <1>6, <1>7, <1>8, OneFileChanges

LEMMA MappedKeeps ==
  ASSUME OutInv, outcome = "open", st.kind = "mapped", NEW s \in Seq(Nat), Len(s) # 0, WriteMapped(s)
  PROVE  OutInv'
<1> DEFINE o == st.fo.h
           want == files[st.fo.h].want
           bytes == files[st.fo.h].bytes
           n == Len(s)
           size == st.size + ((n - 1) \div Block + 1) * Block
<1>1. want \in Seq(Nat) /\ bytes \in Seq(Nat) /\ n \in Nat \ {0}
  BY OpenIs
<1>2. IsPrefix(want, bytes) /\ st.size = Len(bytes) /\ st.cur \in Nat /\ st.size \in Nat /\ st.cur <= st.size
  BY MappedIs, SMTT(60)
<1>3. PICK sized \in BOOLEAN, mapped \in BOOLEAN :
         LET g == IF st.size - st.cur >= n THEN [map |-> TRUE, size |-> st.size, bytes |-> bytes]
                  ELSE Grown(n, sized, mapped)
         IN  /\ st' = [st EXCEPT !.map = g.map, !.size = g.size, !.cur = IF g.map THEN @ + n ELSE @]
             /\ files' = IF g.map THEN [files EXCEPT ![o].bytes = Put(g.bytes, st.cur, s), ![o].want = @ \o s]
                         ELSE Failed([files EXCEPT ![o].bytes = g.bytes], o)
             /\ outcome' = IF g.map THEN outcome ELSE "threw"
  BY Zenon DEF WriteMapped, File
<1>4. size \in Nat /\ st.size <= size /\ st.cur + n <= size
  <2>1. ((n - 1) \div Block + 1) * Block \in Nat /\ n <= ((n - 1) \div Block + 1) * Block
    BY <1>1, BlocksEnough, OutputAssumption
  <2> DEFINE more == ((n - 1) \div Block + 1) * Block
  <2>2. more \in Nat /\ n <= more
    BY <2>1
  <2>3. \A a \in Nat, b \in Nat, c \in Nat, d \in Nat :
           a <= b /\ c <= d => b + d \in Nat /\ b <= b + d /\ a + c <= b + d
    OBVIOUS
  <2> HIDE DEF more
  <2>4. st.size + more \in Nat /\ st.size <= st.size + more /\ st.cur + n <= st.size + more
    BY <1>1, <1>2, <2>2, <2>3
  <2> QED
    BY <2>4 DEF more
<1> HIDE DEF size
<1>5. Grown(n, sized, mapped) = [map |-> sized /\ mapped, size |-> size,
                                 bytes |-> IF sized THEN Padded(bytes, size) ELSE bytes]
  BY DEF Grown, File, size
<1>6. /\ Padded(bytes, size) \in Seq(Nat) /\ Len(Padded(bytes, size)) = size
      /\ IsPrefix(want, Padded(bytes, size))
  BY <1>1, <1>2, <1>4, PaddedIs, PaddedKeeps, ZenonT(60)
<1>7. CASE st.size - st.cur >= n
  <2>1. /\ st' = [st EXCEPT !.map = TRUE, !.size = st.size, !.cur = st.cur + n]
        /\ files' = [files EXCEPT ![o].bytes = Put(bytes, st.cur, s), ![o].want = @ \o s]
        /\ outcome' = "open"
    BY <1>3, <1>7
  <2>2. st.cur + n <= st.size
    BY <1>1, <1>2, <1>7, SMTT(60)
  <2> QED
    BY <1>1, <1>2, <2>1, <2>2, PuttingKeeps, Zenon
<1> DEFINE g == IF st.size - st.cur >= n THEN [map |-> TRUE, size |-> st.size, bytes |-> bytes]
                ELSE Grown(n, sized, mapped)
<1>8. CASE ~(st.size - st.cur >= n) /\ sized /\ mapped
  <2>0. g = [map |-> TRUE, size |-> size, bytes |-> Padded(bytes, size)]
    BY <1>5, <1>8
  <2>1. /\ st' = [st EXCEPT !.map = TRUE, !.size = size, !.cur = st.cur + n]
        /\ files' = [files EXCEPT ![o].bytes = Put(Padded(bytes, size), st.cur, s), ![o].want = @ \o s]
        /\ outcome' = "open"
    <3>1. g.map = TRUE /\ g.size = size /\ g.bytes = Padded(bytes, size)
      BY <2>0
    <3> HIDE DEF g, size
    <3>2. /\ st' = [st EXCEPT !.map = g.map, !.size = g.size, !.cur = st.cur + n]
          /\ files' = [files EXCEPT ![o].bytes = Put(g.bytes, st.cur, s), ![o].want = @ \o s]
          /\ outcome' = outcome
      BY <1>3, <3>1 DEF g
    <3> QED
      BY <3>1, <3>2
  <2> QED
    BY <1>4, <1>6, <2>1, PuttingKeeps, Zenon
<1>9. CASE ~(st.size - st.cur >= n) /\ ~(sized /\ mapped)
  <2> DEFINE b == IF sized THEN Padded(bytes, size) ELSE bytes
  <2>0. g = [map |-> FALSE, size |-> size, bytes |-> b]
    BY <1>5, <1>9
  <2> HIDE DEF b
  <2>1. /\ st' = [st EXCEPT !.map = FALSE, !.size = size, !.cur = st.cur]
        /\ files' = Failed([files EXCEPT ![o].bytes = b], o)
        /\ outcome' = "threw"
    <3>1. g.map = FALSE /\ g.size = size /\ g.bytes = b
      BY <2>0
    <3> HIDE DEF g, size
    <3>2. /\ st' = [st EXCEPT !.map = g.map, !.size = g.size, !.cur = st.cur]
          /\ files' = Failed([files EXCEPT ![o].bytes = g.bytes], o)
          /\ outcome' = "threw"
      BY <1>3, <3>1 DEF g
    <3> QED
      BY <3>1, <3>2
  <2>2. b \in Seq(Nat) /\ IsPrefix(want, b)
    BY <1>1, <1>2, <1>6 DEF b
  <2> QED
    BY <1>4, <2>1, <2>2, LosingKeeps
<1> QED
  BY <1>7, <1>8, <1>9

LEMMA WriteKeeps == OutInv /\ WriteStream => OutInv'
<1> SUFFICES ASSUME OutInv, WriteStream PROVE OutInv'
  OBVIOUS
<1>1. outcome = "open"
  BY DEF WriteStream
<1>2. PICK n \in 1 .. MostBytes - Len(File.want) :
         LET s == [i \in 1 .. n |-> Len(File.want) + i]
         IN  IF st.kind = "mapped" THEN WriteMapped(s) ELSE WriteRaw(s)
  BY DEF WriteStream
<1> DEFINE s == [i \in 1 .. n |-> Len(File.want) + i]
<1>3. Len(File.want) \in Nat
  BY <1>1, OpenIs DEF File
<1>4. n \in Nat \ {0}
  BY <1>2, <1>3, OutputAssumption
<1>5. s \in Seq(Nat) /\ Len(s) = n
  <2>1. \A i \in 1 .. n : Len(File.want) + i \in Nat
    BY <1>3, <1>4
  <2>2. s \in [1 .. n -> Nat]
    BY <2>1
  <2>3. \A k \in Nat : s \in [1..k -> Nat] => s \in Seq(Nat) /\ Len(s) = k
    OBVIOUS
  <2> QED
    BY <1>4, <2>2, <2>3
<1>6. IF st.kind = "mapped" THEN WriteMapped(s) ELSE WriteRaw(s)
  BY <1>2
<1> HIDE DEF s
<1>7. CASE st.kind = "mapped"
  BY <1>1, <1>4, <1>5, <1>6, <1>7, MappedKeeps
<1>8. CASE st.kind # "mapped"
  BY <1>1, <1>5, <1>6, <1>8, RawKeeps
<1> QED
  BY <1>7, <1>8

-----------------------------------------------------------------------------
\* The streams and their files are as OutInv says, whatever fails and wherever
\* (the streams of jsonstrm.h), if the client reopens no stream that keeps its
\* text in memory, and attaches and moves none that does not own its handle.
THEOREM OutputInvariance == ASSUME AsMeant PROVE SpecOutput => []OutInv
<1>1. InitOutput => OutInv
  BY InitialOutput
<1>2. ASSUME OutInv, [NextOutput]_outputVars PROVE OutInv'
  <2>1. CASE OpenStream
    BY <1>2, <2>1, OpenKeeps
  <2>2. CASE AttachFd
    BY <1>2, <2>2, AttachKeeps
  <2>3. CASE MoveStream
    BY <1>2, <2>3, MoveKeeps
  <2>4. CASE WriteStream
    BY <1>2, <2>4, WriteKeeps
  <2>5. CASE CloseStream
    BY <1>2, <2>5, CloseKeeps
  <2>6. CASE DestroyStream
    BY <1>2, <2>6, CloseKeeps
  <2>7. CASE UNCHANGED outputVars
    <3>1. st' = st /\ files' = files /\ outcome' = outcome
      BY <2>7 DEF outputVars
    <3>2. OutputTypeOK'
      BY <1>2, <3>1 DEF OutInv, OutputTypeOK
    <3>3. StreamOwns'
      BY <1>2, <3>1 DEF OutInv, StreamOwns, FOpened
    <3>4. HandlesAreClosedOnce'
      BY <1>2, <3>1 DEF OutInv, HandlesAreClosedOnce, FOpened
    <3>5. ASSUME NEW h \in Handles PROVE ContentOf(h)'
      <4>1. ContentOf(h)
        BY <1>2 DEF OutInv
      <4> QED
        BY <3>1, <4>1 DEF ContentOf
    <3> QED
      BY <3>2, <3>3, <3>4, <3>5 DEF OutInv
  <2> QED
    BY <1>2, <2>1, <2>2, <2>3, <2>4, <2>5, <2>6, <2>7 DEF NextOutput
<1> QED
  BY <1>1, <1>2, PTL DEF SpecOutput

\* OutInv says enough of a file that is closed, and of one that is written to.
LEMMA OutInvMeans == OutInv => OutputsAreWhole
<1> SUFFICES ASSUME OutInv PROVE OutputsAreWhole
  OBVIOUS
<1>1. ASSUME NEW h \in Handles, files[h].sound, ~files[h].open PROVE files[h].bytes = files[h].want
  <2>1. ContentOf(h)
    BY DEF OutInv
  <2>2. CASE h # st.fo.h
    BY <1>1, <2>1, <2>2 DEF ContentOf
  <2>3. CASE h = st.fo.h
    <3>1. h # Invalid /\ FOpened
      BY <2>3, HandleNumbers DEF FOpened, FIsOpen, Invalid
    <3>2. files[h].open
      BY <2>3, <3>1, HandleNumbers DEF OutInv, HandlesAreClosedOnce
    <3> QED
      BY <1>1, <3>2
  <2> QED
    BY <2>2, <2>3
<1>2. ASSUME st.kind # "memory", NEW h \in Handles PROVE IsPrefix(files[h].want, files[h].bytes)
  <2>1. ContentOf(h) /\ files[h] \in FileRecord /\ st.kind \in {"file", "memory", "mapped"}
    BY DEF OutInv, OutputTypeOK
  <2>2. files[h].want \in Seq(Nat) /\ files[h].bytes \in Seq(Nat)
    BY <2>1 DEF FileRecord
  <2>3. CASE st.kind = "file"
    BY <2>1, <2>2, <2>3, PrefixMeans DEF ContentOf
  <2>4. CASE st.kind = "mapped"
    BY <2>1, <2>4 DEF ContentOf
  <2> QED
    BY <1>2, <2>1, <2>3, <2>4
<1> QED
  BY <1>1, <1>2 DEF OutInv, OutputsAreWhole, ClosedFilesAreWhole, NothingWrittenIsLost

\* A file that was closed, and of which no call was reported to fail, holds what was
\* written; nothing written is lost as the mapping grows; handles are closed once
\* (jsonstrm.h:1603, 1697, 1428).
THEOREM OutputsStayWhole == ASSUME AsMeant PROVE SpecOutput => []OutputsAreWhole
  BY OutputInvariance, OutInvMeans, PTL

=============================================================================
