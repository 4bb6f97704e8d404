-------------------------------- MODULE Utf --------------------------------
(***************************************************************************)
(* The conversions between UTF-8, UTF-16 and UTF-32 (utfconvert.h), which  *)
(* the JSON streams, the log and the strings write with.  A text is a      *)
(* sequence of code units, numbers; one step is one call of PCConvertUTF,  *)
(* which consumes at least one unit and gives the units of one character.  *)
(* What cannot be converted is an error when the replacement character is  *)
(* 0, and else becomes the replacement character.                          *)
(***************************************************************************)
EXTENDS Integers, Sequences, SequencesExt

CONSTANTS
    Texts,      \* Texts[8], Texts[16] and Texts[32]: the texts to convert
    Rooms,      \* the sizes of the destinations that PCConvertString is given
    MaxAlloca,  \* vknbyMaxAllocaSize: longer results are made in the target itself
    Careful     \* no text of UTF-16 with a low surrogate by itself is made UTF-32

VARIABLES
    conv,       \* the conversion: from, to, repl, how it is asked for, and the room it has
    src, pos,   \* the text and how much of it is converted
    out,        \* what is written
    target,     \* the string that ConvertString fills
    end         \* "no", or how the call ended

vars == <<conv, src, pos, out, target, end>>

Encodings == {8, 16, 32}
Replacement == 65533
Error == 0
Invalid == -1       \* vkutf32Error

FIsHighSurrogate(u) == u \in 55296..56319
FIsLowSurrogate(u) == u \in 56320..57343
FIsSurrogate(u) == FIsHighSurrogate(u) \/ FIsLowSurrogate(u)
FInvalidUTF32(u) == u > 1114111 \/ FIsSurrogate(u)

\* utf_traits::max_length, and the bytes of a unit.
MaxLength(e) == CASE e = 8 -> 4 [] e = 16 -> 2 [] e = 32 -> 1
Bytes(e) == e \div 8

Left(p) == Len(src) - p
At(p) == src[p + 1]

(***************************************************************************)
(* One character to the units of an encoding.  The branches that split a   *)
(* character into surrogates stand in each conversion to UTF-16.           *)
(***************************************************************************)
Trail(u) == 128 + (u % 64)

ConvertUTF32ToUTF8(u) ==
    CASE u < 128 -> <<u>>
      [] u \in 128..2047 -> <<192 + (u \div 64), Trail(u)>>
      [] u \in 2048..65535 -> <<224 + (u \div 4096), Trail(u \div 64), Trail(u)>>
      [] OTHER -> <<240 + (u \div 262144), Trail(u \div 4096), Trail(u \div 64), Trail(u)>>

ToUTF16Unshifted(u) == IF u <= 65535 THEN <<u>> ELSE <<55296 + (u \div 1024), 56320 + (u % 1024)>>

ToUTF16(u) ==
    IF u <= 65535 THEN <<u>>
    ELSE <<55296 + ((u - 65536) \div 1024), 56320 + ((u - 65536) % 1024)>>

Units(e, u) == CASE e = 8 -> ConvertUTF32ToUTF8(u) [] e = 16 -> ToUTF16(u) [] e = 32 -> <<u>>

(***************************************************************************)
(* The character at p, and where the next one is: what the conversions     *)
(* read.  A character is Invalid when it cannot be converted; then next is *)
(* where the replacement character goes on.                                *)
(***************************************************************************)
TrailBytes(b) ==    \* vkrgu8TrailBytesUTF8
    CASE b < 192 -> 0 [] b \in 192..223 -> 1 [] b \in 224..239 -> 2
      [] b \in 240..247 -> 3 [] b \in 248..251 -> 4 [] OTHER -> 5

FAnyHighByte(b) == b >= 128
FIsTrailByteUTF8(b) == b \in 128..191

PcSkipAll(p, n) == p + n

PcLastTrailByte(p, n) ==
    CHOOSE q \in p+1..p+n : /\ q = p + n \/ ~FIsTrailByteUTF8(At(q))
                            /\ \A r \in p+1..q-1 : FIsTrailByteUTF8(At(r))

\* The second byte is one that the first allows.
SecondFits(p) ==
    CASE At(p) = 224 -> At(p + 1) >= 160
      [] At(p) = 237 -> At(p + 1) <= 159
      [] At(p) = 240 -> At(p + 1) >= 144
      [] At(p) = 244 -> At(p + 1) <= 143
      [] OTHER -> TRUE

PcValidUTF8Lax(p, n) ==
    IF n > 4 \/ \E q \in p+1..p+n-1 : ~FIsTrailByteUTF8(At(q)) THEN PcLastTrailByte(p, n)
    ELSE IF At(p) \in 128..193 \/ At(p) > 244 THEN p + 1
    ELSE 0

\* 0 when the n bytes at p are a character, else the end of what is wrong.
PcValidUTF8Sequence(p, n) ==
    IF n > 4 \/ \E q \in p+1..p+n-1 : ~FIsTrailByteUTF8(At(q)) THEN PcLastTrailByte(p, n)
    ELSE IF (n > 1 /\ ~SecondFits(p)) \/ At(p) \in 128..193 \/ At(p) > 244 THEN p + 1
    ELSE 0

\* The offsets take away what the marks of the bytes add up to.
OffsetsFromUTF8 == <<0, 12416, 925824, 63447168>>

ConvertUTF8(p) ==
    LET rest == TrailBytes(At(p))
        wrongEnd == IF rest >= Left(p) THEN Len(src) ELSE PcValidUTF8Sequence(p, rest + 1)
        sum == FoldLeft(LAMBDA acc, b : acc * 64 + b, 0, SubSeq(src, p + 1, p + rest + 1))
    IN IF wrongEnd # 0 THEN [char |-> Invalid, next |-> wrongEnd]
       ELSE [char |-> sum - OffsetsFromUTF8[rest + 1], next |-> p + rest + 1]

Combined(p) == (At(p) - 55296) * 1024 + (At(p + 1) - 56320) + 65536

\* To UTF-8 every surrogate is looked at, to UTF-32 the high ones only.
ConvertUTF16Stays(p, to) ==
    IF ~FIsSurrogate(At(p)) THEN [char |-> At(p), next |-> p + 1]
    ELSE IF FIsHighSurrogate(At(p)) /\ Left(p) > 1 /\ FIsLowSurrogate(At(p + 1))
    THEN [char |-> Combined(p), next |-> p + 2]
    ELSE [char |-> Invalid, next |-> p]

ConvertUTF16(p, to) ==
    IF ~FIsHighSurrogate(At(p)) /\ (to = 32 \/ ~FIsLowSurrogate(At(p))) THEN [char |-> At(p), next |-> p + 1]
    ELSE IF FIsHighSurrogate(At(p)) /\ Left(p) > 1 /\ FIsLowSurrogate(At(p + 1))
    THEN [char |-> Combined(p), next |-> p + 2]
    ELSE [char |-> Invalid, next |-> p + 1]

ConvertUTF32(p) == [char |-> IF FInvalidUTF32(At(p)) THEN Invalid ELSE At(p), next |-> p + 1]

Converted(p) ==
    CASE conv.from = 8 -> ConvertUTF8(p)
      [] conv.from = 16 -> ConvertUTF16(p, conv.to)
      [] conv.from = 32 -> ConvertUTF32(p)

(***************************************************************************)
(* The calls.  FWriteUTFStream and FWriteUTFFunctor give each character to *)
(* a stream, which may fail; PCConvertString fills the destination it is   *)
(* given; ConvertString makes one that is large enough.                    *)
(***************************************************************************)
Hows == {"write", "fill", "string"}
Same == conv.from = conv.to

AloneLow(text) == \E i \in 1..Len(text) : /\ FIsLowSurrogate(text[i])
                                          /\ i > 1 => ~FIsHighSurrogate(text[i - 1])

Old == [is |-> "old", text |-> <<>>]
Unfilled == [is |-> "room", text |-> <<>>]

Long(c, n) == MaxLength(c.to) * n * Bytes(c.to) > MaxAlloca

\* The room in units.  There is no fill that does not convert: it does not compile.
Init ==
    /\ \E from, to \in Encodings, repl \in {Error, Replacement}, how \in Hows, text \in UNION {Texts[e] : e \in Encodings} :
        /\ text \in Texts[from]
        /\ from = to => how # "fill"
        /\ Careful => ~(from = 16 /\ to = 32 /\ AloneLow(text))
        /\ src = text
        /\ \E room \in IF how = "fill" THEN Rooms ELSE {MaxLength(to) * Len(text)} :
            conv = [from |-> from, to |-> to, repl |-> repl, how |-> how, room |-> room]
    /\ pos = 0 /\ out = <<>> /\ end = "no"
    /\ target = IF conv.how = "string" /\ ~Same /\ Long(conv, Len(src)) THEN Unfilled ELSE Old

Running == end = "no"
Taken(text) == [is |-> "taken", text |-> text]
Room == conv.room - Len(out)
HasRoom == conv.how = "write" \/ Room >= MaxLength(conv.to)

\* Nothing to convert: the text is written, or the target assigned, as it is.
CopyText ==
    /\ Running /\ Same
    /\ pos' = Len(src)
    /\ \/ out' = src /\ end' = "done" /\ target' = IF conv.how = "string" THEN Taken(src) ELSE target
       \/ conv.how = "write" /\ src # <<>> /\ end' = "failed" /\ UNCHANGED <<out, target>>
    /\ UNCHANGED <<conv, src>>

\* One character, when it can be converted or replaced.
ConvertNext ==
    /\ Running /\ ~Same /\ Left(pos) > 0 /\ HasRoom
    /\ LET c == Converted(pos)
           char == IF c.char = Invalid THEN conv.repl ELSE c.char
       IN /\ c.char = Invalid => conv.repl # Error
          /\ pos' = c.next
          /\ \/ out' = out \o Units(conv.to, char) /\ end' = end
             \/ conv.how = "write" /\ out' = out /\ end' = "failed"
    /\ UNCHANGED <<conv, src, target>>

\* It cannot: ConvertString throws.
ConvertError ==
    /\ Running /\ ~Same /\ Left(pos) > 0 /\ HasRoom
    /\ Converted(pos).char = Invalid /\ conv.repl = Error
    /\ end' = "error"
    /\ UNCHANGED <<conv, src, pos, out, target>>

\* PCConvertString insists on room for one character, then stops when there is none.
NoRoom ==
    /\ Running /\ ~Same /\ Left(pos) > 0 /\ ~HasRoom
    /\ end' = IF pos = 0 THEN "error" ELSE "full"
    /\ UNCHANGED <<conv, src, pos, out, target>>

TakeAll == Taken(IF target = Unfilled THEN out \o [i \in 1..conv.room - Len(out) |-> 0] ELSE out)

TakeText == Taken(out)

Finish ==
    /\ Running /\ ~Same /\ Left(pos) = 0
    /\ end' = "done"
    /\ target' = IF conv.how = "string" THEN TakeText ELSE target
    /\ UNCHANGED <<conv, src, pos, out>>

Next == CopyText \/ ConvertNext \/ ConvertError \/ NoRoom \/ Finish

Spec == Init /\ [][Next]_vars

(***************************************************************************)
(* What Unicode says: the characters there are, and which units a          *)
(* character is in each encoding, written as the numbers they stand for.   *)
(***************************************************************************)
IsCharacter(c) == c \in 0..1114111 /\ c \notin 55296..57343

\* c is written as units in encoding e.
Writes(e, c, units) ==
    /\ IsCharacter(c)
    /\ CASE e = 32 -> units = <<c>>
         [] e = 16 -> IF Len(units) = 1 THEN units[1] = c
                      ELSE /\ FIsHighSurrogate(units[1]) /\ FIsLowSurrogate(units[2])
                           /\ c = 65536 + (units[1] - 55296) * 1024 + units[2] - 56320
         [] e = 8 -> /\ \A i \in 2..Len(units) : units[i] \in 128..191
                     /\ CASE Len(units) = 1 -> c = units[1] /\ c < 128
                          [] Len(units) = 2 -> c >= 128 /\ units[1] \in 192..223 /\ c = (units[1] - 192) * 64 + units[2] - 128
                          [] Len(units) = 3 -> c >= 2048 /\ units[1] \in 224..239 /\
                                c = (units[1] - 224) * 4096 + (units[2] - 128) * 64 + units[3] - 128
                          [] OTHER -> c >= 65536 /\ units[1] \in 240..247 /\
                                c = (units[1] - 240) * 262144 + (units[2] - 128) * 4096
                                        + (units[3] - 128) * 64 + units[4] - 128

\* The number that the first n units of text are, if they are a character.
NumberOf(e, text, n) ==
    CASE n = 1 -> text[1]
      [] e = 16 -> 65536 + (text[1] - 55296) * 1024 + text[2] - 56320
      [] n = 2 -> (text[1] - 192) * 64 + text[2] - 128
      [] n = 3 -> (text[1] - 224) * 4096 + (text[2] - 128) * 64 + text[3] - 128
      [] OTHER -> (text[1] - 240) * 262144 + (text[2] - 128) * 4096 + (text[3] - 128) * 64 + text[4] - 128

Whole(e, text, n) == n <= Len(text) /\ Writes(e, NumberOf(e, text, n), SubSeq(text, 1, n))

\* The characters of text, in order: what is none of one is passed over, one
\* unit at a time, and leaves Invalid.
Characters(e, text) ==
    LET from[i \in 1..Len(text)+1] ==
            IF i > Len(text) THEN <<>>
            ELSE LET rest == SubSeq(text, i, Len(text))
                     n == {k \in 1..MaxLength(e) : Whole(e, rest, k)}
                 IN IF n = {} THEN <<Invalid>> \o from[i + 1]
                    ELSE LET k == CHOOSE k \in n : TRUE IN <<NumberOf(e, rest, k)>> \o from[i + k]
    IN from[1]

WellFormed(e, text) == Invalid \notin {Characters(e, text)[i] : i \in DOMAIN Characters(e, text)}
Good(chars) == SelectSeq(chars, LAMBDA c : c \notin {Invalid, Replacement})

-----------------------------------------------------------------------------

\* The output is the text: at every moment what is written is, in the other
\* encoding, what of a well-formed text is consumed, with no character cut in
\* two, and at the end it is all of it.
ConvertsFaithfully ==
    WellFormed(conv.from, src) /\ end # "failed" /\ (pos = 0 => ~Same) =>
        LET used == SubSeq(src, 1, pos)
        IN /\ WellFormed(conv.from, used)
           /\ Characters(conv.to, out) = Characters(conv.from, used)
           /\ end = "done" => pos = Len(src)

\* Only text comes out, whatever comes in: no half of a surrogate pair, no
\* long form of a short character, nothing beyond the last character.  (Text
\* that is not converted is not looked at.)
OutputWellFormed == ~Same => WellFormed(conv.to, out)

\* Without a replacement character a text is converted exactly when it is one.
StrictAcceptsOnlyWellFormed ==
    conv.repl = Error /\ ~Same /\ end \in {"done", "error"} /\ conv.room >= MaxLength(conv.to) =>
        (end = "done" <=> WellFormed(conv.from, src))

\* The text ends in the first bytes of a character that lacks the rest.
CutShort == conv.from = 8 /\ \E p \in 0..Len(src)-1 : TrailBytes(At(p)) >= Left(p)

\* The replacement character replaces what is wrong and nothing else: the
\* characters of the text all come through, in order.  (When the last bytes
\* begin a character that is cut short, all that follows its first is replaced.)
OnlyWrongIsReplaced ==
    end = "done" /\ ~Same =>
        LET good == Good(Characters(conv.from, src))
            kept == Good(Characters(conv.to, out))
        IN IF CutShort THEN IsPrefix(kept, good) ELSE kept = good

\* ConvertString has always room for the rest of the text, and the string has
\* the text when the call is over; when it fails, it is as it was unless it is
\* long enough to have been made room in.
TargetTakesText ==
    conv.how = "string" =>
        /\ end # "full"
        /\ end = "done" => target = Taken(out)
        /\ end = "error" => Long(conv, Len(src)) \/ target = Old

\* A call consumes units of the source or fails, and never reads beyond its
\* end: loops over it come to an end.
StepAdvances ==
    end' \in {"no", "done"} /\ src # <<>> =>
        IF end' = "no" THEN pos < pos' /\ pos' <= Len(src) ELSE pos' = Len(src)
=============================================================================
