------------------------------ MODULE JsonScan -------------------------------
(***************************************************************************)
(* How jsonstrm.h reads JSON, character by character: the input streams,    *)
(* and the methods of JsonReadCursor that read or skip one value.  A stream *)
(* is a record; what throws leaves it bad, and a bad stream stays as it is. *)
(***************************************************************************)
EXTENDS JsonText, TLC

CONSTANTS MaxNumber,   \* s_knMaxNumberLength
          BufferLen    \* the characters that _ReadString collects before it appends them

\* in.file tells JsonFileInputStream from JsonFixedMemInputStream and
\* JsonMemMappedInputStream; pos counts the characters read, ch is
\* m_tcLookahead, has is m_fHasLookahead, end that FReadChar has met the end.
Opened(text, file) ==
    [text |-> text, file |-> file, pos |-> 0, ch |-> Nul, has |-> FALSE, end |-> FALSE, bad |-> FALSE]

Thrown(in) == [in EXCEPT !.bad = TRUE]
FEOF(in) == in.pos = Len(in.text) /\ ~in.has
Need(in, S) == IF in.bad \/ in.ch \in S THEN in ELSE Thrown(in)
ByPosGet(in) == IF in.has THEN in.pos - 1 ELSE in.pos

ReadAt(in, pos, has) ==
    LET c == in.text[pos]
    IN  [in EXCEPT !.pos = pos, !.ch = c, !.has = has, !.bad = (c = Nul)]

ReadChar(in) == CASE in.bad -> in
                  [] ~in.bad /\ in.has -> [in EXCEPT !.has = FALSE]
                  [] ~in.bad /\ FEOF(in) -> Thrown(in)
                  [] OTHER -> ReadAt(in, in.pos + 1, FALSE)

FReadChar(in, throwOnEnd) ==
    IF ~in.bad /\ FEOF(in) /\ ~throwOnEnd THEN [in EXCEPT !.end = TRUE] ELSE ReadChar(in)

\* Whitespace is not pushed back: it has been read.
PushBackLastChar(in) == IF in.bad \/ in.ch \in Whitespace THEN in ELSE [in EXCEPT !.has = TRUE]

\* At the end of the file JsonFileInputStream throws: its test for a short read
\* comes before the one for the end.
SkipWhitespace(in) ==
    LET solid == {i \in in.pos + 1 .. Len(in.text) : in.text[i] \notin Whitespace}
    IN  CASE in.bad \/ (in.has /\ in.ch \notin Whitespace) -> in
          [] solid # {} /\ ~in.bad /\ ~(in.has /\ in.ch \notin Whitespace) -> ReadAt(in, Min(solid), TRUE)
          [] OTHER -> [in EXCEPT !.pos = Len(in.text), !.has = FALSE, !.bad = in.file]

\* The next character that is not whitespace.
ReadToken(in) == ReadChar(SkipWhitespace(in))

-----------------------------------------------------------------------------
\* The last character that was read is one of S.
IsNext(in, S) == ~in.bad /\ ~in.end /\ in.ch \in S

RECURSIVE SkipFurtherDigits(_, _)
SkipFurtherDigits(in, root) == IF IsNext(in, Digits) THEN SkipFurtherDigits(FReadChar(in, ~root), root) ELSE in
SkipDigits(in, root) == SkipFurtherDigits(FReadChar(in, ~root), root)
NeedDigits(in, root) == SkipDigits(Need(in, Digits), root)

SkipSign(in) == IF in.ch = Minus THEN Need(ReadChar(in), Digits) ELSE in
SkipInt(in, root) == IF ~in.bad /\ in.ch = Zero THEN FReadChar(in, ~root) ELSE SkipDigits(in, root)
SkipFraction(in, root) == IF IsNext(in, {Period}) THEN NeedDigits(ReadChar(in), root) ELSE in
SkipSignOfExponent(in) == IF IsNext(in, {Minus, Plus}) THEN ReadChar(in) ELSE in
SkipExponent(in, root) ==
    IF IsNext(in, {LowerE, UpperE}) THEN NeedDigits(SkipSignOfExponent(ReadChar(in)), root) ELSE in
PushBackUnlessEnd(in) == IF in.end THEN in ELSE PushBackLastChar(in)

\* The first character of the number has been read.
SkipNumber(in, root) ==
    PushBackUnlessEnd(SkipExponent(SkipFraction(SkipInt(SkipSign(in), root), root), root))

NumberOf(n, val) ==
    IF n.bad \/ Len(val) > MaxNumber THEN [in |-> Thrown(n), val |-> <<>>] ELSE [in |-> n, val |-> val]

\* Mutant: the character that ends the number is kept.
NumberReadAndNext(in, n) == NumberOf(n, SubSeq(in.text, in.pos, n.pos))

NumberRead(in, n) == NumberOf(n, SubSeq(in.text, in.pos, IF n.end THEN n.pos ELSE n.pos - 1))

\* _ReadNumber is the same machine, but keeps the characters, of which there
\* may not be too many.
ReadNumber(in, root) == NumberRead(in, SkipNumber(in, root))

RECURSIVE ReadHex(_, _)
ReadHex(in, n) == IF n = 0 \/ in.bad THEN in ELSE ReadHex(Need(ReadChar(in), HexDigits), n - 1)

\* Of \u four digits are read.  A character is narrower than they are, and one
\* that does not fit is an error.
WithCode(h, code) == IF h.bad \/ code > 255 THEN [in |-> Thrown(h), val |-> <<>>] ELSE [in |-> h, val |-> <<code>>]
HexRead(h) == WithCode(h, HexNumber(SubSeq(h.text, h.pos - 3, h.pos)))
\* The character e after a backslash.
EscapeRead(e) ==
    CASE IsNext(e, Escapes) -> [in |-> e, val |-> <<EscapeOf[e.ch]>>]
      [] IsNext(e, {LetterU}) -> HexRead(ReadHex(e, 4))
      [] OTHER -> [in |-> Thrown(e), val |-> <<>>]
\* The character c of a string, or what it stands for.
CharRead(c) == IF IsNext(c, {BackSlash}) THEN EscapeRead(ReadChar(c)) ELSE [in |-> c, val |-> <<c.ch>>]

RECURSIVE ReadChars(_, _)
\* The characters up to the closing quote, of which r is the next.
ReadCharsFrom(r, c, chars) ==
    CASE r.in.bad -> [in |-> r.in, val |-> <<>>]
      [] ~r.in.bad /\ c.ch = Quote -> [in |-> c, val |-> chars]
      [] OTHER -> ReadChars(r.in, chars \o r.val)
ReadFirstChar(c, chars) == ReadCharsFrom(CharRead(c), c, chars)
ReadChars(in, chars) == ReadFirstChar(ReadChar(in), chars)

\* The characters are appended a buffer at a time, and of a buffer only what
\* comes before a NUL.
Kept(s) == LET nul == {i \in DOMAIN s : s[i] = Nul} IN IF nul = {} THEN s ELSE SubSeq(s, 1, Min(nul) - 1)

Appended(s) ==
    FlattenSeq([b \in 1 .. (Len(s) \div BufferLen) + 1 |->
                    Kept(SubSeq(s, (b - 1) * BufferLen + 1, IF b * BufferLen < Len(s) THEN b * BufferLen ELSE Len(s)))])

ReadString(in) == [ReadChars(in, <<>>) EXCEPT !.val = Appended(@)]

\* The case of \u falls through to the one that throws.
SkipEscape(e) == Need(e, Escapes)
SkipChar(c) == IF IsNext(c, {BackSlash}) THEN SkipEscape(ReadChar(c)) ELSE c

RECURSIVE SkipFurtherChars(_)
SkipFurtherChars(c) == IF c.bad \/ c.ch = Quote THEN c ELSE SkipFurtherChars(ReadChar(SkipChar(c)))
SkipRemainingString(in) == SkipFurtherChars(ReadChar(in))

SkipFixed(in, rest) == FoldLeft(LAMBDA n, c : Need(ReadChar(n), {c}), in, rest)

SkipSimpleValue(in, jvt, root) ==
    CASE jvt = "number" -> SkipNumber(in, root)
      [] jvt = "string" -> SkipRemainingString(in)
      [] jvt = "true" -> SkipFixed(in, Tail(True))
      [] jvt = "false" -> SkipFixed(in, Tail(False))
      [] OTHER -> SkipFixed(in, Tail(Null))

\* Mutant: whatever follows a key passes for the colon.
SkipKeyAnyColon(in) == ReadToken(SkipRemainingString(in))

\* The key has been opened by its quote: skip it and the colon.
SkipKey(in) == Need(ReadToken(SkipRemainingString(in)), {Colon})

RECURSIVE SkipValue(_), SkipPairs(_), SkipValues(_)
\* What follows an element of an object, or of an array, up to its end; n is the
\* character after it.
SkipMorePairs(n) == IF IsNext(n, {Comma}) THEN SkipPairs(Need(ReadToken(n), {Quote})) ELSE Need(n, {RightCurly})
SkipMoreValues(n) == IF IsNext(n, {Comma}) THEN SkipValues(n) ELSE Need(n, {RightSquare})
SkipRestOfPairs(in) == SkipMorePairs(ReadToken(in))
SkipRestOfValues(in) == SkipMoreValues(ReadToken(in))

SkipPairs(in) ==
    IF IsNext(in, {Quote}) THEN SkipRestOfPairs(SkipValue(SkipKey(in))) ELSE Need(in, {RightCurly})

SkipValues(in) == SkipRestOfValues(SkipValue(in))

SkipWholeObject(in) == SkipPairs(ReadToken(in))

SkipFromFirst(n) == IF n.bad \/ n.ch = RightSquare THEN n ELSE SkipValues(PushBackLastChar(n))

SkipWholeArray(in) == SkipFromFirst(ReadToken(in))

\* The value that starts with the character n.
SkipStarted(n, jvt) ==
    CASE n.bad \/ jvt = "none" -> Thrown(n)
      [] ~n.bad /\ jvt = "object" -> SkipWholeObject(n)
      [] ~n.bad /\ jvt = "array" -> SkipWholeArray(n)
      [] OTHER -> SkipSimpleValue(n, jvt, FALSE)
SkipAt(n) == SkipStarted(n, JvtOfChar(n.ch))

SkipValue(in) == SkipAt(ReadToken(in))
=============================================================================
