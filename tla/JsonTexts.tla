------------------------------ MODULE JsonTexts ------------------------------
(***************************************************************************)
(* Every short text, put together piece by piece: what the scanner of       *)
(* jsonstrm.h makes of it, against the grammar and the meaning of JSON.     *)
(* The text grows while the scanner wants more of it.                      *)
(***************************************************************************)
EXTENDS JsonScan, JsonWrite

CONSTANTS MostPieces,  \* the pieces of a text
          FreePieces   \* the pieces that are put on whatever the scanner makes of the text

VARIABLES kind, text, pieces

textVars == <<kind, text, pieces>>

Kinds == {"number", "string", "array", "object", "chars"}

Pieces(k) == CASE k = "number" -> {<<Minus>>, <<Zero>>, <<49>>, <<Period>>, <<LowerE>>, <<Plus>>, <<Space>>, <<Comma>>}
               [] k = "string" -> {<<Quote>>, <<BackSlash>>, <<110>>, <<LetterU>>, <<Zero, Zero>>, <<52, 49>>, <<49, 69>>}
               [] k = "chars" -> {<<97>>, <<Quote>>, <<BackSlash>>, <<Slash>>, <<NewLine>>, <<Tab>>, <<1>>, <<31>>}
               [] OTHER -> {<<LeftSquare>>, <<RightSquare>>, <<LeftCurly>>, <<RightCurly>>, <<Comma>>, <<Colon>>, <<Space>>,
                            <<Quote, 97, Quote>>, <<49>>, True}
Starts(k) == CASE k = "number" -> {<<Minus>>, <<Zero>>, <<49>>}
               [] k = "string" -> {<<Quote>>}
               [] k = "array" -> {<<LeftSquare>>}
               [] k = "object" -> {<<LeftCurly>>}
               [] OTHER -> {<<>>}

Begun(t) == ReadChar(Opened(t, FALSE))
Scanned(k, t) == CASE k = "number" -> SkipNumber(Begun(t), TRUE)
                   [] k = "string" -> ReadChars(Begun(t), <<>>).in
                   [] OTHER -> SkipValue(Opened(t, FALSE))

InitTexts == kind \in Kinds /\ text \in Starts(kind) /\ pieces = 1

NextTexts ==
    /\ pieces < (IF kind = "chars" THEN FreePieces ELSE MostPieces)
    /\ pieces < FreePieces \/ LET s == Scanned(kind, text) IN s.end \/ (s.bad /\ FEOF(s))
    /\ \E piece \in Pieces(kind) : text' = text \o piece
    /\ pieces' = pieces + 1 /\ kind' = kind

-----------------------------------------------------------------------------
Whole == Len(text)
Upto(j) == SubSeq(text, 1, j)
StartsNumber(t) == IsNumber(t, 1, Len(t)) \/ IsNumber(Append(t, 49), 1, Len(t) + 1)

\* _ReadNumber and _SkipNumber (jsonstrm.h:4012, 4113) are two copies of a
\* machine of some ten states: they take the number in front of the text when
\* the character behind it cannot be part of one, and at the end of the text only
\* at the root, and leave the stream there; only reading minds the length.
NumbersAgree ==
    kind = "number" =>
        \A root \in BOOLEAN :
            LET ends == {j \in 1 .. Whole : IsNumber(text, 1, j)
                                            /\ IF j = Whole THEN root ELSE ~StartsNumber(Upto(j + 1))}
                skip == SkipNumber(Begun(text), root)
                read == ReadNumber(Begun(text), root)
                At(in, j) == ByPosGet(in) = IF j < Whole /\ text[j + 1] \in Whitespace THEN j + 1 ELSE j
            IN  /\ ~skip.bad <=> ends # {}
                /\ ~skip.bad => \E j \in ends : At(skip, j)
                /\ ~read.in.bad <=> \E j \in ends : j <= MaxNumber
                /\ ~read.in.bad => \E j \in ends : At(read.in, j) /\ read.val = Upto(j)

\* _ReadString (jsonstrm.h:4170) takes the string up to the first quote that is
\* not escaped and yields what its escapes stand for, a buffer at a time, however
\* the escapes fall on the buffers; and _SkipRemainingString ends in the same
\* place, or refuses a \u escape.  A character too wide for the cursor is refused.
StringsAgree ==
    kind = "string" =>
        LET ends == {j \in 2 .. Whole : IsString(text, 1, j)}
            read == ReadString(Begun(text))
            skip == SkipRemainingString(Begun(text))
            val(j) == Decoded(SubSeq(text, 2, j - 1))
            U(j) == \E i \in 2 .. j : text[i] = LetterU /\ text[i - 1] = BackSlash
        IN  /\ ~read.in.bad <=> \E j \in ends : ToSet(val(j)) \subseteq 0 .. 255
            /\ ~read.in.bad => \E j \in ends : ByPosGet(read.in) = j /\ (Nul \notin ToSet(val(j)) => read.val = val(j))
            /\ ~skip.bad => read.in = skip
            /\ skip.bad /\ ~read.in.bad => U(ByPosGet(read.in))

\* _SkipWholeObject, _SkipWholeArray and _SkipValue (jsonstrm.h:4368, 4393, 4350)
\* pass over a value without keeping anything of it, and yet pass over JSON and
\* nothing else, and stop right behind it.
ValuesAgree ==
    kind \in {"array", "object"} =>
        LET in == SkipValue(Opened(text, FALSE))
            ends == {j \in 1 .. Whole : IsValue(text, 1, j)}
        IN  IF in.bad THEN ends = {} ELSE ends = {ByPosGet(in)}

\* What JsonOutputStream_WriteString (jsonstrm.h:1265) escapes comes back from
\* _ReadString as it was, whatever it is; where the format leaves whitespace
\* unescaped, only a quote or a backslash in it does not.
EscapesReadBack ==
    kind = "chars" =>
        \A ws \in BOOLEAN, wsAtEnd \in BOOLEAN, pretty \in BOOLEAN :
            LET fmt == [Plain EXCEPT !.pretty = pretty, !.escapeWs = ws, !.escapeWsAtEnd = wsAtEnd]
                read == ReadString(Begun(<<Quote>> \o Escaped(text, fmt) \o <<Quote>>))
            IN  (~pretty \/ ws \/ {Quote, BackSlash} \cap ToSet(text) = {}) => ~read.in.bad /\ read.val = text
=============================================================================
