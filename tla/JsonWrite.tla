------------------------------ MODULE JsonWrite ------------------------------
(***************************************************************************)
(* How jsonstrm.h writes JSON: the escaping of strings, and the text that a *)
(* JsonValueLife writes when it begins and when it ends.  A writer is the   *)
(* text so far and the stack of the lives that have begun, outermost first. *)
(***************************************************************************)
EXTENDS JsonText

\* JsonFormatSpec, or none: fmt.pretty tells.
Plain == [pretty |-> FALSE, indent |-> 0, most |-> 0, crlf |-> FALSE, escapeWs |-> TRUE, escapeWsAtEnd |-> TRUE]

PrintableWhitespace == {Tab, NewLine, Return}
Unprintable == Nul .. 31

HexDigitOf(n) == IF n < 10 THEN Zero + n ELSE 55 + n

EscapedChar(ch) ==
    LET named == {e \in Escapes \ {Slash} : EscapeOf[e] = ch}
    IN  IF named # {} THEN <<BackSlash, CHOOSE e \in named : TRUE>>
        ELSE <<BackSlash, LetterU, Zero, Zero, HexDigitOf(ch \div 16), HexDigitOf(ch % 16)>>

EscapedAll(s) ==
    FlattenSeq([i \in DOMAIN s |-> IF s[i] \in Unprintable \cup {Quote, BackSlash} THEN EscapedChar(s[i]) ELSE <<s[i]>>])

\* JsonOutputStream_WriteString with _fEscape.  With m_fEscapePrintableWhitespace
\* off the search for the next character to escape finds none: only whitespace
\* at the end is escaped.
Escaped(s, fmt) ==
    LET solid == {i \in DOMAIN s : s[i] \notin PrintableWhitespace}
        raw == IF ~fmt.escapeWsAtEnd THEN Len(s) ELSE IF solid = {} THEN 0 ELSE Max(solid)
    IN  IF ~fmt.pretty \/ fmt.escapeWs THEN EscapedAll(s)
        ELSE SubSeq(s, 1, raw) \o EscapedAll(SubSeq(s, raw + 1, Len(s)))

-----------------------------------------------------------------------------
\* A life: the type and the value of its JsonValue, NSubValuesWritten and
\* NCurAggrLevel.
Life(jvt, level) == [jvt |-> jvt, val |-> <<>>, subs |-> 0, level |-> level]
Writer(fmt) == [out |-> <<>>, lives |-> <<>>, fmt |-> fmt]

Wrote(w, s) == [w EXCEPT !.out = @ \o s]
LineFeed(fmt) == IF fmt.crlf THEN <<Return, NewLine>> ELSE <<NewLine>>
Indent(fmt, level) ==
    LET n == level * fmt.indent
    IN  [i \in 1 .. (IF n > fmt.most THEN fmt.most ELSE n) |-> Space]
NewLineAt(fmt, level) == IF fmt.pretty THEN LineFeed(fmt) \o Indent(fmt, level) ELSE <<>>

Opening(jvt) == CASE jvt = "object" -> <<LeftCurly>> [] jvt = "array" -> <<LeftSquare>> [] OTHER -> <<>>

\* Mutant: the comma is for every value but the first of the document.
BeganCommaByText(w, key, jvt) ==
    LET level == Len(w.lives)
        comma == IF level > 0 /\ Last(w.out) \notin {LeftSquare, Comma} THEN <<Comma>> ELSE <<>>
        label == IF key = <<>> THEN <<>> ELSE <<Quote>> \o Escaped(key[1], Plain) \o <<Quote, Colon>>
    IN  [Wrote(w, comma \o label \o Opening(jvt)) EXCEPT !.lives = Append(@, Life(jvt, level))]

\* _WritePreamble; key is a sequence of no or one key.
Began(w, key, jvt) ==
    LET level == Len(w.lives)
        comma == IF level > 0 /\ Last(w.lives).subs > 0 THEN <<Comma>> ELSE <<>>
        line == IF level > 0 THEN NewLineAt(w.fmt, level) ELSE <<>>
        label == IF key = <<>> THEN <<>>
                 ELSE <<Quote>> \o Escaped(key[1], Plain) \o <<Quote, Colon>>
                      \o (IF w.fmt.pretty THEN <<Space>> ELSE <<>>)
    IN  [Wrote(w, comma \o line \o label \o Opening(jvt)) EXCEPT !.lives = Append(@, Life(jvt, level))]

\* SetValue
WithValue(w, jvt, val) == [w EXCEPT !.lives[Len(w.lives)].val = val, !.lives[Len(w.lives)].jvt = jvt]

\* WriteSimpleValue
SimpleText(life, fmt) ==
    CASE life.jvt = "number" -> life.val
      [] life.jvt = "string" -> <<Quote>> \o Escaped(life.val, fmt) \o <<Quote>>
      [] life.jvt = "true" -> True
      [] life.jvt = "false" -> False
      [] OTHER -> Null

\* The destructor, when no exception is in flight: _WritePostamble.
Ended(w) ==
    LET life == Last(w.lives)
        outer == Front(w.lives)
        line == IF life.subs = 0 THEN <<>> ELSE NewLineAt(w.fmt, life.level)
        last == CASE life.jvt = "object" -> <<RightCurly>>
                  [] life.jvt = "array" -> <<RightSquare>>
                  [] OTHER -> SimpleText(life, w.fmt)
    IN  [Wrote(w, line \o last) EXCEPT
             !.lives = IF outer = <<>> THEN <<>> ELSE [outer EXCEPT ![Len(outer)].subs = @ + 1]]

\* The destructors while an exception is in flight write nothing.
Unwound(w) == [w EXCEPT !.lives = <<>>]

=============================================================================
