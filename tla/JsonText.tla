------------------------------ MODULE JsonText -------------------------------
(***************************************************************************)
(* The text of JSON: the characters of JsonCharTraits, the grammar stated   *)
(* as a predicate on texts, without reference to how jsonstrm.h reads them, *)
(* and the text and the layout of a tree of values.                        *)
(***************************************************************************)
EXTENDS Integers, SequencesExt, FiniteSetsExt

LeftSquare == 91
RightSquare == 93
LeftCurly == 123
RightCurly == 125
Colon == 58
Comma == 44
Quote == 34
BackSlash == 92
Slash == 47
Minus == 45
Plus == 43
Period == 46
Zero == 48
Nine == 57
LowerE == 101
UpperE == 69
Space == 32
NewLine == 10
Return == 13
Tab == 9
BackSpace == 8
FormFeed == 12
Nul == 0
LetterU == 117

Digits == Zero .. Nine
HexDigits == Digits \cup 65 .. 70 \cup 97 .. 102
Whitespace == {Space, Tab, NewLine, Return}

True == <<116, 114, 117, 101>>
False == <<102, 97, 108, 115, 101>>
Null == <<110, 117, 108, 108>>

\* The letter after a backslash, and the character that the two stand for.
Escapes == {Quote, BackSlash, Slash, 98, 102, 110, 114, 116}
EscapeOf == [e \in Escapes |-> CASE e = 98 -> BackSpace
                                 [] e = 102 -> FormFeed
                                 [] e = 110 -> NewLine
                                 [] e = 114 -> Return
                                 [] e = 116 -> Tab
                                 [] OTHER -> e]

HexValue(c) == CASE c \in Digits -> c - Zero
                 [] c \in 97 .. 102 -> c - 87
                 [] OTHER -> c - 55
HexNumber(s) == FoldLeft(LAMBDA n, c : n * 16 + HexValue(c), 0, s)

JvtOfChar(c) == CASE c = LeftSquare -> "array"
                  [] c = LeftCurly -> "object"
                  [] c = Minus \/ c \in Digits -> "number"
                  [] c = Quote -> "string"
                  [] c = False[1] -> "false"
                  [] c = True[1] -> "true"
                  [] c = Null[1] -> "null"
                  [] OTHER -> "none"

-----------------------------------------------------------------------------
\* The grammar.  The text t from i to j, which is empty when j < i.
AllIn(t, i, j, S) == \A k \in i .. j : t[k] \in S
IsBlank(t, i, j) == AllIn(t, i, j, Whitespace)
IsDigits(t, i, j) == i <= j /\ AllIn(t, i, j, Digits)
IsInt(t, i, j) == IsDigits(t, i, j) /\ (t[i] = Zero => i = j)
IsSignedInt(t, i, j) == i <= j /\ IsInt(t, IF t[i] = Minus THEN i + 1 ELSE i, j)
IsDecimal(t, i, j) ==
    IsSignedInt(t, i, j) \/ \E k \in i .. j : t[k] = Period /\ IsSignedInt(t, i, k - 1) /\ IsDigits(t, k + 1, j)
IsNumber(t, i, j) ==
    \/ IsDecimal(t, i, j)
    \/ \E k \in i .. j :
           /\ t[k] \in {LowerE, UpperE} /\ IsDecimal(t, i, k - 1) /\ k < j
           /\ IsDigits(t, IF t[k + 1] \in {Plus, Minus} THEN k + 2 ELSE k + 1, j)

RECURSIVE IsChars(_, _, _)
IsChars(t, i, j) ==
    \/ i > j
    \/ t[i] \notin {Quote, BackSlash, Nul} /\ IsChars(t, i + 1, j)
    \/ i < j /\ t[i] = BackSlash /\ t[i + 1] \in Escapes /\ IsChars(t, i + 2, j)
    \/ /\ i + 5 <= j /\ t[i] = BackSlash /\ t[i + 1] = LetterU
       /\ AllIn(t, i + 2, i + 5, HexDigits) /\ IsChars(t, i + 6, j)
IsString(t, i, j) == i < j /\ t[i] = Quote /\ t[j] = Quote /\ IsChars(t, i + 1, j - 1)

RECURSIVE Decoded(_)
\* The characters that the inside of a string stands for.
Decoded(s) ==
    CASE s = <<>> -> <<>>
      [] s # <<>> /\ s[1] # BackSlash -> <<s[1]>> \o Decoded(Tail(s))
      [] s # <<>> /\ s[1] = BackSlash /\ s[2] # LetterU -> <<EscapeOf[s[2]]>> \o Decoded(SubSeq(s, 3, Len(s)))
      [] OTHER -> <<HexNumber(SubSeq(s, 3, 6))>> \o Decoded(SubSeq(s, 7, Len(s)))

RECURSIVE IsPadded(_, _, _), IsValues(_, _, _), IsPairs(_, _, _), IsValue(_, _, _)
IsPadded(t, i, j) ==
    \E k \in i .. j, m \in i .. j : IsBlank(t, i, k - 1) /\ IsBlank(t, m + 1, j) /\ IsValue(t, k, m)
IsValues(t, i, j) ==
    IsPadded(t, i, j) \/ \E k \in i .. j : t[k] = Comma /\ IsPadded(t, i, k - 1) /\ IsValues(t, k + 1, j)
IsPair(t, i, j) ==
    \E k \in i .. j : /\ t[k] = Colon /\ IsPadded(t, k + 1, j)
                      /\ \E a \in i .. k - 1, b \in i .. k - 1 :
                             IsBlank(t, i, a - 1) /\ IsString(t, a, b) /\ IsBlank(t, b + 1, k - 1)
IsPairs(t, i, j) ==
    IsPair(t, i, j) \/ \E k \in i .. j : t[k] = Comma /\ IsPair(t, i, k - 1) /\ IsPairs(t, k + 1, j)
IsValue(t, i, j) ==
    /\ i <= j
    /\ CASE t[i] = LeftSquare -> t[j] = RightSquare /\ i < j /\ (IsBlank(t, i + 1, j - 1) \/ IsValues(t, i + 1, j - 1))
         [] t[i] = LeftCurly -> t[j] = RightCurly /\ i < j /\ (IsBlank(t, i + 1, j - 1) \/ IsPairs(t, i + 1, j - 1))
         [] t[i] = Quote -> IsString(t, i, j)
         [] OTHER -> IsNumber(t, i, j) \/ SubSeq(t, i, j) \in {True, False, Null}

-----------------------------------------------------------------------------
\* A tree is a simple value [jvt, text, val], or an aggregate [jvt, kids, keys]
\* (keys is <<>> for an array).
Simple(jvt, text, val) == [jvt |-> jvt, text |-> text, val |-> val, kids |-> <<>>, keys |-> <<>>]
Aggregate(jvt, kids, keys) == [jvt |-> jvt, text |-> <<>>, val |-> <<>>, kids |-> kids, keys |-> keys]
IsAggregate(v) == v.jvt \in {"array", "object"}
Bracketed(jvt, s) == IF jvt = "array" THEN <<LeftSquare>> \o s \o <<RightSquare>>
                                      ELSE <<LeftCurly>> \o s \o <<RightCurly>>
KeyText(key) == <<Quote>> \o key \o <<Quote>>

RECURSIVE TextOf(_, _)
\* The text of tree v, with the characters of blank around its tokens.
TextOf(v, blank) ==
    LET Kid(k) == LET s == blank \o TextOf(v.kids[k], blank) \o blank
                  IN  IF v.jvt = "array" THEN s
                      ELSE blank \o KeyText(v.keys[k]) \o blank \o <<Colon>> \o s
    IN  CASE ~IsAggregate(v) -> v.text
          [] v.kids = <<>> -> Bracketed(v.jvt, blank)
          [] OTHER -> Bracketed(v.jvt, FlattenSeq([k \in DOMAIN v.kids |->
                                                  IF k = 1 THEN Kid(k) ELSE <<Comma>> \o Kid(k)]))

RECURSIVE LayoutOf(_, _, _)
\* The values of v's tree by where they start, when v starts at p: each with
\* where it ends, its value, and where its elements start.
LayoutOf(v, p, blank) ==
    LET Lead(k) == (IF k = 1 THEN 0 ELSE 1) + Len(blank)
                   + (IF v.jvt = "array" THEN 0 ELSE Len(KeyText(v.keys[k])) + 1 + 2 * Len(blank))
        start[k \in 1 .. Len(v.kids)] ==
            (IF k = 1 THEN p + 1 ELSE start[k - 1] + Len(TextOf(v.kids[k - 1], blank)) + Len(blank)) + Lead(k)
        node == [jvt |-> v.jvt, val |-> v.val, keys |-> v.keys, last |-> p + Len(TextOf(v, blank)) - 1,
                 kids |-> [k \in DOMAIN v.kids |-> start[k]]]
    IN  FoldLeft(LAMBDA f, k : f @@ LayoutOf(v.kids[k], start[k], blank),
                 (p :> node), [k \in 1 .. Len(v.kids) |-> k])

RECURSIVE Denotes(_, _, _, _), HoldsKids(_, _, _, _, _, _)
HoldsKid(t, i, j, jvt, key, v) ==
    LET Padded(from) == \E k \in from .. j, m \in from .. j :
                            IsBlank(t, from, k - 1) /\ IsBlank(t, m + 1, j) /\ Denotes(t, k, m, v)
    IN  IF jvt = "array" THEN Padded(i)
        ELSE \E a \in i .. j, b \in i .. j, k \in i .. j :
                 /\ t[k] = Colon /\ b < k /\ IsBlank(t, i, a - 1) /\ IsString(t, a, b) /\ IsBlank(t, b + 1, k - 1)
                 /\ Decoded(SubSeq(t, a + 1, b - 1)) = key /\ Padded(k + 1)
HoldsKids(t, i, j, jvt, keys, kids) ==
    LET key == IF jvt = "array" THEN <<>> ELSE keys[1]
    IN  CASE kids = <<>> -> IsBlank(t, i, j)
          [] Len(kids) = 1 -> HoldsKid(t, i, j, jvt, key, kids[1])
          [] OTHER -> \E k \in i .. j : /\ t[k] = Comma /\ HoldsKid(t, i, k - 1, jvt, key, kids[1])
                                        /\ HoldsKids(t, k + 1, j, jvt, IF jvt = "array" THEN <<>> ELSE Tail(keys),
                                                      Tail(kids))
\* The text t from i to j says what tree v says, with whatever whitespace.
Denotes(t, i, j, v) ==
    CASE v.jvt = "array" -> i < j /\ t[i] = LeftSquare /\ t[j] = RightSquare
                            /\ HoldsKids(t, i + 1, j - 1, v.jvt, v.keys, v.kids)
      [] v.jvt = "object" -> i < j /\ t[i] = LeftCurly /\ t[j] = RightCurly
                             /\ HoldsKids(t, i + 1, j - 1, v.jvt, v.keys, v.kids)
      [] v.jvt = "string" -> IsString(t, i, j) /\ Decoded(SubSeq(t, i + 1, j - 1)) = v.val
      [] OTHER -> i <= j /\ SubSeq(t, i, j) = v.text

IsJson(t) == IsPadded(t, 1, Len(t))
=============================================================================
