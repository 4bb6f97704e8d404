----------------------------- MODULE JsonCursor ------------------------------
(***************************************************************************)
(* JsonReadCursor of jsonstrm.h: its stack of contexts over an input        *)
(* stream, and what each of its methods makes of them.  A cursor is a       *)
(* record: the stream in, the contexts st from the root, and the level cur  *)
(* of the current one.                                                     *)
(***************************************************************************)
EXTENDS JsonScan

\* A context with the value it refers to: ended and key belong to the JsonObject
\* or JsonArray of the value; read is that m_posEndValue is set.
Context(jvt, start, first) ==
    [jvt |-> jvt, start |-> start, first |-> first, read |-> FALSE,
     kept |-> FALSE, val |-> <<>>, ended |-> FALSE, key |-> <<>>]
EndContext(pos) == [Context("end", pos, Nul) EXCEPT !.read = TRUE]
Aggregates == {"array", "object"}

\* What an aggregate comes to next: the stream, the context of the element and its
\* key; or its end, or nothing when something was thrown.
Found(in, ctx, key) == [in |-> in, ctx |-> ctx, key |-> key]
ValueAt(start, n) ==
    Found(IF JvtOfChar(n.ch) = "none" THEN Thrown(n) ELSE n, Context(JvtOfChar(n.ch), start, n.ch), <<>>)
EndAt(n) == Found(n, EndContext(ByPosGet(n)), <<>>)
Nowhere(n) == Found(Thrown(n), EndContext(0), <<>>)

\* The start of a value: the stream after its first character, and its context.
StartSolid(s) == ValueAt(ByPosGet(s), ReadChar(s))
StartValue(in) == StartSolid(SkipWhitespace(in))

\* A key has been opened by its quote: read it and the colon, and start the value.
StartKeyed(key) == [StartValue(Need(ReadToken(key.in), {Colon})) EXCEPT !.key = key.val]
StartPair(in) == StartKeyed(ReadString(in))

CursorAt(root) == [in |-> root.in, st |-> <<root.ctx>>, cur |-> 1]
AttachRoot(in) == CursorAt(StartValue(in))

Top(k) == Len(k.st)
Current(k) == k.st[k.cur]

\* The first element of an aggregate, or its end, starts with the character n.
FirstFound(start, n, jvt) ==
    CASE n.bad -> Nowhere(n)
      [] ~n.bad /\ n.ch = (IF jvt = "object" THEN RightCurly ELSE RightSquare) -> EndAt(n)
      [] ~n.bad /\ jvt = "object" /\ n.ch = Quote -> StartPair(n)
      [] ~n.bad /\ jvt = "array" /\ JvtOfChar(n.ch) # "none" -> ValueAt(start, n)
      [] OTHER -> Nowhere(n)
FirstSolid(s, jvt) == FirstFound(ByPosGet(s), ReadChar(s), jvt)
FirstElement(in, jvt) == FirstSolid(SkipWhitespace(in), jvt)

EnteredAt(k, e) ==
    IF e.in.bad THEN [k EXCEPT !.in = e.in]
    ELSE [in |-> e.in, cur |-> k.cur + 1,
          st |-> Append([k.st EXCEPT ![k.cur].read = TRUE, ![k.cur].key = e.key,
                                     ![k.cur].ended = (e.ctx.jvt = "end")], e.ctx)]
Entered(k) == EnteredAt(k, FirstElement(k.in, Current(k).jvt))

MovedDown(k) ==
    CASE Current(k).jvt \notin Aggregates -> k
      [] Current(k).jvt \in Aggregates /\ k.cur < Top(k) -> [k EXCEPT !.cur = @ + 1]
      [] OTHER -> Entered(k)

\* Mutant: a value that has been started is taken to have been read.
SkippedLeavesRest(in, ctx, root) ==
    IF ctx.jvt \in Aggregates /\ ctx.read THEN [in |-> in, ctx |-> [ctx EXCEPT !.ended = TRUE]]
    ELSE [in |-> SkipSimpleValue([in EXCEPT !.ch = ctx.first], ctx.jvt, root), ctx |-> [ctx EXCEPT !.read = TRUE]]

\* _SkipContext: the value of a context is skipped from where it has been read to.
Skipped(in, ctx, root) ==
    LET whole == [ctx EXCEPT !.read = TRUE]
        Rest(n) == [in |-> n, ctx |-> [ctx EXCEPT !.start = ByPosGet(n), !.first = Nul, !.ended = TRUE]]
    IN  CASE ctx.jvt = "object" -> IF ~ctx.read THEN [in |-> SkipWholeObject(in), ctx |-> whole]
                                               ELSE Rest(SkipRestOfPairs(in))
          [] ctx.jvt = "array" -> IF ~ctx.read THEN [in |-> SkipWholeArray(in), ctx |-> whole]
                                              ELSE Rest(SkipRestOfValues(in))
          [] ctx.jvt \notin Aggregates /\ ~ctx.read ->
                [in |-> SkipSimpleValue([in EXCEPT !.ch = ctx.first], ctx.jvt, root), ctx |-> whole]
          [] OTHER -> [in |-> in, ctx |-> ctx]

WithCurrent(k, s) == [k EXCEPT !.in = s.in, !.st[k.cur] = s.ctx]
SkippedCurrent(k) == WithCurrent(k, Skipped(k.in, Current(k), k.cur = 1))

RECURSIVE SkippedAbove(_)
\* SkipAllContextsAboveCurrent: each is skipped and closed, from the top.
SkippedAbove(k) ==
    IF Top(k) = k.cur THEN k
    ELSE SkippedAbove([k EXCEPT !.in = Skipped(k.in, k.st[Top(k)], FALSE).in, !.st = Front(@)])

\* The current value is left: what has not been read of it is skipped.
LeftCurrent(k) ==
    IF ~Current(k).read \/ (Current(k).jvt \in Aggregates /\ ~Current(k).ended) THEN SkippedCurrent(k) ELSE k

\* The element that the character n after the last one announces.
NextFound(n, object) ==
    CASE n.bad -> Nowhere(n)
      [] ~n.bad /\ n.ch # Comma -> EndAt(n)
      [] ~n.bad /\ n.ch = Comma /\ object -> StartPair(Need(ReadToken(n), {Quote}))
      [] OTHER -> StartValue(n)

InsideObject(k) == k.st[k.cur - 1].jvt = "object"
AtElement(k, next) ==
    IF next.in.bad THEN [k EXCEPT !.in = next.in]
    ELSE [in |-> next.in, cur |-> k.cur,
          st |-> [k.st EXCEPT ![k.cur] = next.ctx, ![k.cur - 1].key = next.key,
                              ![k.cur - 1].ended = (next.ctx.jvt = "end")]]
AfterElement(k, object) ==
    AtElement(k, NextFound(Need(ReadToken(k.in), {Comma, IF object THEN RightCurly ELSE RightSquare}), object))

\* FNextElement, past its first tests.
Advanced(k) == AfterElement(LeftCurrent(SkippedAbove(k)), InsideObject(k))

\* _ReadSimpleValue
SimpleRead(in, jvt, root) ==
    CASE jvt = "number" -> ReadNumber(in, root)
      [] jvt = "string" -> ReadString(in)
      [] OTHER -> [in |-> SkipSimpleValue(in, jvt, root), val |-> <<>>]
WithRead(k, r) ==
    [k EXCEPT !.in = r.in, !.st[k.cur].read = TRUE, !.st[k.cur].val = r.val, !.st[k.cur].kept = TRUE]
ReadCurrent(k) ==
    IF Current(k).read \/ Current(k).jvt \in Aggregates THEN k
    ELSE WithRead(k, SimpleRead([k.in EXCEPT !.ch = Current(k).first], Current(k).jvt, k.cur = 1))
=============================================================================
