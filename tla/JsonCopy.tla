------------------------------ MODULE JsonCopy -------------------------------
(***************************************************************************)
(* Clients of JsonReadCursor of jsonstrm.h.  One walks over a document as it *)
(* likes: the document is read once, from front to back, and an operation   *)
(* that leaves a value reads what is left of it.  The others are those of   *)
(* n_JSONStream, the recursive functions that run a cursor over a document  *)
(* and, but for reading only, a JsonValueLife along with it.  Of them a step *)
(* is what happens up to the next call or return; marks are the contexts    *)
(* that the calls on the stack will restore.                               *)
(***************************************************************************)
EXTENDS JsonCursor, JsonWriter

CONSTANTS Documents,   \* the documents: text, nodes by place, good, and the kind of stream
          Careful      \* the client stays where the cursor keeps its promise

VARIABLES doc,  \* the document
          c,    \* the cursor: stream, stack of contexts from the root, current level
          ret   \* what the last operation returned

vars == <<doc, c, ret>>

-----------------------------------------------------------------------------
Init == /\ doc \in Documents
        /\ c = AttachRoot(Opened(doc.text, doc.file)) /\ ret = <<"attached">>

\* What throws for the text's sake ends the walk.
Going == ~c.in.bad
Becomes(k, r) == c' = k /\ ret' = r /\ doc' = doc

FMoveDown ==
    /\ Going
    /\ Current(c).jvt \in Aggregates /\ c.cur = Top(c) => ~Current(c).read
    /\ Becomes(MovedDown(c), <<"down", Current(c).jvt \in Aggregates>>)

FMoveUp == Going /\ Becomes([c EXCEPT !.cur = IF @ > 1 THEN @ - 1 ELSE @], <<"up", c.cur > 1>>)

\* The destructor of a JsonRestoreContext, and its Release.
MoveToContext(k) == Going /\ Becomes([c EXCEPT !.cur = k], <<"restored">>)

\* A context between the current one and the top that has ended is skipped once
\* more, into what follows it.
FNextElement ==
    /\ Going
    /\ Careful => \A k \in c.cur + 1 .. Top(c) - 1 : ~c.st[k].ended
    /\ IF c.cur = 1 \/ Current(c).jvt = "end"
       THEN Becomes(c, <<"next", IF c.cur = 1 THEN "throws" ELSE "end">>)
       ELSE LET k == Advanced(c)
            IN  Becomes(k, <<"next", IF Current(k).jvt = "end" THEN "end" ELSE "element">>)

\* The string of a value that has been skipped is empty.
GetValue ==
    LET k == ReadCurrent(c)
    IN  /\ Going
        /\ Careful => (Current(c).jvt \in {"number", "string"} /\ Current(c).read => Current(c).kept)
        /\ Becomes(k, <<"value", Current(k).jvt, Current(k).val>>)

FGetKeyCurrent ==
    /\ Going
    /\ Becomes(c, CASE Current(c).jvt = "end" -> <<"key", "end", <<>>>>
                    [] Current(c).jvt # "end" /\ c.cur > 1 /\ c.st[c.cur - 1].jvt = "object" ->
                           <<"key", "is", c.st[c.cur - 1].key>>
                    [] OTHER -> <<"key", "throws", <<>>>>)

\* An aggregate that has been skipped is skipped once more by FNextElement.
SkipTopContext ==
    /\ Going /\ c.cur = Top(c)
    /\ Careful => Current(c).jvt \notin Aggregates
    /\ Becomes(SkippedCurrent(c), <<"skipped">>)

Next == \/ FMoveDown \/ FMoveUp \/ FNextElement \/ GetValue \/ FGetKeyCurrent \/ SkipTopContext
        \/ \E k \in 1 .. Top(c) : MoveToContext(k)

Spec == Init /\ [][Next]_vars

-----------------------------------------------------------------------------
\* TypeOK.  There is a current context in the stack, and every context but the
\* last is of an aggregate that has been entered (AssertValid, jsonstrm.h:3769).
TypeOK ==
    /\ c.cur \in DOMAIN c.st
    /\ \A k \in 1 .. Top(c) - 1 : c.st[k].jvt \in Aggregates /\ c.st[k].read
    /\ c.in.pos \in 0 .. Len(doc.text)

\* The stream is always where the value at the top of the stack says: behind its
\* first character if it has not been read, behind its last if it has, and
\* behind the bracket of the aggregate at its end, but for whitespace; and text
\* that is JSON is never refused.
StreamInStep ==
    LET top == Last(c.st)
        due == CASE top.jvt = "end" -> doc.nodes[c.st[Top(c) - 1].start + 1].last
                 [] top.jvt # "end" /\ ~top.read -> top.start + 1
                 [] OTHER -> doc.nodes[top.start + 1].last
    IN  doc.good => /\ ~c.in.bad
                    /\ due <= ByPosGet(c.in) /\ IsBlank(doc.text, due + 1, ByPosGet(c.in))

\* Whatever the client read and whatever it skipped: once it is through, the
\* text up to there is JSON.
OnlyJsonIsWalked ==
    LET root == c.st[1]
        through == ~c.in.bad /\ (root.ended \/ (root.jvt \notin Aggregates /\ root.read))
    IN  through => \E j \in DOMAIN doc.text, i \in DOMAIN doc.text :
                       /\ IsBlank(doc.text, 1, i - 1) /\ IsValue(doc.text, i, j)
                       /\ j <= ByPosGet(c.in) /\ IsBlank(doc.text, j + 1, ByPosGet(c.in))

\* The cursor walks over the tree of the document: by whatever way the client
\* goes there, and whatever it left unread, each place has the type, the key and
\* the value that the document has there.  (n_JSONStream moves the cursor by itself.)
Walk == INSTANCE JsonWalk WITH
            End <- 0, nodes <- doc.nodes, good <- doc.good /\ ret # <<"copying">>, level <- c.cur,
            trail <- [k \in DOMAIN c.st |-> IF c.st[k].jvt = "end" THEN 0 ELSE c.st[k].start + 1]

WalkInTree == Walk!Spec

-----------------------------------------------------------------------------
(* n_JSONStream. *)

CONSTANTS KeySkip, KeySkipDownUp, KeySkipLeafUp, KeySkipArray  \* the keys that the unit test acts on

VARIABLES mode,   \* StreamReadJsonValue, StreamReadWriteJsonValue or its unit test
          marks,
          next,   \* JSONUnitTestContext
          at      \* value, element, leave, next, done or thrown

copyVars == <<doc, c, ret, w, built, phase, mode, marks, next, at>>

Writes == mode # "read"
NoSkip == [array |-> FALSE, index |-> -1]

InitCopy ==
    /\ doc \in Documents /\ mode \in {"read", "copy", "test"}
    /\ c = AttachRoot(Opened(doc.text, doc.file))
    /\ \E fmt \in Formats : w = IF Writes /\ ~c.in.bad THEN Began(Writer(fmt), <<>>, Current(c).jvt) ELSE Writer(fmt)
    /\ marks = <<>> /\ next = NoSkip /\ at = "value"
    /\ ret = <<"copying">> /\ built = <<>> /\ phase = "none"

Rest == UNCHANGED <<doc, ret, built, phase, mode>>
Running == ~c.in.bad /\ Rest

EnterValue ==
    /\ Running /\ at = "value"
    /\ IF Current(c).jvt \in Aggregates
       THEN marks' = Append(marks, c.cur) /\ c' = MovedDown(c) /\ at' = "element" /\ w' = w
       ELSE LET k == IF Writes THEN ReadCurrent(c) ELSE SkippedCurrent(c)
            IN  /\ c' = k /\ at' = "leave" /\ marks' = marks
                /\ w' = IF Writes /\ ~k.in.bad THEN WithValue(w, Current(c).jvt, Current(k).val) ELSE w
    /\ next' = next

AtEndOfAggregate == Current(c).jvt = "end"

\* The destructor of the JsonRestoreContext.
EndOfElements ==
    /\ Running /\ at = "element" /\ AtEndOfAggregate
    /\ c' = [c EXCEPT !.cur = Last(marks)] /\ marks' = Front(marks) /\ at' = "leave"
    /\ UNCHANGED <<w, next>>

InObject == c.st[c.cur - 1].jvt = "object"
Key == c.st[c.cur - 1].key

RECURSIVE DownToLeaf(_)
DownToLeaf(k) == LET d == MovedDown(k) IN IF k.in.bad \/ d.cur = k.cur THEN k ELSE DownToLeaf(d)
\* Down to the leaf, or one level, and up again.
DownAndUp(k, all) == [(IF all THEN DownToLeaf(k) ELSE MovedDown(k)) EXCEPT !.cur = k.cur]

IntOf(digits) == FoldLeft(LAMBDA n, d : n * 10 + d - Zero, 0, digits)

\* What the unit test does with an element that it leaves out: the cursor and
\* the context of the test after that; and with any other, nothing.
TestSkips ==
    IF InObject THEN (next.array /\ Current(c).jvt = "array") \/ Key \in {KeySkip, KeySkipDownUp, KeySkipLeafUp, KeySkipArray}
    ELSE Last(w.lives).subs = next.index
TestSkip ==
    CASE ~InObject -> <<c, [next EXCEPT !.index = -1]>>
      [] InObject /\ next.array /\ Current(c).jvt = "array" -> <<c, [next EXCEPT !.array = FALSE]>>
      [] OTHER ->
            CASE Key = KeySkip -> <<c, next>>
              [] Key \in {KeySkipDownUp, KeySkipLeafUp} -> <<DownAndUp(c, Key = KeySkipLeafUp), next>>
              [] OTHER -> LET k == IF Current(c).jvt = "number" THEN ReadCurrent(c) ELSE c
                          IN  <<k, IF Current(c).jvt = "number" THEN [next EXCEPT !.index = IntOf(Current(k).val)]
                                   ELSE [next EXCEPT !.array = @ \/ Current(c).jvt = "true"]>>

SkipElement ==
    /\ Running /\ at = "element" /\ ~AtEndOfAggregate /\ mode = "test" /\ TestSkips
    /\ c' = TestSkip[1] /\ next' = TestSkip[2] /\ at' = "next"
    /\ UNCHANGED <<w, marks>>

BeginElement ==
    /\ Running /\ at = "element" /\ ~AtEndOfAggregate /\ (mode = "test" => ~TestSkips)
    /\ w' = IF Writes THEN Began(w, IF InObject THEN <<Key>> ELSE <<>>, Current(c).jvt) ELSE w
    /\ at' = "value" /\ UNCHANGED <<c, marks, next>>

LeaveValue ==
    /\ Running /\ at = "leave"
    /\ w' = IF Writes THEN Ended(w) ELSE w
    /\ at' = IF marks = <<>> THEN "done" ELSE "next"
    /\ UNCHANGED <<c, marks, next>>

\* Mutant: only what writes goes on to the next element.
NextElementIfWriting ==
    /\ Running /\ at = "next"
    /\ c' = IF Writes THEN Advanced(c) ELSE c
    /\ at' = "element" /\ UNCHANGED <<w, marks, next>>

NextElement ==
    /\ Running /\ at = "next"
    /\ c' = Advanced(c) /\ at' = "element" /\ UNCHANGED <<w, marks, next>>

\* What the cursor throws unwinds every call.
CopyThrows ==
    /\ c.in.bad /\ at \in {"value", "element", "leave", "next"}
    /\ w' = Unwound(w) /\ at' = "thrown" /\ UNCHANGED <<c, marks, next>> /\ Rest

NextCopy == EnterValue \/ EndOfElements \/ SkipElement \/ BeginElement \/ LeaveValue \/ NextElement \/ CopyThrows

\* A copy goes on until it is through.  Each of its steps changes at, and until it
\* is through there always is one: the runs check that there is no deadlock.
Busy == at \notin {"done", "thrown"}
Fairness == WF_at(Busy /\ at' \in {"value", "element", "leave", "next", "done", "thrown"})

-----------------------------------------------------------------------------
RECURSIVE KeptOf(_, _)
\* The tree v without what the unit test leaves out, and what it has still to
\* leave out after v.
KeptOf(v, skip) ==
    LET Kid(acc, k) ==
            LET kid == v.kids[k]
                key == IF v.jvt = "object" THEN <<v.keys[k]>> ELSE <<>>
                sub == KeptOf(kid, acc.skip)
            IN  CASE v.jvt = "array" /\ Len(acc.v.kids) = acc.skip.index -> [acc EXCEPT !.skip.index = -1]
                  [] v.jvt = "object" /\ acc.skip.array /\ kid.jvt = "array" -> [acc EXCEPT !.skip.array = FALSE]
                  [] v.jvt = "object" /\ ~(acc.skip.array /\ kid.jvt = "array")
                         /\ v.keys[k] \in {KeySkip, KeySkipDownUp, KeySkipLeafUp} -> acc
                  [] v.jvt = "object" /\ ~(acc.skip.array /\ kid.jvt = "array") /\ v.keys[k] = KeySkipArray ->
                         IF kid.jvt = "number" THEN [acc EXCEPT !.skip.index = IntOf(kid.val)]
                         ELSE [acc EXCEPT !.skip.array = @ \/ kid.jvt = "true"]
                  [] OTHER -> [v |-> WithKid(acc.v, key, sub.v), skip |-> sub.skip]
    IN  IF ~IsAggregate(v) THEN [v |-> v, skip |-> skip]
        ELSE FoldLeft(Kid, [v |-> Aggregate(v.jvt, <<>>, <<>>), skip |-> skip], [k \in DOMAIN v.kids |-> k])

\* What is copied is what was read: in whatever format it was and is now, and
\* whatever of it was left out half read, the other document says the same but for
\* what the test leaves out (jsonstrm.h:4816, 4861).
CopySaysTheSame ==
    at = "done" /\ doc.good /\ Writes =>
        Says(w.out, IF mode = "copy" THEN doc.tree ELSE KeptOf(doc.tree, NoSkip).v)

\* A document that is not JSON never becomes one by being copied: it is copied up
\* to where it stopped making sense, and what was open stays open.
TornStaysTorn ==
    /\ at = "thrown" => ~doc.good /\ ~IsJson(w.out)
    /\ at = "done" /\ Writes => IsJson(w.out)

\* A copy comes to its end, for any text.
CopyEnds == <>~Busy
=============================================================================
