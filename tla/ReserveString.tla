--------------------------- MODULE ReserveString ---------------------------
(***************************************************************************)
(* StrWRsv of strwrsv.h: a string whose characters are in its own buffer   *)
(* as long as they fit, else in a std::string that is made in the bytes of *)
(* the buffer.  A short std::string has its characters in itself, at the   *)
(* address where it was made ("home"); the others have theirs on the heap. *)
(***************************************************************************)
EXTENDS Naturals, Sequences, FiniteSets

CONSTANTS
    Strings,    \* the strings of the client
    Chars,      \* the characters in use
    Junk,       \* a character nobody stored
    Reserve,    \* t_kstReserve: shorter texts are kept in the buffer
    Inline,     \* a std::string keeps texts of this length, or shorter, in itself
    MaxLength,  \* bound: the length of a text
    Cautious    \* a client moves no short std::string into a string, and no
                \* string has its own text assigned that does not fit in the buffer

Heap == "heap"

\* A std::string and the flags fit in the buffer (the assertion at strwrsv.h:24), and
\* the text it keeps in itself, with the zero behind it, in the std::string.
ASSUME StringAssumption ==
    /\ IsFiniteSet(Strings) /\ Heap \notin Strings
    /\ Reserve \in Nat /\ Inline \in Nat /\ MaxLength \in Nat
    /\ Inline + 1 < Reserve

VARIABLES
    str,        \* the strings: what is in the buffer
    made,       \* how many std::strings exist
    sop,        \* the last call
    astray      \* characters were read where there are none any more

stringVars == <<str, made, sop, astray>>

NoString == [obj |-> FALSE, text |-> <<>>, home |-> "none"]
AllTexts == UNION {[1..n -> Chars] : n \in 0..MaxLength}

Buffer(t) == [obj |-> FALSE, text |-> t, home |-> "buffer"]
\* A std::string made in the buffer of x.
InObject(x, t) == [obj |-> TRUE, text |-> t, home |-> IF Len(t) <= Inline THEN x ELSE Heap]
\* One that is there is given another text, and keeps the memory it has.
Reassigned(s, t) == [obj |-> TRUE, text |-> t, home |-> IF Len(t) > Inline THEN Heap ELSE s.home]

Constructed == {x \in Strings : str[x] # NoString}
Readable(x) == str[x].obj => str[x].home \in {Heap, x}

InitStrings ==
    /\ str = [x \in Strings |-> NoString]
    /\ made = 0
    /\ sop = [call |-> [op |-> "none"], threw |-> FALSE]
    /\ astray = FALSE

WithObject(f) == {x \in Strings : f[x].obj}

\* The call c came through and left s in x; std::strings were made and destroyed.
Leaves(c, x, s, m) ==
    /\ str' = [str EXCEPT ![x] = s]
    /\ made' = m
    /\ sop' = [call |-> c, on |-> x, threw |-> FALSE]
    /\ UNCHANGED astray

\* No memory for the characters of a new std::string, whose constructor has been
\* at work in the buffer.
Fails(c, x) ==
    /\ str' = [str EXCEPT ![x] = IF @.obj THEN @ ELSE Buffer(<<Junk>>)]
    /\ sop' = [call |-> c, on |-> x, threw |-> TRUE]
    /\ UNCHANGED <<made, astray>>

GoesAstray(c) == astray' = TRUE /\ sop' = [call |-> c, threw |-> FALSE] /\ UNCHANGED <<str, made>>

Destroyed(x) == IF str[x].obj THEN made - 1 ELSE made

AssignKeepsObject(c, x, t) ==
    IF Len(t) < Reserve THEN Leaves(c, x, Buffer(t), made)
    ELSE \/ IF str[x].obj THEN Leaves(c, x, Reassigned(str[x], t), made) ELSE Leaves(c, x, InObject(x, t), made + 1)
         \/ Fails(c, x)
\* assign( _psz, _stLen )
AssignTo(c, x, t) ==
    IF Len(t) < Reserve THEN Leaves(c, x, Buffer(t), Destroyed(x))
    ELSE \/ IF str[x].obj THEN Leaves(c, x, Reassigned(str[x], t), made) ELSE Leaves(c, x, InObject(x, t), made + 1)
         \/ Fails(c, x)

\* The constructors: an empty buffer that is assigned to.
Construct(x) ==
    /\ str[x] = NoString
    /\ \/ Leaves([op |-> "assign", text |-> <<>>], x, Buffer(<<>>), made)
       \/ \E t \in AllTexts :
            LET c == [op |-> "assign", text |-> t] IN
            IF Len(t) < Reserve THEN Leaves(c, x, Buffer(t), made) ELSE Leaves(c, x, InObject(x, t), made + 1)

\* What a std::string that is moved into x leaves there.
GiveObject(x, t) ==
    /\ Cautious => Len(t) > Inline
    /\ LET c == [op |-> "assign", text |-> t] IN
       IF str[x] # NoString /\ str[x].obj THEN Leaves(c, x, InObject(x, t), made)
       ELSE Leaves(c, x, InObject(x, t), made + 1)

AssignText(x) == \E t \in AllTexts : AssignTo([op |-> "assign", text |-> t], x, t)

\* A part of the string's own text: the std::string goes first, and the text with
\* it if the string is shorter now.
AssignOwn(x) ==
    \E k \in 0..Len(str[x].text) :
        LET t == SubSeq(str[x].text, k + 1, Len(str[x].text))
            c == [op |-> "assign", text |-> t]
        IN /\ Cautious => ~str[x].obj \/ Len(t) >= Reserve
           /\ IF str[x].obj /\ str[x].home = Heap /\ Len(t) < Reserve THEN GoesAstray(c) ELSE AssignTo(c, x, t)

CopyAssign(x, y) ==
    LET c == [op |-> "copy", from |-> y] IN
    IF ~Readable(y) THEN GoesAstray(c)
    ELSE IF x = y THEN Leaves(c, x, str[x], made)
    ELSE AssignTo(c, x, str[y].text)

\* swap() copies the bytes of the two buffers: a std::string moves with them.
SwapStrings(x, y) ==
    /\ str' = [str EXCEPT ![x] = str[y], ![y] = str[x]]
    /\ sop' = [call |-> [op |-> "swap", from |-> y], on |-> x, threw |-> FALSE]
    /\ UNCHANGED <<made, astray>>

TakeOverUncleared(x, y) ==
    /\ str' = [str EXCEPT ![x] = str[y], ![y] = Buffer(<<>>)]
    /\ sop' = [call |-> [op |-> "take", from |-> y], on |-> x, threw |-> FALSE]
    /\ UNCHANGED <<made, astray>>
\* operator= of a string that is not const, and assign( && ): the other one's
\* bytes for those of this one, which is cleared before.
TakeOver(x, y) ==
    /\ str' = [str EXCEPT ![x] = str[y], ![y] = Buffer(<<>>)]
    /\ made' = Destroyed(x)
    /\ sop' = [call |-> [op |-> "take", from |-> y], on |-> x, threw |-> FALSE]
    /\ UNCHANGED astray

MoveConstruct(x, y) ==
    /\ str[x] = NoString
    /\ str' = [str EXCEPT ![x] = str[y], ![y] = Buffer(<<>>)]
    /\ sop' = [call |-> [op |-> "take", from |-> y], on |-> x, threw |-> FALSE]
    /\ UNCHANGED <<made, astray>>

Clear(x) == Leaves([op |-> "assign", text |-> <<>>], x, Buffer(<<>>), Destroyed(x))

Destroy(x) ==
    /\ str' = [str EXCEPT ![x] = NoString]
    /\ made' = Destroyed(x)
    /\ sop' = [call |-> [op |-> "destroy"], on |-> x, threw |-> FALSE]
    /\ UNCHANGED astray

All(n, ch) == [i \in 1..n |-> ch]
Resized(t, n, ch) == SubSeq(t, 1, IF n < Len(t) THEN n ELSE Len(t)) \o All(IF n < Len(t) THEN 0 ELSE n - Len(t), ch)

\* Keeps the old characters only where there is a std::string before and after.
Resize(x) ==
    \E n \in 0..MaxLength, ch \in Chars :
        LET c == [op |-> "resize", n |-> n, char |-> ch] IN
        CASE n < Reserve -> Leaves(c, x, Buffer(All(n, ch)), Destroyed(x))
          [] n >= Reserve /\ str[x].obj ->
                Leaves(c, x, Reassigned(str[x], Resized(str[x].text, n, ch)), made) \/ Fails(c, x)
          [] OTHER -> Leaves(c, x, InObject(x, All(n, ch)), made + 1) \/ Fails(c, x)

AppendAtReserve(x) ==
    \E t \in AllTexts :
        LET whole == str[x].text \o t
            c == [op |-> "assign", text |-> whole]
        IN /\ Len(whole) <= MaxLength
           /\ CASE ~Readable(x) -> GoesAstray(c)
                [] Readable(x) /\ str[x].obj -> Leaves(c, x, Reassigned(str[x], whole), made) \/ Fails(c, x)
                [] Readable(x) /\ ~str[x].obj /\ Len(whole) <= Reserve -> Leaves(c, x, Buffer(SubSeq(whole, 1, Reserve - 1)), made)
                [] OTHER -> Leaves(c, x, InObject(x, whole), made + 1) \/ Fails(c, x)
\* operator+=
AppendText(x) ==
    \E t \in AllTexts :
        LET whole == str[x].text \o t
            c == [op |-> "assign", text |-> whole]
        IN /\ Len(whole) <= MaxLength
           /\ CASE ~Readable(x) -> GoesAstray(c)
                [] Readable(x) /\ str[x].obj -> Leaves(c, x, Reassigned(str[x], whole), made) \/ Fails(c, x)
                [] Readable(x) /\ ~str[x].obj /\ Len(whole) < Reserve -> Leaves(c, x, Buffer(whole), made)
                [] OTHER -> Leaves(c, x, InObject(x, whole), made + 1) \/ Fails(c, x)

NextStrings ==
    /\ ~astray
    /\ \/ \E x \in Strings : Construct(x) \/ \E t \in AllTexts : GiveObject(x, t)
       \/ \E x \in Constructed :
            AssignText(x) \/ AssignOwn(x) \/ Clear(x) \/ Destroy(x) \/ Resize(x) \/ AppendText(x)
       \/ \E x \in Strings, y \in Constructed : MoveConstruct(x, y)
       \/ \E x, y \in Constructed : CopyAssign(x, y) \/ (x # y /\ (SwapStrings(x, y) \/ TakeOver(x, y)))

SpecStrings == InitStrings /\ [][NextStrings]_stringVars

(***************************************************************************)
(* Properties                                                              *)
(***************************************************************************)

\* Every std::string that was made is in a string that knows it, and will destroy
\* it: none is made over another, and none is forgotten when its buffer is used.
ObjectsAreOwned == made = Cardinality(WithObject(str))

\* No characters are read in a string that is gone or has moved elsewhere: a text
\* in the buffer is short enough to leave the flags alone, and a std::string has
\* its characters on the heap or where it is itself.
TextsAreThere ==
    /\ ~astray
    /\ \A x \in Constructed : Readable(x) /\ (~str[x].obj => Len(str[x].text) < Reserve)

\* The two above.
StringsAreSound == ObjectsAreOwned /\ TextsAreThere

\* Each call has the effect on the texts that it has on std::strings, wherever
\* they are kept and wherever they cross the length of the buffer; a call that
\* throws for want of memory keeps the text of a std::string.
CallAsPromised ==
    LET c == sop'.call
        x == sop'.on
        was == str[x].text
        is == str'[x].text
    IN ~astray' =>
          /\ \A z \in Strings \ {x} : str'[z] # str[z] => "from" \in DOMAIN c /\ c.from = z
          /\ IF sop'.threw THEN is = was \/ ~str[x].obj
             ELSE CASE c.op = "assign" -> is = c.text
                    [] c.op = "copy" -> is = str[c.from].text /\ str'[c.from].text = is
                    [] c.op = "swap" -> is = str[c.from].text /\ str'[c.from].text = was
                    [] c.op = "take" -> is = str[c.from].text /\ str'[c.from].text = <<>>
                    [] c.op = "resize" -> Len(is) = c.n /\ \A i \in 1..c.n : is[i] = c.char \/ (i <= Len(was) /\ is[i] = was[i])
                    [] OTHER -> str'[x] = NoString

TextAsPromised == [][CallAsPromised]_stringVars
=============================================================================
