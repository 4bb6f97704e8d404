--------------------------- MODULE ElementWindow ---------------------------
(***************************************************************************)
(* What SegArrayRotatingBuffer promises: a window on a long sequence, that *)
(* is the position of its first element and the elements from there on.    *)
(* Moving the base forward drops elements and changes nothing else; below  *)
(* zero, the base gives the elements new positions.  Everything else works *)
(* on the elements as it does on a plain sequence.                         *)
(***************************************************************************)
EXTENDS Integers, Sequences

CONSTANTS Default, NoArray

VARIABLES first,    \* the position of the first element
          elements, \* the elements of the window
          signed,   \* the base is below zero
          call      \* the last call

Seqs == INSTANCE ElementSeq WITH
    Arrays <- {"buffer"}, OwnLifetime <- FALSE, MovedToItself <- "cleared",
    contents <- [a \in {"buffer"} |-> elements]

Init ==
    /\ first = 0 /\ elements = <<>> /\ ~signed
    /\ call = [op |-> "none"]

\* The window from position pos on.
From(pos) == IF pos - first >= Len(elements) THEN <<>> ELSE Seqs!Suffix(elements, pos - first)

MoveBase(c) ==
    /\ c.op \in {"set base", "copy and advance"}
    /\ first' = IF c.base < 0 THEN -c.base ELSE c.base
    /\ signed' = (c.base < 0)
    /\ elements' = IF c.base < 0 THEN elements ELSE From(c.base)
    /\ c.op = "copy and advance" => c.out = SubSeq(elements, c.begin - first + 1, c.base - first)

\* The base is put anywhere, and the window shows what happens to be there.
Rebase(c) ==
    /\ c.op = "hard reset"
    /\ first' = IF c.base < 0 THEN -c.base ELSE c.base
    /\ signed' = (c.base < 0)

Clear(c) == c.op = "clear" /\ first' = 0 /\ elements' = <<>> /\ ~signed'

\* A call that speaks of a position, seen from the start of the window.
Relative(c) ==
    IF "pos" \in DOMAIN c THEN [c EXCEPT !.pos = @ - first]
    ELSE IF c.op = "set size" THEN [c EXCEPT !.n = @ - first]
    ELSE c

OnElements(c) ==
    /\ c.op # "clear"
    /\ UNCHANGED <<first, signed>>
    /\ IF c.res = "ok" THEN Seqs!Result(Relative(c), elements, elements')
       ELSE Seqs!Failure(Relative(c), elements, elements')

Next ==
    /\ call'.op # "none"
    /\ \/ call'.res = "ok" /\ (MoveBase(call') \/ Rebase(call') \/ Clear(call'))
       \/ OnElements(call')

Spec == Init /\ [][Next]_<<first, elements, signed, call>>
=============================================================================
