----------------------------- MODULE ElementSeq -----------------------------
(***************************************************************************)
(* What SegArray and LogArray promise: each array is a sequence of         *)
(* elements, and each call does to the sequences what its name says, or    *)
(* throws and leaves them as the guarantee of that call says.  Segments,   *)
(* blocks, capacity and the order in which memory is obtained do not       *)
(* appear.  "call" is the call just made, with its arguments, its result   *)
(* and how it ended.                                                       *)
(***************************************************************************)
EXTENDS Naturals, Sequences

CONSTANTS
    Arrays,         \* the array objects of the client
    OwnLifetime,    \* new elements are constructed, not left unspecified
    Default,        \* a default-constructed element
    NoArray,        \* the object is not constructed
    MovedToItself   \* what moving an array to itself does to it: "kept" or "cleared"

VARIABLES contents, call

Init ==
    /\ contents = [a \in Arrays |-> NoArray]
    /\ call = [op |-> "none"]

Prefix(s, n) == SubSeq(s, 1, n)
Suffix(s, n) == SubSeq(s, n + 1, Len(s))

\* t is s with new elements at its end, up to n of them in all.
Extends(s, t, n) ==
    /\ Len(t) = n
    /\ Prefix(t, Len(s)) = s
    /\ OwnLifetime => \A i \in Len(s)+1..n : t[i] = Default

\* t is s, made long enough, with the first k of vals at pos.
Overwrites(s, t, pos, vals, k) ==
    /\ Len(t) = IF pos + Len(vals) > Len(s) THEN pos + Len(vals) ELSE Len(s)
    /\ \A i \in 1..Len(t) :
        IF i \in pos+1..pos+k THEN t[i] = vals[i - pos]
        ELSE i \in 1..Len(s) /\ i \notin pos+1..pos+Len(vals) => t[i] = s[i]

\* The elements of s whose index is not in bits, in order.
Without(s, bits) ==
    LET kept[i \in 0..Len(s)] ==
            IF i = 0 THEN <<>> ELSE IF i - 1 \in bits THEN kept[i-1] ELSE Append(kept[i-1], s[i])
    IN kept[Len(s)]

Transfers == {"insert", "overwrite", "overwrite from stream"}

\* What call c, which came through, makes of array c.on.
Result(c, s, t) ==
    \/ c.op = "construct" /\ Extends(<<>>, t, IF "n" \in DOMAIN c THEN c.n ELSE 0)
    \/ c.op \in {"copy construct", "move construct", "copy assign"} /\ t = contents[c.from]
    \/ c.op = "move assign" /\ t = (IF c.from = c.on /\ MovedToItself = "cleared" THEN <<>> ELSE contents[c.from])
    \/ c.op = "swap" /\ t = contents[c.from]
    \/ c.op = "destroy" /\ t = NoArray
    \/ c.op \in {"clear", "init segment size"} /\ t = <<>>
    \/ c.op = "compact" /\ t = s
    \/ c.op = "push_back" /\ t = Append(s, c.val)
    \/ c.op = "pop_back" /\ s = Append(t, c.out)
    \/ c.op = "set size" /\ IF c.n <= Len(s) THEN t = Prefix(s, c.n) ELSE Extends(s, t, c.n)
    \/ c.op = "remove" /\ t = Prefix(s, c.pos) \o Suffix(s, c.pos + c.els)
    \/ c.op = "remove bv" /\ t = Without(s, c.bits)
    \/ c.op \in Transfers /\ c.vals = <<>> /\ t = s
    \/ /\ c.op = "insert" /\ c.pos < Len(s)
       /\ t = Prefix(s, c.pos) \o c.vals \o Suffix(s, c.pos)
    \/ /\ c.op \in Transfers /\ c.vals # <<>>
       /\ c.op = "insert" => c.pos >= Len(s)
       /\ Overwrites(s, t, c.pos, c.vals, Len(c.vals))

\* What a call that threw may leave: nothing has happened, unless it says so.
Failure(c, s, t) ==
    \/ t = s
    \/ c.op = "set size" /\ OwnLifetime /\ \E k \in Len(s)..c.n : Extends(s, t, k)
    \/ c.op = "remove" /\ Len(t) = Len(s) /\ Prefix(t, c.pos) = Prefix(s, c.pos)
    \/ c.op = "remove bv" /\ Len(t) = Len(s) /\ \A i \in 1..Len(s) : (\A b \in c.bits : i <= b) => t[i] = s[i]
    \/ c.op = "overwrite from stream" /\ \E k \in 0..Len(c.vals)-1 : Overwrites(s, t, c.pos, c.vals, k)

\* The other array of a call that has two.
OtherResult(c, t) ==
    \/ c.op \in {"move construct", "move assign"} /\ t = <<>>
    \/ c.op = "swap" /\ t = contents[c.on]
    \/ c.op \in {"copy construct", "copy assign"} /\ t = contents[c.from]

Others(c) == IF "from" \in DOMAIN c THEN Arrays \ {c.on, c.from} ELSE Arrays \ {c.on}

Effect(c) ==
    /\ \A b \in Others(c) : contents'[b] = contents[b]
    /\ IF c.res = "ok"
       THEN /\ Result(c, contents[c.on], contents'[c.on])
            /\ "from" \in DOMAIN c /\ c.from # c.on => OtherResult(c, contents'[c.from])
       ELSE /\ Failure(c, contents[c.on], contents'[c.on])
            /\ "from" \in DOMAIN c => contents'[c.from] = contents[c.from]

Next == call'.op # "none" /\ Effect(call')

Spec == Init /\ [][Next]_<<contents, call>>
=============================================================================
