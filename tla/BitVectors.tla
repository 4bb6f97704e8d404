----------------------------- MODULE BitVectors -----------------------------
(***************************************************************************)
(* The two bit vectors: _simple_bitvec of _simpbv.h, whose length is given *)
(* when it is made, and FixedBV of fixedbv.h.  Both keep their bits in an  *)
(* array of words, of which the last may be partly used; a word is the set *)
(* of its bits that are 1, least significant first.                        *)
(***************************************************************************)
EXTENDS Integers, FiniteSets, FiniteSetsExt

CONSTANTS WordBits,   \* bits to a word
          NibbleBits, \* bits to an entry of the table of highest bits
          Lengths,    \* the numbers of bits a vector is made with
          MaxShift,   \* bound: no longer shift is asked for
          Careful     \* the caller stays where the code keeps its promise

VARIABLES bv,   \* the vector: its class, its length n, its words w
          op, ret

vars == <<bv, op, ret>>

None == -1   \* m_kstBits of a _simple_bitvec, the greatest size_t of a FixedBV

NWordsOf(n) == IF n = 0 THEN 0 ELSE (n - 1) \div WordBits + 1
WordNos(v) == 0 .. NWordsOf(v.n) - 1
Full == 0 .. WordBits - 1
LastFill(v) == v.n % WordBits

Zeroed(class, n) == [class |-> class, n |-> n, w |-> [k \in 0 .. NWordsOf(n) - 1 |-> {}]]
Numbers(v) == {x \in 0 .. NWordsOf(v.n) * WordBits - 1 : x % WordBits \in v.w[x \div WordBits]}
Made(v, S) == [v EXCEPT !.w = [k \in WordNos(v) |-> {b \in Full : k * WordBits + b \in S}]]
OnWords(v, Op(_)) == [v EXCEPT !.w = [k \in WordNos(v) |-> Op(k)]]

\* The highest bit of a word that is not 0, found by halving the word until a
\* nibble is left, whose highest bit is looked up.
KMSBitSet(word) ==
    LET nShift[lo \in Nat, size \in Nat] ==
            IF size <= NibbleBits THEN lo
            ELSE LET h == size \div 2
                 IN  IF \E b \in word : b >= lo + h THEN nShift[lo + h, h] ELSE nShift[lo, h]
        lo == nShift[0, WordBits]
    IN  Max({b \in word : b >= lo /\ b < lo + NibbleBits})

\* The lowest bit, isolated by clearing it in a copy; and the word without it.
FirstSet(word) == KMSBitSet(word \ (word \ {Min(word)}))

ClearFirst(word) == word \ {FirstSet(word)}

\* The bits beyond the end of the last word are cleared.
Trim(v) == IF LastFill(v) = 0 THEN v
           ELSE [v EXCEPT !.w[NWordsOf(v.n) - 1] = @ \cap 0 .. LastFill(v) - 1]

WithBit(v, x) == [v EXCEPT !.w[x \div WordBits] = @ \cup {x % WordBits}]
WithoutBit(v, x) == [v EXCEPT !.w[x \div WordBits] = @ \ {x % WordBits}]
IsBitSet(v, x) == x % WordBits \in v.w[x \div WordBits]

\* The first bit of word k and the following ones.
SetFrom(v, k) ==
    LET live == {j \in WordNos(v) : j >= k /\ v.w[j] # {}}
    IN  IF live = {} THEN None ELSE Min(live) * WordBits + FirstSet(v.w[Min(live)])

Complement(v) == OnWords(v, LAMBDA k : Full \ v.w[k])

\* getnextset: first the rest of the word that holds the next bit.
NextSet(v, x) ==
    LET k == (x + 1) \div WordBits
        part == {b \in v.w[k] : b >= (x + 1) % WordBits}
    IN  CASE x >= v.n -> None
          [] x < v.n /\ (x + 1) % WordBits # 0 /\ part # {} -> k * WordBits + FirstSet(part)
          [] x < v.n /\ (x + 1) % WordBits # 0 /\ part = {} -> SetFrom(v, k + 1)
          [] OTHER -> SetFrom(v, k)

\* getnextnotset searches the complement, where the unused bits are set: past
\* the last bit it finds the length, which says that there is none.
NextNotSet(v, x) == LET y == NextSet(Complement(v), x) IN IF y = v.n THEN None ELSE y

Or(v, r) == OnWords(v, LAMBDA k : v.w[k] \cup r.w[k])
And(v, r) == OnWords(v, LAMBDA k : v.w[k] \cap r.w[k])
AndNot(v, r) == OnWords(v, LAMBDA k : v.w[k] \ r.w[k])
Xor(v, r) == OnWords(v, LAMBDA k : (v.w[k] \ r.w[k]) \cup (r.w[k] \ v.w[k]))
FirstIntersection(v, r) == SetFrom(And(v, r), 0)
NextIntersection(v, r, x) == NextSet(And(v, r), x)
FIntersects(v, r) == \E k \in WordNos(v) : v.w[k] \cap r.w[k] # {}

\* Mutant: the bits beyond the end are not cleared again.
InvertUntrimmed(v) == IF v.n = 0 THEN v ELSE Complement(v)

Invert(v) == IF v.n = 0 THEN v ELSE Trim(Complement(v))

\* Words that overflow carry into the next one.
Increment(v) ==
    LET free == {k \in WordNos(v) : v.w[k] # Full}
        k == Min(free)
        b == Min(Full \ v.w[k])
        u == OnWords(v, LAMBDA j : CASE free = {} \/ j < k -> {}
                                     [] j = k -> {c \in v.w[k] : c > b} \cup {b}
                                     [] OTHER -> v.w[j])
    IN  IF free # {} /\ k = NWordsOf(v.n) - 1 THEN Trim(u) ELSE u

ShiftUp(v, s) ==
    LET whole == OnWords(v, LAMBDA k : IF s \div WordBits <= k THEN v.w[k - s \div WordBits] ELSE {})
        t == s % WordBits
        from(k) == {b + t : b \in {c \in whole.w[k] : c + t < WordBits}}
        below(k) == IF k = 0 THEN {} ELSE {b + t - WordBits : b \in {c \in whole.w[k - 1] : c + t >= WordBits}}
    IN  Trim(IF t = 0 THEN whole ELSE OnWords(whole, LAMBDA k : from(k) \cup below(k)))

\* A shift by whole words reads the word behind the array, which is whatever
\* lies there, and nothing is trimmed.
ShiftDown(v, s, beyond) ==
    LET n == NWordsOf(v.n)
        d == s \div WordBits
        whole == OnWords(v, LAMBDA k : CASE d > n - k -> {}
                                         [] d = n - k -> beyond
                                         [] OTHER -> v.w[k + d])
        t == s % WordBits
        from(k) == {b - t : b \in {c \in whole.w[k] : c >= t}}
        above(k) == IF k = n - 1 THEN {} ELSE {b - t + WordBits : b \in {c \in whole.w[k + 1] : c < t}}
    IN  IF t = 0 THEN whole ELSE OnWords(whole, LAMBDA k : from(k) \cup above(k))

\* get_next_bit, which looks at the bit it finds once more.
GetNextBit(v, x) ==
    LET k == (x + 1) \div WordBits
        part == {b \in v.w[k] : b >= (x + 1) % WordBits}
        found == IF part # {} THEN k * WordBits + Min(part) ELSE SetFrom(v, k + 1)
    IN  IF x + 1 >= v.n \/ found >= v.n THEN None ELSE found

-----------------------------------------------------------------------------
Does(v, o, r) == bv' = v /\ op' = o /\ ret' = r

Bits == 0 .. bv.n - 1
Simple == bv.class = "simple"
Fixed == bv.class = "fixed"
Operands == SUBSET Bits

Init == /\ \E n \in Lengths : bv \in {Zeroed("simple", n), Zeroed("fixed", n)}
        /\ op = <<"Init">> /\ ret = None

SetBit(x) == x \in Bits /\ Does(WithBit(bv, x), <<"Or", {x}>>, None)
ClearBit(x) == x \in Bits /\ Does(WithoutBit(bv, x), <<"And", Bits \ {x}>>, None)
FlipBit(x) == Fixed /\ x \in Bits /\ Does(Xor(bv, Made(bv, {x})), <<"Xor", {x}>>, None)
ClearAll == Does(Zeroed(bv.class, bv.n), <<"Clear">>, None)
SetAll == Fixed /\ Does(Trim(OnWords(bv, LAMBDA k : Full)), <<"Fill">>, None)

\* getclearfirstset(last) starts with the word that holds the next bit, at its
\* first bit: it may take a bit that is not after last.
TakeFrom(k) ==
    LET x == SetFrom(bv, k)
    IN  IF x = None THEN bv ELSE [bv EXCEPT !.w[x \div WordBits] = ClearFirst(@)]
GetClearFirstSet == Simple /\ Does(TakeFrom(0), <<"TakeAfter", None>>, SetFrom(bv, 0))
GetClearFirstSetAfter(x) ==
    LET k == (x + 1) \div WordBits
    IN  /\ Simple /\ x \in Bits
        /\ Careful => \A y \in Numbers(bv) : y \div WordBits = k => y > x
        /\ Does(TakeFrom(k), <<"TakeAfter", x>>, SetFrom(bv, k))

OrWith(S) == Does(Or(bv, Made(bv, S)), <<"Or", S>>, None)
AndWith(S) == Does(And(bv, Made(bv, S)), <<"And", S>>, None)
AndNotWith(S) == Simple /\ Does(AndNot(bv, Made(bv, S)), <<"And", Bits \ S>>, None)
XorWith(S) == Fixed /\ Does(Xor(bv, Made(bv, S)), <<"Xor", S>>, None)
InvertAll == Does(Invert(bv), <<"Invert">>, None)
Count == Simple /\ Does(Increment(bv), <<"Count">>, None)
ShiftLeft(s) == Fixed /\ Does(ShiftUp(bv, s), <<"Up", s>>, None)
ShiftRight(s) ==
    /\ Fixed
    /\ Careful => s \div WordBits \notin 1 .. NWordsOf(bv.n)
    /\ \E beyond \in SUBSET Full : Does(ShiftDown(bv, s, beyond), <<"Down", s>>, None)

\* The vector is moved from, which leaves it without bits; another is made, or
\* moved, into it.
MoveAway == Simple /\ Does(Zeroed("simple", 0), <<"Resize", 0>>, None)
Receive(n) == Simple /\ bv.n = 0 /\ Does(Zeroed("simple", n), <<"Resize", n>>, None)

Next ==
    \/ \E x \in Bits : SetBit(x) \/ ClearBit(x) \/ FlipBit(x) \/ GetClearFirstSetAfter(x)
    \/ ClearAll \/ SetAll \/ GetClearFirstSet
    \/ \E S \in Operands : OrWith(S) \/ AndWith(S) \/ AndNotWith(S) \/ XorWith(S)
    \/ InvertAll \/ Count
    \/ \E s \in 0 .. MaxShift : ShiftLeft(s) \/ ShiftRight(s)
    \/ MoveAway \/ \E n \in Lengths : Receive(n)

Spec == Init /\ [][Next]_vars

-----------------------------------------------------------------------------
\* "All bits beyond t_kN are always zero" (fixedbv.h:18): no operation leaves
\* a bit in the unused part of the last word.  Every search and comparison
\* reads whole words and relies on it.
BeyondEndIsZero == Numbers(bv) \subseteq Bits

\* The searches find the next bit that is set, not set, or in both of two
\* vectors, from every position, over words that are empty, full or partly
\* used.
BitSearchesAgree ==
    LET S == Numbers(bv)
        After(T, x) == IF \E y \in T : y > x THEN Min({y \in T : y > x}) ELSE None
    IN  /\ \A x \in Bits :
            /\ IsBitSet(bv, x) <=> x \in S
            /\ NextSet(bv, x) = After(S, x) /\ GetNextBit(bv, x) = After(S, x)
            /\ NextNotSet(bv, x) = After(Bits \ S, x)
        /\ SetFrom(bv, 0) = After(S, None) /\ GetNextBit(bv, None) = After(S, None)
        /\ \A T \in Operands :
            LET r == Made(bv, T)
            IN  /\ FirstIntersection(bv, r) = After(S \cap T, None)
                /\ FIntersects(bv, r) <=> S \cap T # {}
                /\ \A x \in Bits : NextIntersection(bv, r, x) = After(S \cap T, x)

\* A bit vector is a set of numbers below its length, and a number to count
\* with and to shift.
BitSet == INSTANCE IndexSet WITH Bound <- Max(Lengths) - 1, Nothing <- None,
                                 set <- Numbers(bv), size <- bv.n, op <- op, ret <- ret
BitRefinement == BitSet!Init /\ [][BitSet!Next]_BitSet!vars
=============================================================================
