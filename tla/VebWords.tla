------------------------------ MODULE VebWords ------------------------------
(***************************************************************************)
(* _VebFixedBase of _vebtree.h: a van Emde Boas tree at the bottom of the  *)
(* recursion, where the set is kept as an array of machine words.          *)
(*                                                                         *)
(* A word is the set of its bits that are 1; m_rgUint is a function from   *)
(* word numbers to words.  Masks and shifts are comprehensions over the    *)
(* bits they keep.  Values have the type _tyImplType, whose largest value  *)
(* is TypeMax; a universe of 256 is held in eight bits, so the successor   *)
(* of its last element is 0.                                               *)
(***************************************************************************)
EXTENDS Integers, FiniteSets, FiniteSetsExt

CONSTANTS WordBits,   \* s_kstNBitsUint
          NWords,     \* t_kstNUints
          TypeMax,    \* the largest value of _tyImplType
          WithinLimits   \* the caller stays where the code keeps its promise

Universe == WordBits * NWords

ASSUME WordsAssumption ==
    /\ WordBits \in Nat \ {0, 1} /\ NWords \in Nat \ {0}
    /\ TypeMax \in Nat /\ TypeMax >= Universe - 1
    /\ WithinLimits \in BOOLEAN

None == -1   \* what a search that finds nothing tells its caller

WordNos == 0 .. NWords - 1
Words == [WordNos -> SUBSET (0 .. WordBits - 1)]

\* The positions of the lowest and of the highest bit of a word that is not 0.
Ctz(word) == IF word = {} THEN WordBits ELSE Min(word)
Clz(word) == IF word = {} THEN WordBits ELSE WordBits - 1 - Max(word)

WordOf(x) == x \div WordBits
BitOf(x) == x % WordBits

\* The numbers an array of words stands for.
Numbers(w) == {x \in 0 .. Universe - 1 : BitOf(x) \in w[WordOf(x)]}

WordsOf(S) == [k \in WordNos |-> {b \in 0 .. WordBits - 1 : k * WordBits + b \in S}]

ZeroWords == [k \in WordNos |-> {}]

FHasAnyElements(w) == \E k \in WordNos : w[k] # {}

\* FHasMin and FHasMax scan for the first word that is not 0; of an array that
\* has none they leave their result alone, which no caller reads.
LowestIn(w, ks) == LET k == Min({j \in ks : w[j] # {}})
                   IN  k * WordBits + Ctz(w[k])
HighestIn(w, ks) == LET k == Max({j \in ks : w[j] # {}})
                    IN  k * WordBits + (WordBits - 1 - Clz(w[k]))

NMinW(w) == LowestIn(w, WordNos)
NMaxW(w) == HighestIn(w, WordNos)

FHasElementW(w, x) == BitOf(x) \in w[WordOf(x)]
InsertW(w, x) == [w EXCEPT ![WordOf(x)] = @ \cup {BitOf(x)}]
DeleteW(w, x) == [w EXCEPT ![WordOf(x)] = @ \ {BitOf(x)}]

\* Words beyond the one that holds last are not touched.
InsertAllW(w, first, last) ==
    [k \in WordNos |->
        IF k > WordOf(last) THEN w[k]
        ELSE {b \in 0 .. WordBits - 1 : k * WordBits + b \in first .. last}]

\* ++_x wraps where the type does.
FDeleteAllAfterW(w, x) ==
    LET y == (x + 1) % (TypeMax + 1)
    IN  IF y < Universe THEN [k \in WordNos |-> {b \in w[k] : k * WordBits + b < y}]
                        ELSE w

NoSuccessorW == 0
NoPredecessorW == Universe - 1

NSuccessorW(w, x) ==
    LET k == WordOf(x + 1)
        masked == {b \in w[k] : b >= BitOf(x + 1)}
        rest == {j \in k + 1 .. NWords - 1 : w[j] # {}}
    IN  CASE x >= Universe - 1 -> NoSuccessorW
          [] x < Universe - 1 /\ masked # {} -> k * WordBits + Ctz(masked)
          [] x < Universe - 1 /\ masked = {} /\ rest # {} -> LowestIn(w, rest)
          [] OTHER -> NoSuccessorW

NPredecessorW(w, x) ==
    LET k == WordOf(x - 1)
        masked == {b \in w[k] : b <= BitOf(x - 1)}
        rest == {j \in 0 .. k - 1 : w[j] # {}}
    IN  CASE x = 0 -> NoPredecessorW
          [] x > 0 /\ masked # {} -> k * WordBits + (WordBits - 1 - Clz(masked))
          [] x > 0 /\ masked = {} /\ rest # {} -> HighestIn(w, rest)
          [] OTHER -> NoPredecessorW

\* The two that remove what they find; the sentinel removes nothing.  An
\* array without a successor answers 0, which its caller takes for "none"
\* although 0 may be an element: it is never the successor of anything.
NSuccessorDeleteW(w, x) ==
    LET s == NSuccessorW(w, x) IN IF s = NoSuccessorW THEN w ELSE DeleteW(w, s)
NPredecessorDeleteW(w, x) ==
    LET p == NPredecessorW(w, x) IN IF p = NoPredecessorW THEN w ELSE DeleteW(w, p)

OrW(w, v) == [k \in WordNos |-> w[k] \cup v[k]]
AndW(w, v) == [k \in WordNos |-> w[k] \cap v[k]]
XorW(w, v) == [k \in WordNos |-> (w[k] \ v[k]) \cup (v[k] \ w[k])]

\* Words beyond the one that holds last are not touched here either.
BitwiseInvertW(w, last) ==
    [k \in WordNos |->
        IF k > WordOf(last) THEN w[k]
        ELSE {b \in (0 .. WordBits - 1) \ w[k] : k * WordBits + b <= last}]
=============================================================================
