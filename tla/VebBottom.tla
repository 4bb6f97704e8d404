----------------------------- MODULE VebBottom ------------------------------
(***************************************************************************)
(* The leaves of the van Emde Boas trees used as sets by themselves: an    *)
(* array of words (_VebFixedBase, which VebTreeFixed< 4 > to < 512 > are)  *)
(* and VebTreeFixed< 2 >, whose two elements are the bits of a byte.  Both *)
(* answer a search that fails with a number of their universe, 0 for a     *)
(* successor and the last one for a predecessor.                           *)
(***************************************************************************)
EXTENDS VebWords

VARIABLES leaf,   \* the leaf: its kind and its bits
          lop, lret

leafVars == <<leaf, lop, lret>>

IsTwo == leaf.kind = "two"
LeafSize == IF IsTwo THEN 2 ELSE Universe
LeafNumbers == 0 .. LeafSize - 1
Elements(l) == IF l.kind = "two" THEN l.w ELSE Numbers(l.w)
HasElement(x) == IF IsTwo THEN x \in leaf.w ELSE FHasElementW(leaf.w, x)

\* VebTreeFixed< 2 > computes its answers instead of searching.
NSuccessor2(s, x) == IF x = 0 /\ 1 \in s THEN 1 ELSE 0
NPredecessor2(s, x) == IF x = 0 \/ 0 \notin s THEN 1 ELSE 0

NSuccessorL(x) == IF IsTwo THEN NSuccessor2(leaf.w, x) ELSE NSuccessorW(leaf.w, x)
NPredecessorL(x) == IF IsTwo THEN NPredecessor2(leaf.w, x) ELSE NPredecessorW(leaf.w, x)
OrNone(x, sentinel) == IF x = sentinel THEN None ELSE x

LeafBecomes(two, words, o, r) ==
    leaf' = [leaf EXCEPT !.w = IF IsTwo THEN two ELSE words] /\ lop' = o /\ lret' = r

InitLeaf ==
    /\ leaf \in {[kind |-> "two", w |-> {}], [kind |-> "words", w |-> ZeroWords]}
    /\ lop = <<"Init">> /\ lret = None

InsertL(x) ==
    /\ x \in LeafNumbers /\ ~HasElement(x)
    /\ LeafBecomes(leaf.w \cup {x}, InsertW(leaf.w, x), <<"Insert", x>>, None)
FCheckInsertL(x) ==
    /\ x \in LeafNumbers
    /\ IF HasElement(x) THEN LeafBecomes(leaf.w, leaf.w, <<"CheckInsert", x>>, FALSE)
       ELSE LeafBecomes(leaf.w \cup {x}, InsertW(leaf.w, x), <<"CheckInsert", x>>, TRUE)
DeleteL(x) ==
    /\ x \in LeafNumbers /\ HasElement(x)
    /\ LeafBecomes(leaf.w \ {x}, DeleteW(leaf.w, x), <<"Delete", x>>, None)
FCheckDeleteL(x) ==
    /\ x \in LeafNumbers
    /\ IF ~HasElement(x) THEN LeafBecomes(leaf.w, leaf.w, <<"CheckDelete", x>>, FALSE)
       ELSE LeafBecomes(leaf.w \ {x}, DeleteW(leaf.w, x), <<"CheckDelete", x>>, TRUE)
NSuccessorDeleteL(x) ==
    LET s == NSuccessorL(x)
    IN  /\ x \in LeafNumbers
        /\ LeafBecomes(IF s # 0 THEN leaf.w \cap {0} ELSE leaf.w, NSuccessorDeleteW(leaf.w, x),
                   <<"TakeAfter", x>>, OrNone(s, 0))
NPredecessorDeleteL(x) ==
    LET p == NPredecessorL(x)
    IN  /\ x \in LeafNumbers
        /\ LeafBecomes(IF p = 0 THEN leaf.w \cap {1} ELSE leaf.w, NPredecessorDeleteW(leaf.w, x),
                   <<"TakeBefore", x>>, OrNone(p, LeafSize - 1))

\* Where the universe fills its type, x + 1 wraps for the last element.
FDeleteAllAfterL(x) ==
    LET cut == FDeleteAllAfterW(leaf.w, x)
    IN  /\ ~IsTwo /\ x \in LeafNumbers
        /\ WithinLimits => TypeMax > Universe - 1 \/ x # Universe - 1
        /\ LeafBecomes({}, cut, <<"Truncate", x>>, ~FHasAnyElements(cut))

InsertAllL == LeafBecomes({0, 1}, InsertAllW(leaf.w, 0, Universe - 1), <<"Fill">>, None)
ClearL == LeafBecomes({}, ZeroWords, <<"Clear">>, None)
BitwiseInvertL == LeafBecomes({0, 1} \ leaf.w, BitwiseInvertW(leaf.w, Universe - 1), <<"Invert">>, None)
OrL(S) == LeafBecomes(leaf.w \cup S, OrW(leaf.w, WordsOf(S)), <<"Or", S>>, None)
AndL(S) == LeafBecomes(leaf.w \cap S, AndW(leaf.w, WordsOf(S)), <<"And", S>>, None)
XorL(S) == LeafBecomes((leaf.w \ S) \cup (S \ leaf.w), XorW(leaf.w, WordsOf(S)), <<"Xor", S>>, None)

NextLeaf ==
    \/ \E x \in LeafNumbers : \/ InsertL(x) \/ FCheckInsertL(x) \/ DeleteL(x) \/ FCheckDeleteL(x)
                      \/ NSuccessorDeleteL(x) \/ NPredecessorDeleteL(x) \/ FDeleteAllAfterL(x)
    \/ InsertAllL \/ ClearL \/ BitwiseInvertL
    \/ \E S \in SUBSET LeafNumbers : OrL(S) \/ AndL(S) \/ XorL(S)

SpecLeaf == InitLeaf /\ [][NextLeaf]_leafVars

-----------------------------------------------------------------------------
\* A leaf is a set of numbers below its universe, although its failing searches
\* answer with one of those numbers: the sentinel is never a true answer.
LeafSet == INSTANCE IndexSet WITH Bound <- Universe - 1, Nothing <- None,
                                  set <- Elements(leaf), size <- LeafSize, op <- lop, ret <- lret
LeafRefinement == LeafSet!Init /\ [][LeafSet!Next]_LeafSet!vars
=============================================================================
