------------------------------ MODULE VebTree -------------------------------
(***************************************************************************)
(* VebTreeFixed and VebTreeWrap of _vebtree.h as their callers use them:   *)
(* a tree of one level over arrays of words, the shape in which the        *)
(* library offers them (VebTreeWrap< 256 >, whose clusters and summary are *)
(* arrays of words, and VebTreeFixed< 65536 > over VebTreeFixed< 256 >).   *)
(* A VebTreeWrap has as many clusters as its size needs; a VebTreeFixed    *)
(* always has all of them.                                                 *)
(*                                                                         *)
(* A tree t keeps its least element in t.min, outside the clusters, and    *)
(* its greatest in t.max, also in its cluster; t.cl are the clusters, one  *)
(* array of words each, t.sum the set of the clusters that are not empty,  *)
(* an array of words itself, and t.last the greatest number it may hold.   *)
(* t.none is what the minimum reads as when the tree is empty: the bound   *)
(* of the universe in a VebTreeWrap, and in a VebTreeFixed, which stores   *)
(* the minimum plus one so that zeroed memory is an empty tree, the        *)
(* greatest value of the type.                                             *)
(***************************************************************************)
EXTENDS VebWords

CONSTANTS Sizes,        \* the sizes a VebTreeWrap is given
          MaxElements,  \* bound: a tree holds, or lacks, no more elements
          MaxOperand    \* bound: elements of the right operand of |=, &= and ^=

VARIABLES tree,   \* the tree
          op,     \* the last operation, with its argument
          ret     \* what it returned

treeVars == <<tree, op, ret>>

-----------------------------------------------------------------------------
\* What VebTreeFixed and VebTreeWrap have in common.

NClusters(t) == Cardinality(DOMAIN t.cl)
NCluster(x) == x \div Universe
NElInCluster(x) == x % Universe
NIndex(k, e) == k * Universe + e

HasAny(t) == t.max >= t.min
HasOne(t) == t.min = t.max
NonEmpty(cl) == {k \in DOMAIN cl : FHasAnyElements(cl[k])}
SetEmptyMinMax(t) == [t EXCEPT !.min = t.none, !.max = 0]

\* The least and the greatest element that the clusters hold.
MinOfClusters(t) == LET k == NMinW(t.sum) IN NIndex(k, NMinW(t.cl[k]))
MaxOfClusters(t) == LET k == NMaxW(t.sum) IN NIndex(k, NMaxW(t.cl[k]))

\* The invariant of a tree that the class asserts: the minimum is in no
\* cluster, the summary names the clusters that are not empty, and no other,
\* and the maximum is the greatest element of the clusters; a tree that is
\* empty, or has one element, leaves nothing in its clusters.
AssertValid(t) ==
    /\ NonEmpty(t.cl) = Numbers(t.sum)
    /\ ~HasAny(t) \/ HasOne(t) => Numbers(t.sum) = {}
    /\ ~HasAny(t) => t.min = t.none /\ t.max = 0
    /\ HasAny(t) /\ ~HasOne(t) =>
          /\ ~FHasElementW(t.cl[NCluster(t.min)], NElInCluster(t.min))
          /\ t.max = MaxOfClusters(t) /\ t.max <= t.last

FHasElement(t, x) ==
    /\ HasAny(t)
    /\ \/ x = t.min \/ x = t.max
       \/ ~HasOne(t) /\ FHasElementW(t.cl[NCluster(x)], NElInCluster(x))

Members(t) == IF DOMAIN t.cl = {} THEN {} ELSE {x \in 0 .. t.last : FHasElement(t, x)}

\* Mutant: the summary is left as it was.
ClearKeepsSummary(t) == [SetEmptyMinMax(t) EXCEPT !.cl = [k \in DOMAIN t.cl |-> ZeroWords]]

ClearTree(t) ==
    IF ~HasAny(t) THEN t
    ELSE IF HasOne(t) THEN SetEmptyMinMax(t)
    ELSE [SetEmptyMinMax(t) EXCEPT !.cl = [k \in DOMAIN t.cl |-> ZeroWords],
                                   !.sum = ZeroWords]

InsertAll(t, first, last) ==
    LET n == NCluster(last)
    IN  IF first = last THEN [t EXCEPT !.min = first, !.max = last]
        ELSE [t EXCEPT !.min = first, !.max = last,
                       !.cl = [k \in DOMAIN t.cl |->
                                 IF k > n THEN t.cl[k]
                                 ELSE InsertAllW(t.cl[k],
                                        IF k = 0 THEN first + 1 ELSE 0,
                                        IF k = n THEN NElInCluster(last) ELSE Universe - 1)],
                       !.sum = InsertAllW(t.sum, 0, n)]

\* A number below the minimum takes its place, and the old minimum goes into
\* its cluster.
Insert(t, x) ==
    LET y == IF x < t.min THEN t.min ELSE x
    IN  IF ~HasAny(t) THEN [t EXCEPT !.min = x, !.max = x]
        ELSE [t EXCEPT !.min = Min({x, @}),
                       !.sum = InsertW(@, NCluster(y)),
                       !.cl[NCluster(y)] = InsertW(@, NElInCluster(y)),
                       !.max = Max({y, @})]

\* y is taken out of its cluster, and a cluster that this leaves empty out of
\* the summary.
TakeOut(t, y) ==
    LET k == NCluster(y)
        cl == DeleteW(t.cl[k], NElInCluster(y))
    IN  [t EXCEPT !.cl[k] = cl, !.sum = IF FHasAnyElements(cl) THEN @ ELSE DeleteW(@, k)]

\* Where y, which has been taken out, was the maximum, the next one is found.
WithMaxFor(t, y) ==
    LET k == NCluster(y)
        max == CASE FHasAnyElements(t.cl[k]) -> NIndex(k, NMaxW(t.cl[k]))
                 [] ~FHasAnyElements(t.cl[k]) /\ ~FHasAnyElements(t.sum) -> t.min
                 [] OTHER -> MaxOfClusters(t)
    IN  [t EXCEPT !.max = IF y = @ THEN max ELSE @]

\* The deleted minimum is replaced by the least element of the clusters.
Delete(t, x) ==
    LET y == IF x = t.min THEN MinOfClusters(t) ELSE x
    IN  IF HasOne(t) THEN SetEmptyMinMax(t)
        ELSE WithMaxFor([TakeOut(t, y) EXCEPT !.min = IF x = @ THEN y ELSE @], y)

\* FCheckDelete does not ask first whether the tree is empty: of an empty one
\* it takes t.none for the minimum, and the summary throws.
CheckDeleteThrows(t, x) == ~HasOne(t) /\ x = t.min /\ ~FHasAnyElements(t.sum)

\* The cluster of x holds a greater, a smaller element.
HasAbove(t, x) ==
    LET cl == t.cl[NCluster(x)] IN FHasAnyElements(cl) /\ NElInCluster(x) < NMaxW(cl)
HasBelow(t, x) ==
    LET cl == t.cl[NCluster(x)] IN FHasAnyElements(cl) /\ NElInCluster(x) > NMinW(cl)

NSuccessor(t, x) ==
    LET k == NCluster(x)
        next == NSuccessorW(t.sum, k)
    IN  IF ~HasAny(t) THEN None
        ELSE IF x < t.min THEN t.min
        ELSE IF HasAbove(t, x) THEN NIndex(k, NSuccessorW(t.cl[k], NElInCluster(x)))
        ELSE IF next = NoSuccessorW THEN None
        ELSE NIndex(next, NMinW(t.cl[next]))

NPredecessor(t, x) ==
    LET k == NCluster(x)
        prev == NPredecessorW(t.sum, k)
    IN  IF ~HasAny(t) THEN None
        ELSE IF x > t.max THEN t.max
        ELSE IF HasBelow(t, x) THEN NIndex(k, NPredecessorW(t.cl[k], NElInCluster(x)))
        ELSE IF prev = NoPredecessorW THEN (IF x > t.min THEN t.min ELSE None)
        ELSE NIndex(prev, NMaxW(t.cl[prev]))

\* What NSuccessorDelete leaves when it takes e out of cluster k, which becomes
\* cl: it does so without Delete, and where e was the only one, and the maximum,
\* the summary tells the new maximum.
SuccessorTaken(t, k, e, cl) ==
    LET single == NMinW(t.cl[k]) = NMaxW(t.cl[k])
        sum == IF single THEN DeleteW(t.sum, k) ELSE t.sum
        prev == NPredecessorW(sum, k)
        max == CASE ~single -> NIndex(k, NMaxW(cl))
                 [] single /\ prev = NoPredecessorW -> t.min
                 [] OTHER -> NIndex(prev, NMaxW(t.cl[prev]))
    IN  [t EXCEPT !.cl[k] = cl, !.sum = sum, !.max = IF NIndex(k, e) = @ THEN max ELSE @]

SuccessorDelete(t, x) ==
    LET k == NCluster(x)
        e == NElInCluster(x)
        next == NSuccessorW(t.sum, k)
        first == NMinW(t.cl[next])
    IN  IF ~HasAny(t) THEN t
        ELSE IF x < t.min THEN Delete(t, t.min)
        ELSE IF HasAbove(t, x)
             THEN SuccessorTaken(t, k, NSuccessorW(t.cl[k], e), NSuccessorDeleteW(t.cl[k], e))
        ELSE IF next = NoSuccessorW THEN t
        ELSE SuccessorTaken(t, next, first, DeleteW(t.cl[next], first))

\* What NPredecessorDelete leaves: a predecessor is never the maximum.
PredecessorTaken(t, k, cl) ==
    LET single == NMinW(t.cl[k]) = NMaxW(t.cl[k])
    IN  [t EXCEPT !.cl[k] = cl, !.sum = IF single THEN DeleteW(@, k) ELSE @]

PredecessorDelete(t, x) ==
    LET k == NCluster(x)
        prev == NPredecessorW(t.sum, k)
    IN  IF ~HasAny(t) THEN t
        ELSE IF x > t.max THEN Delete(t, t.max)
        ELSE IF HasBelow(t, x)
             THEN PredecessorTaken(t, k, NPredecessorDeleteW(t.cl[k], NElInCluster(x)))
        ELSE IF prev = NoPredecessorW THEN (IF x > t.min THEN Delete(t, t.min) ELSE t)
        ELSE PredecessorTaken(t, prev, DeleteW(t.cl[prev], NMaxW(t.cl[prev])))

\* The cluster of x loses what follows x, and the maximum becomes the greatest
\* element up to there.
CutAfter(t, x) ==
    LET k == NCluster(x)
        cl == IF NElInCluster(x + 1) # 0
              THEN FDeleteAllAfterW(t.cl[k], NElInCluster(x)) ELSE t.cl[k]
        found == FHasAnyElements(cl)
        sum == IF found THEN t.sum ELSE DeleteW(t.sum, k)
        prev == NPredecessorW(sum, k)
        max == CASE found -> NIndex(k, NMaxW(cl))
                 [] ~found /\ prev = NoPredecessorW -> t.min
                 [] OTHER -> NIndex(prev, NMaxW(t.cl[prev]))
    IN  [t EXCEPT !.cl[k] = cl, !.sum = sum, !.max = max]

\* FDeleteAllAfter; the summary is cut at the cluster of x.
DeleteAllAfter(t, x) ==
    LET k == NCluster(x)
    IN  IF ~HasAny(t) THEN t
        ELSE IF x < t.min THEN ClearTree(t)
        ELSE IF x > t.max THEN t
        ELSE [CutAfter(t, x) EXCEPT !.cl = [j \in DOMAIN @ |-> IF j > k THEN ZeroWords ELSE @[j]],
                                    !.sum = FDeleteAllAfterW(@, k)]

\* Mutant: the minimum of r, which is in none of its clusters, is forgotten.
OrTreeForgetsMin(t, r) ==
    IF ~HasAny(t) \/ HasOne(r) \/ ~HasAny(r) THEN t
    ELSE [t EXCEPT !.max = Max({@, r.max}), !.sum = OrW(@, r.sum),
                   !.cl = [k \in DOMAIN t.cl |-> OrW(t.cl[k], r.cl[k])]]

OrTree(t, r) ==
    LET u == IF FHasElement(t, r.min) THEN t ELSE Insert(t, r.min)
    IN  IF ~HasAny(r) THEN t
        ELSE IF HasOne(r) THEN u
        ELSE [u EXCEPT !.max = Max({@, r.max}),
                       !.cl = [k \in DOMAIN u.cl |-> OrW(u.cl[k], r.cl[k])],
                       !.sum = OrW(@, r.sum)]

\* Of the clusters ks of cl: their least element, what is left of cl when it is
\* taken out, and the greatest element of each.
LeastOf(cl, ks) == LET first == Min(ks) IN NIndex(first, NMinW(cl[first]))
Taken(cl, ks) == [cl EXCEPT ![Min(ks)] = DeleteW(@, NMinW(@))]
Tops(cl, ks) == {NIndex(k, NMaxW(cl[k])) : k \in ks}

\* A tree of clusters cl, the least element of clusters ks its minimum.
Rebuilt(t, cl, ks) ==
    [t EXCEPT !.min = LeastOf(cl, ks), !.max = Max({0} \cup Tops(cl, ks)),
              !.cl = Taken(cl, ks), !.sum = WordsOf(NonEmpty(Taken(cl, ks)))]

\* The first cluster that is not empty gives up its least element as the new
\* minimum, unless the old minimum stays; if that empties it, its maximum is
\* not looked at.  The minimum of r, which is in no cluster of r, is never
\* looked for in the clusters of t.
AndClusters(t, r) ==
    LET keep == FHasElement(r, t.min)
        both == [k \in DOMAIN t.cl |-> AndW(t.cl[k], r.cl[k])]
        takes == NonEmpty(both) # {} /\ ~keep
        cl == IF takes THEN Taken(both, NonEmpty(both)) ELSE both
        old == CASE FHasElement(r, t.max) -> t.max
                 [] ~FHasElement(r, t.max) /\ keep -> t.min
                 [] OTHER -> 0
        u == [t EXCEPT !.min = IF takes THEN LeastOf(both, NonEmpty(both)) ELSE @,
                       !.max = Max({old} \cup Tops(cl, NonEmpty(cl))),
                       !.cl = cl, !.sum = WordsOf(NonEmpty(cl))]
    IN  CASE keep -> Insert(u, t.min)
          [] ~keep /\ NonEmpty(both) = {} -> SetEmptyMinMax(u)
          [] OTHER -> u

AndTree(t, r) ==
    CASE ~HasAny(r) -> ClearTree(t)
      [] HasAny(r) /\ HasOne(r) ->
            IF FHasElement(t, r.min) THEN Insert(ClearTree(t), r.min) ELSE ClearTree(t)
      [] HasAny(r) /\ ~HasOne(r) /\ HasAny(t) /\ HasOne(t) ->
            IF FHasElement(r, t.min) THEN t ELSE ClearTree(t)
      [] HasAny(r) /\ ~HasOne(r) /\ HasAny(t) /\ ~HasOne(t) -> AndClusters(t, r)
      [] OTHER -> t

\* Only the clusters of r are visited; the least element found in them becomes
\* the minimum, and the old minima and maximum are dealt with after that.
Mixed(t, r) ==
    [k \in DOMAIN t.cl |-> IF k \in Numbers(r.sum) THEN XorW(t.cl[k], r.cl[k]) ELSE t.cl[k]]

XorVisited(t, r) ==
    LET live == NonEmpty(Mixed(t, r)) \cap Numbers(r.sum)
    IN  IF live # {} THEN Rebuilt(t, Mixed(t, r), live)
        ELSE [t EXCEPT !.min = Universe * Universe - 1, !.max = 0, !.cl = Mixed(t, r),
                       !.sum = WordsOf(NonEmpty(Mixed(t, r)))]

XorClusters(t, r) ==
    LET u == XorVisited(t, r)
        v == IF FHasElement(t, r.min) THEN Delete(u, r.min) ELSE Insert(u, r.min)
        w == IF FHasElement(r, t.min) THEN Delete(v, t.min) ELSE Insert(v, t.min)
    IN  IF HasAny(t)
        THEN [w EXCEPT !.max = IF FHasElement(r, t.max) THEN @ ELSE Max({@, t.max})]
        ELSE Insert(u, r.min)

XorTree(t, r) ==
    CASE ~HasAny(r) -> t
      [] HasAny(r) /\ HasOne(r) ->
            IF FHasElement(t, r.min) THEN Delete(t, r.min) ELSE Insert(t, r.min)
      [] OTHER -> XorClusters(t, r)

Inverted(t) ==
    [k \in DOMAIN t.cl |-> BitwiseInvertW(t.cl[k], IF k = NCluster(t.last) THEN NElInCluster(t.last)
                                                                            ELSE Universe - 1)]

\* The old minimum is in no cluster, so that it is in its inverted cluster, and
\* is deleted at the end.
BitwiseInvert(t) ==
    CASE ~HasAny(t) -> InsertAll(t, 0, t.last)
      [] HasAny(t) /\ HasOne(t) -> Delete(InsertAll(t, 0, t.last), t.min)
      [] OTHER -> Delete(Rebuilt(t, Inverted(t), NonEmpty(Inverted(t))), t.min)

-----------------------------------------------------------------------------
\* Their callers.

LastOfAll == Universe * Universe - 1

\* What a client gives the constants.
ASSUME TreeAssumption ==
    /\ Sizes \subseteq 1 .. LastOfAll + 1
    /\ MaxElements \in Nat /\ MaxOperand \in Nat

Blank(kind, n) ==
    LET last == IF kind = "wrap" THEN n - 1 ELSE LastOfAll
    IN  [kind |-> kind, last |-> last,
         none |-> IF kind = "wrap" THEN LastOfAll ELSE LastOfAll + 1,
         min |-> IF kind = "wrap" THEN LastOfAll ELSE LastOfAll + 1,
         max |-> 0, sum |-> ZeroWords,
         cl |-> [k \in 0 .. NCluster(last) |-> ZeroWords]]

\* The state of a tree of t's shape that holds S.
Holding(t, S) ==
    LET e == Blank(t.kind, t.last + 1)
        cl == [k \in DOMAIN e.cl |->
                   WordsOf({x % Universe : x \in {y \in S \ {Min(S)} : NCluster(y) = k}})]
    IN  IF S = {} THEN e
        ELSE [e EXCEPT !.min = Min(S), !.max = Max(S), !.cl = cl,
                       !.sum = WordsOf(NonEmpty(cl))]

Size == IF DOMAIN tree.cl = {} THEN 0 ELSE tree.last + 1
InUse == DOMAIN tree.cl # {}
Numbered == IF InUse THEN 0 .. tree.last ELSE {}
IsWrap == tree.kind = "wrap"

\* No more than MaxElements numbers in the tree, or missing from it.
Bounded(t) ==
    LET n == Cardinality(Members(t))
    IN  n <= MaxElements \/ t.last + 1 - n <= MaxElements

Becomes(t, o, r) == Bounded(t) /\ tree' = t /\ op' = o /\ ret' = r

\* In a universe as large as its type FDeleteAllAfter of the last element
\* deletes everything, because ++_x is 0; the summary is cut so when the last
\* cluster that can exist is cut, or added.
TypeWraps(x) == TypeMax = Universe - 1 /\ x = Universe - 1

InitTree ==
    /\ \/ \E n \in Sizes : tree = Blank("wrap", n)
       \/ tree = Blank("fixed", LastOfAll + 1)
    /\ op = <<"Init">> /\ ret = None

InsertX(x) ==
    x \in Numbered \ Members(tree) /\ Becomes(Insert(tree, x), <<"Insert", x>>, None)

FCheckInsert(x) ==
    LET new == ~FHasElement(tree, x)
    IN  x \in Numbered /\ Becomes(IF new THEN Insert(tree, x) ELSE tree,
                                  <<"CheckInsert", x>>, new)

DeleteX(x) == x \in Members(tree) /\ Becomes(Delete(tree, x), <<"Delete", x>>, None)

FCheckDelete(x) ==
    LET throws == CheckDeleteThrows(tree, x)
        found == FHasElement(tree, x)
    IN  /\ x \in Numbered
        /\ WithinLimits => ~throws
        /\ Becomes(IF ~throws /\ found THEN Delete(tree, x) ELSE tree,
                   <<"CheckDelete", x>>, IF throws THEN "throws" ELSE found)

\* The arguments -1 and last + 1 stand for the greatest size_t, the default
\* argument of a VebTreeWrap: the first, or the last, element.
NSuccessorDelete(x) ==
    /\ InUse /\ (x \in Numbered \/ (x = -1 /\ IsWrap))
    /\ Becomes(SuccessorDelete(tree, x), <<"TakeAfter", x>>, NSuccessor(tree, x))

NPredecessorDelete(x) ==
    /\ InUse /\ (x \in Numbered \/ (x = tree.last + 1 /\ IsWrap))
    /\ Becomes(PredecessorDelete(tree, x), <<"TakeBefore", x>>, NPredecessor(tree, x))

\* VebTreeWrap has it too, but takes a pointer from its vector's iterator.
FDeleteAllAfter(x) ==
    /\ ~IsWrap /\ x \in Numbered
    /\ WithinLimits => ~TypeWraps(NCluster(x))
    /\ Becomes(DeleteAllAfter(tree, x), <<"Truncate", x>>, ~HasAny(tree) \/ x < tree.min)

InsertEvery == InUse /\ Becomes(InsertAll(tree, 0, tree.last), <<"Fill">>, None)
ClearAll == InUse /\ Becomes(ClearTree(tree), <<"Clear">>, None)
Invert == InUse /\ Becomes(BitwiseInvert(tree), <<"Invert">>, None)

\* What the right operand may hold; it is a tree of the same size.
Operands == UNION {kSubset(n, Numbered) : n \in 0 .. MaxOperand}

\* Where &= and ^= combine the clusters of two trees of several elements, they
\* do so correctly when ...
AndIsRight(S) ==
    LET both == Members(tree) \cap S
    IN  HasAny(tree) /\ ~HasOne(tree) /\ Cardinality(S) > 1 =>
            /\ tree.min \notin both /\ Min(S) \notin both
            /\ tree.max \in both \/ Cardinality(both) # 1
XorIsRight(S) ==
    HasAny(tree) /\ Cardinality(S) > 1 =>
        /\ Members(tree) \cap S = {}
        /\ NonEmpty(tree.cl) \subseteq NonEmpty(Holding(tree, S).cl)

Or(S) == InUse /\ Becomes(OrTree(tree, Holding(tree, S)), <<"Or", S>>, None)
And(S) ==
    /\ InUse /\ (WithinLimits => AndIsRight(S))
    /\ Becomes(AndTree(tree, Holding(tree, S)), <<"And", S>>, None)
Xor(S) ==
    /\ InUse /\ (WithinLimits => XorIsRight(S))
    /\ Becomes(XorTree(tree, Holding(tree, S)), <<"Xor", S>>, None)

\* Resize to a size that needs m clusters, and Init of a tree without clusters.
\* The summary is cut to m clusters also when the tree grows.  Clear walks the
\* clusters of the summary after the array has been cut.
Grown(n, m) ==
    LET old == DOMAIN tree.cl
    IN  IF m = NClusters(tree) THEN [tree EXCEPT !.last = n - 1]
        ELSE [tree EXCEPT !.last = n - 1,
                          !.cl = [k \in 0 .. m - 1 |-> IF k \in old THEN tree.cl[k] ELSE ZeroWords],
                          !.sum = FDeleteAllAfterW(@, m - 1)]

Shrunk(n, m) ==
    LET cut == [tree EXCEPT !.last = n - 1, !.cl = [k \in 0 .. m - 1 |-> tree.cl[k]]]
        trimmed == IF ~HasAny(cut) \/ cut.max < n THEN cut
                   ELSE IF cut.min < n THEN CutAfter(cut, n - 1)
                   ELSE ClearTree(cut)
    IN  [trimmed EXCEPT !.sum = FDeleteAllAfterW(@, m - 1)]

ResizeTree(n) ==
    LET m == NCluster(n - 1) + 1
    IN  /\ IsWrap /\ n # Size
        /\ WithinLimits => /\ ~TypeWraps(m - 1) \/ ~InUse \/ (NClusters(tree) = m /\ n > Size)
                           /\ n < Size => ~HasAny(tree) \/ HasOne(tree) \/ tree.min < n
        /\ CASE ~InUse -> Becomes(Blank("wrap", n), <<"Resize", n>>, None)
             [] InUse /\ n > Size -> Becomes(Grown(n, m), <<"Resize", n>>, None)
             [] OTHER -> Becomes(Shrunk(n, m), <<"Resize", n>>, None)

\* The tree is moved from: it keeps its size but has no clusters.  Only a
\* Resize to another size, or Init, makes it one again.
MoveFrom ==
    /\ IsWrap /\ InUse
    /\ tree' = [SetEmptyMinMax(tree) EXCEPT !.cl = [k \in {} |-> ZeroWords], !.sum = ZeroWords]
    /\ op' = <<"Resize", 0>> /\ ret' = None

NextTree ==
    \/ \E x \in Numbered : \/ InsertX(x) \/ FCheckInsert(x) \/ DeleteX(x) \/ FCheckDelete(x)
                           \/ FDeleteAllAfter(x)
    \/ \E x \in -1 .. tree.last + 1 : NSuccessorDelete(x) \/ NPredecessorDelete(x)
    \/ InsertEvery \/ ClearAll \/ Invert
    \/ \E S \in Operands : Or(S) \/ And(S) \/ Xor(S)
    \/ \E n \in Sizes : ResizeTree(n)
    \/ MoveFrom

SpecTree == InitTree /\ [][NextTree]_treeVars

-----------------------------------------------------------------------------
\* The tree is a record of its type, with the clusters its size needs.
TreeTypeOK ==
    /\ tree.kind \in {"wrap", "fixed"} /\ tree.last \in 0 .. LastOfAll
    /\ tree.sum \in Words /\ \A k \in DOMAIN tree.cl : tree.cl[k] \in Words
    /\ DOMAIN tree.cl \in {{}, 0 .. NCluster(tree.last)}
    /\ tree.min \in 0 .. LastOfAll + 1 /\ tree.max \in 0 .. LastOfAll

\* What the assertions of the class demand of a tree (_vebtree.h:1355, :2342)
\* holds after every sequence of operations, not only where they are compiled
\* in: the summary, the minimum and the maximum agree with the clusters.
Canonical == InUse => AssertValid(tree)

\* Every search over a tree built by any sequence of operations agrees with the
\* set of its elements: across word and cluster boundaries, and where the
\* sentinel is itself a number of the universe.
SearchesAgree ==
    LET S == Members(tree)
        Least(T) == IF T = {} THEN None ELSE Min(T)
        Greatest(T) == IF T = {} THEN None ELSE Max(T)
    IN  \A x \in Numbered :
            /\ NSuccessor(tree, x) = Least({y \in S : y > x})
            /\ NPredecessor(tree, x) = Greatest({y \in S : y < x})

\* What the runs check of a tree, the three above.
TreeIsSound == TreeTypeOK /\ Canonical /\ SearchesAgree

\* The tree is a set of numbers below its size: each operation changes the set,
\* and answers, as the operation of a set does.
Set == INSTANCE IndexSet WITH Bound <- LastOfAll, Nothing <- None,
                              set <- Members(tree), size <- Size, op <- op, ret <- ret
Refinement == Set!Init /\ [][Set!Next]_Set!vars
=============================================================================
