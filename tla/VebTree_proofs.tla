--------------------------- MODULE VebTree_proofs ---------------------------
(***************************************************************************)
(* Whatever the number of bits in a word, of words in a leaf and of        *)
(* numbers in a tree:                                                      *)
(*                                                                         *)
(*   - words with a bit set or reset, searched, cut, filled and combined   *)
(*     are the set of numbers they stand for with that done to it;         *)
(*   - an operation of a tree that represents a set (a minimum outside     *)
(*     the clusters, a maximum, a summary of the clusters in use) makes    *)
(*     one that represents the set it should, and answers as the set does; *)
(*   - so what the class asserts of its trees holds of all of them, and    *)
(*     trees and leaves implement IndexSet.                                *)
(***************************************************************************)
EXTENDS VebTree, VebBottom, FiniteSetTheorems, WellFoundedInduction, TLAPS

-----------------------------------------------------------------------------
(* Least and greatest numbers. *)

Below == {pair \in Nat \X Nat : pair[1] < pair[2]}

LEMMA BelowWellFounded == IsWellFoundedOn(Below, Nat)
  BY NatLessThanWellFounded, Zenon DEF OpToRel, Below

LEMMA LeastExists ==
    ASSUME NEW S, S \subseteq Nat, S # {}
    PROVE  \E x \in S : \A y \in S : x <= y
<1>1. PICK x \in S : \A y \in S : ~ (<<y, x>> \in Below)
  BY WFMin, BelowWellFounded, Zenon
<1>2. ASSUME NEW y \in S PROVE x <= y
  <2>1. x \in Nat /\ y \in Nat /\ ~(<<y, x>> \in Below)
    BY <1>1
  <2>2. ~(y < x)
    BY <2>1 DEF Below
  <2> QED
    BY <2>1, <2>2
<1> QED
  BY <1>2

LEMMA MinIs ==
    ASSUME NEW S, S \subseteq Nat, S # {}
    PROVE  Min(S) \in S /\ \A y \in S : Min(S) <= y
  BY LeastExists, Zenon DEF Min

LEMMA MaxIs ==
    ASSUME NEW n \in Nat, NEW S, S \subseteq 0 .. n, S # {}
    PROVE  Max(S) \in S /\ \A y \in S : Max(S) >= y
<1> DEFINE T == {n - x : x \in S}
<1>1. PICK m \in T : \A y \in T : m <= y
  <2>1. T \subseteq Nat
    OBVIOUS
  <2>2. PICK s \in S : TRUE
    OBVIOUS
  <2>3. n - s \in T
    OBVIOUS
  <2> HIDE DEF T
  <2> QED
    BY <2>1, <2>3, LeastExists, Zenon
<1>2. PICK x \in S : m = n - x
  BY <1>1
<1>3. ASSUME NEW y \in S PROVE x >= y
  <2>1. n - y \in T
    OBVIOUS
  <2>2. n - x <= n - y
    BY <2>1, <1>1, <1>2
  <2>3. x \in Nat /\ y \in Nat
    OBVIOUS
  <2> QED
    BY <2>2, <2>3
<1> QED
  BY <1>3, Zenon DEF Max

\* Whoever is in the set and at least as small, or as great, as the others.
LEMMA IsMin ==
    ASSUME NEW S, S \subseteq Nat, NEW x \in S, \A y \in S : x <= y
    PROVE  Min(S) = x
<1>1. S # {}
  OBVIOUS
<1>2. Min(S) \in S /\ \A y \in S : Min(S) <= y
  BY <1>1, MinIs, Zenon
<1>3. Min(S) \in Nat /\ x \in Nat /\ Min(S) <= x /\ x <= Min(S)
  BY <1>2
<1> QED
  BY <1>3

LEMMA IsMax ==
    ASSUME NEW n \in Nat, NEW S, S \subseteq 0 .. n, NEW x \in S, \A y \in S : y <= x
    PROVE  Max(S) = x
<1>1. S # {}
  OBVIOUS
<1>2. Max(S) \in S /\ \A y \in S : Max(S) >= y
  BY <1>1, MaxIs, Zenon
<1>3. Max(S) \in 0 .. n /\ x \in 0 .. n /\ Max(S) >= x
  BY <1>2
<1>4. Max(S) <= x
  BY <1>2, Zenon
<1> QED
  BY <1>3, <1>4

-----------------------------------------------------------------------------
(* Places: number k * d + e is at e in the part k of d numbers. *)

LEMMA Split ==
    ASSUME NEW d \in Nat \ {0}, NEW x \in Nat
    PROVE  x \div d \in Nat /\ x % d \in 0 .. d - 1 /\ x = (x \div d) * d + (x % d)
  BY SMT

LEMMA Joined ==
    ASSUME NEW d \in Nat \ {0}, NEW k \in Nat, NEW e \in 0 .. d - 1
    PROVE  k * d + e \in Nat /\ (k * d + e) \div d = k /\ (k * d + e) % d = e
<1>1. k * d \in Nat
  BY SMT
<1> QED
  BY <1>1, SMT

LEMMA Lexical ==
    ASSUME NEW d \in Nat \ {0}, NEW k \in Nat, NEW e \in 0 .. d - 1,
           NEW j \in Nat, NEW f \in 0 .. d - 1, k < j
    PROVE  k * d + e < j * d + f
<1>1. PICK m \in Nat : j = k + 1 + m
  <2>1. j - k - 1 \in Nat /\ j = k + 1 + (j - k - 1)
    BY SMT
  <2> QED
    BY <2>1
<1>2. k * d \in Nat /\ m * d \in Nat
  BY SMT
<1>3. j * d = k * d + d + m * d
  BY <1>1, SMT
<1> QED
  BY <1>2, <1>3, SMT

LEMMA Within ==
    ASSUME NEW d \in Nat \ {0}, NEW n \in Nat \ {0}, NEW k \in 0 .. n - 1, NEW e \in 0 .. d - 1
    PROVE  k * d + e \in 0 .. d * n - 1
<1>1. PICK m \in Nat : n = k + 1 + m
  <2>1. n - k - 1 \in Nat /\ n = k + 1 + (n - k - 1)
    BY SMT
  <2> QED
    BY <2>1
<1>2. k * d \in Nat /\ m * d \in Nat
  BY SMT
<1>3. d * n = k * d + d + m * d
  BY <1>1, SMT
<1> QED
  BY <1>2, <1>3, SMT

LEMMA Outside ==
    ASSUME NEW d \in Nat \ {0}, NEW n \in Nat \ {0}, NEW x \in 0 .. d * n - 1
    PROVE  x \div d \in 0 .. n - 1
<1>1. d * n \in Nat /\ x \in Nat
  BY SMT
<1>2. x \div d \in Nat /\ x % d \in 0 .. d - 1 /\ x = (x \div d) * d + (x % d)
  BY Split, <1>1
<1>3. SUFFICES ASSUME x \div d >= n PROVE FALSE
  BY <1>2
<1>4. PICK q \in Nat, e \in 0 .. d-1 : q = x \div d /\ x = q * d + e
  BY <1>2
<1>5. PICK m \in Nat : q = n + m
  <2>1. q - n \in Nat /\ q = n + (q - n)
    BY <1>3, <1>4, SMT
  <2> QED
    BY <2>1
<1>6. n * d \in Nat /\ m * d \in Nat /\ q * d = n * d + m * d /\ d * n = n * d
  BY <1>5, SMT
<1> QED
  BY <1>6, <1>4, <1>3, SMT
-----------------------------------------------------------------------------
(* Arrays of words as sets of numbers. *)

Els == 0 .. Universe - 1
Bits == 0 .. WordBits - 1

LEMMA Ranges ==
    /\ WordBits \in Nat \ {0} /\ NWords \in Nat \ {0}
    /\ Universe \in Nat /\ Universe > 1 /\ Universe - 1 \in Els /\ 0 \in Els
    /\ TypeMax \in Nat /\ TypeMax >= Universe - 1
<1>1. /\ WordBits \in Nat \ {0, 1} /\ NWords \in Nat \ {0}
      /\ TypeMax \in Nat /\ TypeMax >= Universe - 1
  BY WordsAssumption
<1>2. PICK m \in Nat : NWords = m + 1
  <2>1. NWords - 1 \in Nat /\ NWords = (NWords - 1) + 1
    BY <1>1
  <2> QED
    BY <2>1
<1>3. WordBits * NWords = WordBits * m + WordBits /\ WordBits * m \in Nat
  BY <1>1, <1>2, SMT
<1>4. Universe \in Nat /\ Universe > 1
  BY <1>1, <1>3 DEF Universe
<1> QED
  BY <1>1, <1>4 DEF Els

\* Each number has its bit.
LEMMA Place ==
    ASSUME NEW x \in Els
    PROVE  WordOf(x) \in WordNos /\ BitOf(x) \in Bits /\ x = WordOf(x) * WordBits + BitOf(x)
<1>1. x \in 0 .. WordBits * NWords - 1 /\ x \in Nat
  BY Ranges DEF Els, Universe
<1>2. x \div WordBits \in 0 .. NWords - 1
  BY <1>1, Outside, Ranges
<1>3. x % WordBits \in 0 .. WordBits - 1 /\ x = (x \div WordBits) * WordBits + (x % WordBits)
  BY <1>1, Split, Ranges
<1> QED
  BY <1>2, <1>3 DEF WordOf, BitOf, WordNos, Bits

\* Each bit has its number.
LEMMA NumberAt ==
    ASSUME NEW k \in WordNos, NEW b \in Bits
    PROVE  /\ k * WordBits + b \in Els
           /\ WordOf(k * WordBits + b) = k /\ BitOf(k * WordBits + b) = b
<1>1. k \in 0 .. NWords - 1 /\ b \in 0 .. WordBits - 1 /\ k \in Nat
  BY Ranges DEF WordNos, Bits
<1>2. k * WordBits + b \in 0 .. WordBits * NWords - 1
  BY <1>1, Within, Ranges
<1>3. (k * WordBits + b) \div WordBits = k /\ (k * WordBits + b) % WordBits = b
  BY <1>1, Joined, Ranges
<1> QED
  BY <1>2, <1>3 DEF WordOf, BitOf, Els, Universe

LEMMA SamePlace ==
    ASSUME NEW x \in Els, NEW y \in Els, WordOf(x) = WordOf(y), BitOf(x) = BitOf(y)
    PROVE  x = y
<1>1. x = WordOf(x) * WordBits + BitOf(x) /\ y = WordOf(y) * WordBits + BitOf(y)
  BY Place
<1> QED
  BY <1>1

\* The order of the numbers is that of the words, and in a word that of the bits.
LEMMA InOrder ==
    ASSUME NEW x \in Els, NEW y \in Els
    PROVE  /\ WordOf(x) < WordOf(y) => x < y
           /\ WordOf(x) = WordOf(y) => (x < y <=> BitOf(x) < BitOf(y))
           /\ x < y => WordOf(x) <= WordOf(y)
<1>1. PICK k \in Nat, b \in 0 .. WordBits - 1 : k = WordOf(x) /\ b = BitOf(x) /\ x = k * WordBits + b
  BY Place, Ranges DEF WordNos, Bits
<1>2. PICK j \in Nat, c \in 0 .. WordBits - 1 : j = WordOf(y) /\ c = BitOf(y) /\ y = j * WordBits + c
  BY Place, Ranges DEF WordNos, Bits
<1>3. k < j => x < y
  BY <1>1, <1>2, Lexical, Ranges
<1>4. j < k => y < x
  BY <1>1, <1>2, Lexical, Ranges
<1>5. j = k => (x < y <=> b < c)
  <2>1. k * WordBits \in Nat
    BY <1>1, Ranges, SMT
  <2> QED
    BY <1>1, <1>2, <2>1, Ranges
<1>6. x \in Nat /\ y \in Nat
  BY Ranges DEF Els
<1> QED
  BY <1>1, <1>2, <1>3, <1>4, <1>5, <1>6

LEMMA WordsAre ==
    ASSUME NEW w \in Words, NEW k \in WordNos
    PROVE  w[k] \subseteq Bits
  BY DEF Words, Bits

\* A word's bit is a number of the set.
LEMMA HasBit ==
    ASSUME NEW w, NEW k \in WordNos, NEW b \in Bits
    PROVE  FHasElementW(w, k * WordBits + b) <=> b \in w[k]
  BY NumberAt DEF FHasElementW

LEMMA HasIsNumber ==
    ASSUME NEW w
    PROVE  Numbers(w) = {x \in Els : FHasElementW(w, x)}
  BY DEF Numbers, FHasElementW, Els

\* An array is the set of its numbers.
LEMMA SameWords ==
    ASSUME NEW w \in Words, NEW v \in Words, \A x \in Els : FHasElementW(w, x) <=> FHasElementW(v, x)
    PROVE  w = v
<1>1. ASSUME NEW k \in WordNos PROVE w[k] = v[k]
  <2>1. w[k] \subseteq Bits /\ v[k] \subseteq Bits
    BY WordsAre
  <2>2. ASSUME NEW b \in Bits PROVE b \in w[k] <=> b \in v[k]
    <3>1. k * WordBits + b \in Els
      BY NumberAt
    <3> QED
      BY <3>1, HasBit
  <2> QED
    BY <2>1, <2>2
<1> QED
  BY <1>1 DEF Words

-----------------------------------------------------------------------------
(* What the operations do to the set. *)

LEMMA InsertWIs ==
    ASSUME NEW w \in Words, NEW x \in Els
    PROVE  /\ InsertW(w, x) \in Words
           /\ \A e \in Els : FHasElementW(InsertW(w, x), e) <=> FHasElementW(w, e) \/ e = x
<1>1. WordOf(x) \in WordNos /\ BitOf(x) \in Bits
  BY Place
<1>2. InsertW(w, x) \in Words
  BY <1>1 DEF InsertW, Words, Bits
<1>3. ASSUME NEW e \in Els
      PROVE  FHasElementW(InsertW(w, x), e) <=> FHasElementW(w, e) \/ e = x
  <2>1. WordOf(e) \in WordNos
    BY Place
  <2>2. WordOf(e) = WordOf(x) /\ BitOf(e) = BitOf(x) <=> e = x
    BY SamePlace
  <2> QED
    BY <1>1, <2>1, <2>2 DEF InsertW, FHasElementW, Words
<1> QED
  BY <1>2, <1>3

LEMMA DeleteWIs ==
    ASSUME NEW w \in Words, NEW x \in Els
    PROVE  /\ DeleteW(w, x) \in Words
           /\ \A e \in Els : FHasElementW(DeleteW(w, x), e) <=> FHasElementW(w, e) /\ e # x
<1>1. WordOf(x) \in WordNos /\ BitOf(x) \in Bits
  BY Place
<1>2. DeleteW(w, x) \in Words
  BY <1>1 DEF DeleteW, Words, Bits
<1>3. ASSUME NEW e \in Els
      PROVE  FHasElementW(DeleteW(w, x), e) <=> FHasElementW(w, e) /\ e # x
  <2>1. WordOf(e) \in WordNos
    BY Place
  <2>2. WordOf(e) = WordOf(x) /\ BitOf(e) = BitOf(x) <=> e = x
    BY SamePlace
  <2> QED
    BY <1>1, <2>1, <2>2 DEF DeleteW, FHasElementW, Words
<1> QED
  BY <1>2, <1>3

LEMMA ZeroWordsIs ==
    ZeroWords \in Words /\ ~FHasAnyElements(ZeroWords) /\ \A e \in Els : ~FHasElementW(ZeroWords, e)
<1>1. ZeroWords \in Words /\ ~FHasAnyElements(ZeroWords)
  BY DEF ZeroWords, Words, FHasAnyElements
<1>2. ASSUME NEW e \in Els PROVE ~FHasElementW(ZeroWords, e)
  <2>1. WordOf(e) \in WordNos
    BY Place
  <2> QED
    BY <2>1 DEF ZeroWords, FHasElementW
<1> QED
  BY <1>1, <1>2

LEMMA WordsOfIs ==
    ASSUME NEW S
    PROVE  WordsOf(S) \in Words /\ \A e \in Els : FHasElementW(WordsOf(S), e) <=> e \in S
<1>1. WordsOf(S) \in Words
  BY DEF WordsOf, Words
<1>2. ASSUME NEW e \in Els PROVE FHasElementW(WordsOf(S), e) <=> e \in S
  <2>1. WordOf(e) \in WordNos /\ BitOf(e) \in Bits /\ e = WordOf(e) * WordBits + BitOf(e)
    BY Place
  <2>2. WordsOf(S)[WordOf(e)] = {b \in Bits : WordOf(e) * WordBits + b \in S}
    BY <2>1 DEF WordsOf, Bits
  <2>3. BitOf(e) \in WordsOf(S)[WordOf(e)] <=> WordOf(e) * WordBits + BitOf(e) \in S
    BY <2>1, <2>2
  <2> QED
    BY <2>1, <2>3 DEF FHasElementW
<1> QED
  BY <1>1, <1>2

LEMMA HasAnyIs ==
    ASSUME NEW w \in Words
    PROVE  FHasAnyElements(w) <=> \E e \in Els : FHasElementW(w, e)
<1>1. ASSUME NEW k \in WordNos, w[k] # {} PROVE \E e \in Els : FHasElementW(w, e)
  <2>1. PICK b \in Bits : b \in w[k]
    BY <1>1, WordsAre
  <2>2. k * WordBits + b \in Els /\ FHasElementW(w, k * WordBits + b)
    BY <2>1, NumberAt, HasBit
  <2> QED
    BY <2>2
<1>2. ASSUME NEW e \in Els, FHasElementW(w, e) PROVE \E k \in WordNos : w[k] # {}
  <2>1. WordOf(e) \in WordNos /\ BitOf(e) \in w[WordOf(e)]
    BY <1>2, Place DEF FHasElementW
  <2> QED
    BY <2>1
<1> QED
  BY <1>1, <1>2 DEF FHasAnyElements

\* The lowest, and the highest, number in some of the words.
LEMMA LowestInIs ==
    ASSUME NEW w \in Words, NEW ks, ks \subseteq WordNos, NEW j \in ks, w[j] # {}
    PROVE  /\ LowestIn(w, ks) \in Els /\ FHasElementW(w, LowestIn(w, ks)) /\ WordOf(LowestIn(w, ks)) \in ks
           /\ \A e \in Els : FHasElementW(w, e) /\ WordOf(e) \in ks => LowestIn(w, ks) <= e
<1> DEFINE T == {i \in ks : w[i] # {}}
           k == Min(T)
           b == Min(w[k])
           r == k * WordBits + b
<1>1. T \subseteq Nat /\ T # {}
  <2>1. WordNos \subseteq Nat /\ j \in T
    BY Ranges DEF WordNos
  <2> QED
    BY <2>1
<1>2. k \in T /\ \A i \in T : k <= i
  <2> HIDE DEF T
  <2> QED
    BY <1>1, MinIs, Zenon
<1>3. k \in WordNos /\ w[k] # {} /\ w[k] \subseteq Bits /\ w[k] \subseteq Nat /\ k \in ks
  <2>1. k \in WordNos /\ w[k] # {} /\ k \in ks
    BY <1>2
  <2>2. w[k] \subseteq Bits
    BY <2>1, WordsAre
  <2>3. Bits = 0 .. WordBits - 1 /\ Bits \subseteq Nat /\ WordBits - 1 \in Nat
    BY Ranges DEF Bits
  <2> HIDE DEF k
  <2> QED
    BY <2>1, <2>2, <2>3
<1>4. b \in w[k] /\ \A c \in w[k] : b <= c
  BY <1>3, MinIs, Zenon
<1>5. LowestIn(w, ks) = r
  BY <1>3, Zenon DEF LowestIn, Ctz
<1>6. r \in Els /\ FHasElementW(w, r) /\ WordOf(r) = k /\ BitOf(r) = b
  <2>1. b \in Bits
    BY <1>3, <1>4
  <2> HIDE DEF k, b
  <2> QED
    BY <1>3, <1>4, <2>1, NumberAt, HasBit
<1>7. ASSUME NEW e \in Els, FHasElementW(w, e), WordOf(e) \in ks PROVE r <= e
  <2>1. BitOf(e) \in w[WordOf(e)] /\ WordOf(e) \in T
    BY <1>7 DEF FHasElementW
  <2>2. k <= WordOf(e)
    BY <1>2, <2>1
  <2>3. k = WordOf(e) => b <= BitOf(e)
    BY <1>4, <2>1
  <2>4. r \in Nat /\ e \in Nat /\ WordOf(e) \in Nat /\ k \in Nat /\ BitOf(e) \in Nat /\ b \in Nat
    BY <1>3, <1>4, <1>6, Place, Ranges DEF Els, WordNos, Bits
  <2>5. ~(WordOf(e) < WordOf(r)) /\ (WordOf(e) = WordOf(r) => ~(BitOf(e) < BitOf(r)))
    <3> HIDE DEF r, b, k
    <3> QED
      BY <2>2, <2>3, <2>4, <1>6
  <2>6. ~(e < r)
    <3> HIDE DEF r, b, k
    <3> QED
      BY <2>5, <2>4, <1>6, InOrder
  <2> HIDE DEF r
  <2> QED
    BY <2>4, <2>6
<1> HIDE DEF r, b, k
<1> QED
  BY <1>3, <1>5, <1>6, <1>7, Zenon

LEMMA HighestInIs ==
    ASSUME NEW w \in Words, NEW ks, ks \subseteq WordNos, NEW j \in ks, w[j] # {}
    PROVE  /\ HighestIn(w, ks) \in Els /\ FHasElementW(w, HighestIn(w, ks)) /\ WordOf(HighestIn(w, ks)) \in ks
           /\ \A e \in Els : FHasElementW(w, e) /\ WordOf(e) \in ks => e <= HighestIn(w, ks)
<1> DEFINE T == {i \in ks : w[i] # {}}
           k == Max(T)
           b == Max(w[k])
           r == k * WordBits + b
<1>1. T \subseteq 0 .. NWords - 1 /\ T # {} /\ NWords - 1 \in Nat
  BY Ranges DEF WordNos
<1>2. k \in T /\ \A i \in T : k >= i
  <2> HIDE DEF T
  <2> QED
    BY <1>1, MaxIs, Zenon
<1>3. k \in WordNos /\ w[k] # {} /\ w[k] \subseteq Bits /\ w[k] \subseteq 0 .. WordBits - 1 /\ k \in ks
      /\ WordBits - 1 \in Nat
  <2>1. k \in WordNos /\ w[k] # {} /\ k \in ks
    BY <1>2
  <2>2. w[k] \subseteq Bits
    BY <2>1, WordsAre
  <2>3. Bits = 0 .. WordBits - 1 /\ Bits \subseteq Nat /\ WordBits - 1 \in Nat
    BY Ranges DEF Bits
  <2> HIDE DEF k
  <2> QED
    BY <2>1, <2>2, <2>3
<1>4. b \in w[k] /\ \A c \in w[k] : b >= c
  BY <1>3, MaxIs, Zenon
<1>5. HighestIn(w, ks) = r
  <2>1. WordBits - 1 - Clz(w[k]) = b
    <3>1. Clz(w[k]) = WordBits - 1 - b
      BY <1>3, Zenon DEF Clz
    <3>2. b \in 0 .. WordBits - 1
      BY <1>3, <1>4
    <3>3. b \in Int /\ WordBits \in Int
      BY <3>2, Ranges
    <3> HIDE DEF b
    <3> QED
      BY <3>1, <3>3
  <2> HIDE DEF b
  <2> QED
    BY <2>1, Zenon DEF HighestIn
<1>6. r \in Els /\ FHasElementW(w, r) /\ WordOf(r) = k /\ BitOf(r) = b
  <2>1. b \in Bits
    BY <1>3, <1>4
  <2> HIDE DEF k, b
  <2> QED
    BY <1>3, <1>4, <2>1, NumberAt, HasBit
<1>7. ASSUME NEW e \in Els, FHasElementW(w, e), WordOf(e) \in ks PROVE e <= r
  <2>1. BitOf(e) \in w[WordOf(e)] /\ WordOf(e) \in T
    BY <1>7 DEF FHasElementW
  <2>2. k >= WordOf(e)
    BY <1>2, <2>1
  <2>3. k = WordOf(e) => b >= BitOf(e)
    BY <1>4, <2>1
  <2>4. r \in Nat /\ e \in Nat /\ WordOf(e) \in Nat /\ k \in Nat /\ BitOf(e) \in Nat /\ b \in Nat
    BY <1>3, <1>4, <1>6, Place, Ranges DEF Els, WordNos, Bits
  <2>5. ~(WordOf(r) < WordOf(e)) /\ (WordOf(r) = WordOf(e) => ~(BitOf(r) < BitOf(e)))
    <3> HIDE DEF r, b, k
    <3> QED
      BY <2>2, <2>3, <2>4, <1>6
  <2>6. ~(r < e)
    <3> HIDE DEF r, b, k
    <3> QED
      BY <2>5, <2>4, <1>6, InOrder
  <2> HIDE DEF r
  <2> QED
    BY <2>4, <2>6
<1> HIDE DEF r, b, k
<1> QED
  BY <1>3, <1>5, <1>6, <1>7, Zenon

LEMMA NMinWIs ==
    ASSUME NEW w \in Words, FHasAnyElements(w)
    PROVE  /\ NMinW(w) \in Els /\ FHasElementW(w, NMinW(w))
           /\ \A e \in Els : FHasElementW(w, e) => NMinW(w) <= e
<1>1. PICK j \in WordNos : w[j] # {}
  BY DEF FHasAnyElements
<1>2. /\ LowestIn(w, WordNos) \in Els /\ FHasElementW(w, LowestIn(w, WordNos))
      /\ \A e \in Els : FHasElementW(w, e) /\ WordOf(e) \in WordNos => LowestIn(w, WordNos) <= e
  BY <1>1, LowestInIs
<1> QED
  BY <1>2, Place DEF NMinW

LEMMA NMaxWIs ==
    ASSUME NEW w \in Words, FHasAnyElements(w)
    PROVE  /\ NMaxW(w) \in Els /\ FHasElementW(w, NMaxW(w))
           /\ \A e \in Els : FHasElementW(w, e) => e <= NMaxW(w)
<1>1. PICK j \in WordNos : w[j] # {}
  BY DEF FHasAnyElements
<1>2. /\ HighestIn(w, WordNos) \in Els /\ FHasElementW(w, HighestIn(w, WordNos))
      /\ \A e \in Els : FHasElementW(w, e) /\ WordOf(e) \in WordNos => e <= HighestIn(w, WordNos)
  BY <1>1, HighestInIs
<1> QED
  BY <1>2, Place DEF NMaxW

LEMMA NSuccessorWIs ==
    ASSUME NEW w \in Words, NEW x \in Els
    PROVE  LET s == NSuccessorW(w, x)
           IN  \/ s = 0 /\ \A e \in Els : FHasElementW(w, e) => e <= x
               \/ /\ s \in Els /\ FHasElementW(w, s) /\ x < s
                  /\ \A e \in Els : FHasElementW(w, e) /\ x < e => s <= e
<1> DEFINE s == NSuccessorW(w, x)
<1>0. x \in Nat /\ \A e \in Els : e \in Nat
  BY Ranges DEF Els
<1>1. CASE x >= Universe - 1
  <2>0. ~(x < Universe - 1)
    BY <1>1, <1>0, Ranges
  <2>1. s = 0
    BY <1>1, <2>0, Zenon DEF NSuccessorW, NoSuccessorW
  <2>2. \A e \in Els : e <= x
    BY <1>1, Ranges DEF Els
  <2> QED
    BY <2>1, <2>2
<1>2. CASE x < Universe - 1
  <2> DEFINE k == WordOf(x + 1)
             masked == {b \in w[k] : b >= BitOf(x + 1)}
             rest == {j \in k + 1 .. NWords - 1 : w[j] # {}}
  <2>1. x + 1 \in Els
    BY <1>2, <1>0, Ranges DEF Els
  <2>2. k \in WordNos /\ BitOf(x + 1) \in Bits /\ k \in Nat /\ BitOf(x + 1) \in Nat
    BY <2>1, Place, Ranges DEF WordNos, Bits
  <2>3. masked \subseteq Bits /\ Bits \subseteq Nat
    BY <2>2, WordsAre DEF Bits
  <2>4. ~(x >= Universe - 1)
    BY <1>2, <1>0, Ranges
  \* A number beyond x is in the masked part of its word, or in a later word.
  <2>5. ASSUME NEW e \in Els, FHasElementW(w, e), x < e
        PROVE  \/ WordOf(e) = k /\ BitOf(e) \in masked
               \/ k < WordOf(e) /\ WordOf(e) \in rest
    <3>1. WordOf(e) \in WordNos /\ BitOf(e) \in Bits /\ BitOf(e) \in w[WordOf(e)] /\ BitOf(e) \in Nat
      BY <2>5, Place, Ranges DEF FHasElementW, Bits
    <3>2. ~(e < x + 1)
      BY <2>5, <1>0
    <3>3. ~(WordOf(e) < k) /\ (WordOf(e) = k => ~(BitOf(e) < BitOf(x + 1)))
      BY <3>2, <2>1, InOrder
    <3>4. WordOf(e) \in Nat /\ WordOf(e) <= NWords - 1
      BY <3>1, Ranges DEF WordNos
    <3>5. CASE WordOf(e) = k
      BY <3>5, <3>1, <3>3, <2>2
    <3>6. CASE WordOf(e) # k
      <4>1. k < WordOf(e) /\ WordOf(e) \in k + 1 .. NWords - 1
        <5> HIDE DEF k
        <5> QED
          BY <3>6, <3>3, <3>4, <2>2, Ranges
      <4> QED
        BY <4>1, <3>1
    <3> QED
      BY <3>5, <3>6
  <2>6. CASE masked # {}
    <3> DEFINE b == Min(masked)
    <3>1. b \in masked /\ \A c \in masked : b <= c
      <4> HIDE DEF masked
      <4>1. masked \subseteq Nat
        BY <2>3
      <4> QED
        BY <4>1, <2>6, MinIs, Zenon
    <3>2. s = k * WordBits + b
      BY <1>2, <2>4, <2>6, Zenon DEF NSuccessorW, Ctz
    <3>3. b \in w[k] /\ b >= BitOf(x + 1) /\ b \in Bits /\ b \in Nat
      BY <3>1, <2>3
    <3>4. s \in Els /\ FHasElementW(w, s) /\ WordOf(s) = k /\ BitOf(s) = b
      <4> HIDE DEF s, k, b
      <4> QED
        BY <3>2, <3>3, <2>2, NumberAt, HasBit
    <3>5. x < s
      <4>1. ~(s < x + 1)
        <5> HIDE DEF s, b
        <5> QED
          BY <2>1, <2>2, <3>3, <3>4, InOrder
      <4> HIDE DEF s
      <4> QED
        BY <4>1, <3>4, <1>0
    <3>6. ASSUME NEW e \in Els, FHasElementW(w, e), x < e PROVE s <= e
      <4>1. \/ WordOf(e) = k /\ b <= BitOf(e)
            \/ k < WordOf(e)
        BY <3>6, <2>5, <3>1
      <4>2. BitOf(e) \in Nat /\ WordOf(e) \in Nat
        BY Place, Ranges DEF Bits, WordNos
      <4>3. ~(e < s)
        <5> HIDE DEF s, b, k
        <5> QED
          BY <4>1, <4>2, <3>3, <3>4, <2>2, InOrder
      <4> HIDE DEF s
      <4> QED
        BY <4>3, <3>4, <1>0
    <3> QED
      BY <3>4, <3>5, <3>6
  <2>7. CASE masked = {} /\ rest # {}
    <3>1. s = LowestIn(w, rest)
      BY <1>2, <2>4, <2>7, Zenon DEF NSuccessorW
    <3>2. PICK j \in rest : w[j] # {}
      BY <2>7
    <3>3. rest \subseteq WordNos
      BY <2>2, Ranges DEF WordNos
    <3>4. /\ s \in Els /\ FHasElementW(w, s) /\ WordOf(s) \in rest
          /\ \A e \in Els : FHasElementW(w, e) /\ WordOf(e) \in rest => s <= e
      <4> HIDE DEF rest, s
      <4> QED
        BY <3>1, <3>2, <3>3, LowestInIs
    <3>5. k < WordOf(s)
      <4>1. WordOf(s) \in k + 1 .. NWords - 1
        BY <3>4
      <4> HIDE DEF k, s
      <4> QED
        BY <4>1, <2>2, Ranges
    <3>6. x < s
      <4>1. x + 1 < s
        <5> HIDE DEF s
        <5> QED
          BY <3>5, <3>4, <2>1, InOrder
      <4> HIDE DEF s
      <4> QED
        BY <4>1, <3>4, <1>0
    <3>7. ASSUME NEW e \in Els, FHasElementW(w, e), x < e PROVE s <= e
      BY <3>7, <2>5, <2>7, <3>4
    <3> QED
      BY <3>4, <3>6, <3>7
  <2>8. CASE masked = {} /\ rest = {}
    <3>1. s = 0
      BY <1>2, <2>4, <2>8, Zenon DEF NSuccessorW, NoSuccessorW
    <3>2. ASSUME NEW e \in Els, FHasElementW(w, e) PROVE e <= x
      BY <3>2, <2>5, <2>8, <1>0
    <3> QED
      BY <3>1, <3>2
  <2> QED
    BY <2>6, <2>7, <2>8
<1> QED
  BY <1>0, <1>1, <1>2, Ranges

LEMMA NPredecessorWIs ==
    ASSUME NEW w \in Words, NEW x \in Els
    PROVE  LET p == NPredecessorW(w, x)
           IN  \/ p = Universe - 1 /\ \A e \in Els : FHasElementW(w, e) => e >= x
               \/ /\ p \in Els /\ FHasElementW(w, p) /\ p < x
                  /\ \A e \in Els : FHasElementW(w, e) /\ e < x => e <= p
<1> DEFINE s == NPredecessorW(w, x)
<1>0. x \in Nat /\ \A e \in Els : e \in Nat
  BY Ranges DEF Els
<1>1. CASE x = 0
  <2>0. ~(x > 0)
    BY <1>1
  <2>1. s = Universe - 1
    BY <1>1, <2>0, Zenon DEF NPredecessorW, NoPredecessorW
  <2>2. \A e \in Els : e >= x
    BY <1>1, Ranges DEF Els
  <2> QED
    BY <2>1, <2>2
<1>2. CASE x > 0
  <2> DEFINE k == WordOf(x - 1)
             masked == {b \in w[k] : b <= BitOf(x - 1)}
             rest == {j \in 0 .. k - 1 : w[j] # {}}
  <2>1. x - 1 \in Els
    BY <1>2, <1>0, Ranges DEF Els
  <2>2. k \in WordNos /\ BitOf(x - 1) \in Bits /\ k \in Nat /\ BitOf(x - 1) \in Nat
    BY <2>1, Place, Ranges DEF WordNos, Bits
  <2>3. masked \subseteq Bits /\ Bits = 0 .. WordBits - 1 /\ WordBits - 1 \in Nat
    BY <2>2, WordsAre, Ranges DEF Bits
  <2>4. x # 0
    BY <1>2, <1>0
  \* A number before x is in the masked part of its word, or in an earlier word.
  <2>5. ASSUME NEW e \in Els, FHasElementW(w, e), e < x
        PROVE  \/ WordOf(e) = k /\ BitOf(e) \in masked
               \/ WordOf(e) < k /\ WordOf(e) \in rest
    <3>1. WordOf(e) \in WordNos /\ BitOf(e) \in Bits /\ BitOf(e) \in w[WordOf(e)] /\ BitOf(e) \in Nat
      BY <2>5, Place, Ranges DEF FHasElementW, Bits
    <3>2. ~(x - 1 < e)
      BY <2>5, <1>0
    <3>3. ~(k < WordOf(e)) /\ (WordOf(e) = k => ~(BitOf(x - 1) < BitOf(e)))
      BY <3>2, <2>1, InOrder
    <3>4. WordOf(e) \in Nat
      BY <3>1, Ranges DEF WordNos
    <3>5. CASE WordOf(e) = k
      BY <3>5, <3>1, <3>3, <2>2
    <3>6. CASE WordOf(e) # k
      <4>1. WordOf(e) < k /\ WordOf(e) \in 0 .. k - 1
        <5> HIDE DEF k
        <5> QED
          BY <3>6, <3>3, <3>4, <2>2
      <4> QED
        BY <4>1, <3>1
    <3> QED
      BY <3>5, <3>6
  <2>6. CASE masked # {}
    <3> DEFINE b == Max(masked)
    <3>1. b \in masked /\ \A c \in masked : b >= c
      <4> HIDE DEF masked
      <4>1. masked \subseteq 0 .. WordBits - 1
        BY <2>3
      <4> QED
        BY <4>1, <2>3, <2>6, MaxIs, Zenon
    <3>3. b \in w[k] /\ b <= BitOf(x - 1) /\ b \in Bits /\ b \in Nat
      BY <3>1, <2>3
    <3>2. s = k * WordBits + b
      <4>1. Clz(masked) = WordBits - 1 - b
        BY <2>6, Zenon DEF Clz
      <4>2. WordBits - 1 - Clz(masked) = b
        <5> HIDE DEF b, masked
        <5> QED
          BY <4>1, <3>3, Ranges
      <4>3. s = k * WordBits + (WordBits - 1 - Clz(masked))
        BY <1>2, <2>4, <2>6, Zenon DEF NPredecessorW
      <4> HIDE DEF b, masked, s, k
      <4> QED
        BY <4>2, <4>3, Zenon
    <3>4. s \in Els /\ FHasElementW(w, s) /\ WordOf(s) = k /\ BitOf(s) = b
      <4> HIDE DEF s, k, b
      <4> QED
        BY <3>2, <3>3, <2>2, NumberAt, HasBit
    <3>5. s < x
      <4>1. ~(x - 1 < s)
        <5> HIDE DEF s, b
        <5> QED
          BY <2>1, <2>2, <3>3, <3>4, InOrder
      <4> HIDE DEF s
      <4> QED
        BY <4>1, <3>4, <1>0
    <3>6. ASSUME NEW e \in Els, FHasElementW(w, e), e < x PROVE e <= s
      <4>1. \/ WordOf(e) = k /\ b >= BitOf(e)
            \/ WordOf(e) < k
        BY <3>6, <2>5, <3>1
      <4>2. BitOf(e) \in Nat /\ WordOf(e) \in Nat
        BY Place, Ranges DEF Bits, WordNos
      <4>3. ~(s < e)
        <5> HIDE DEF s, b, k
        <5> QED
          BY <4>1, <4>2, <3>3, <3>4, <2>2, InOrder
      <4> HIDE DEF s
      <4> QED
        BY <4>3, <3>4, <1>0
    <3> QED
      BY <3>4, <3>5, <3>6
  <2>7. CASE masked = {} /\ rest # {}
    <3>1. s = HighestIn(w, rest)
      BY <1>2, <2>4, <2>7, Zenon DEF NPredecessorW
    <3>2. PICK j \in rest : w[j] # {}
      BY <2>7
    <3>3. rest \subseteq WordNos
      BY <2>2, Ranges DEF WordNos
    <3>4. /\ s \in Els /\ FHasElementW(w, s) /\ WordOf(s) \in rest
          /\ \A e \in Els : FHasElementW(w, e) /\ WordOf(e) \in rest => e <= s
      <4> HIDE DEF rest, s
      <4> QED
        BY <3>1, <3>2, <3>3, HighestInIs
    <3>5. WordOf(s) < k
      <4>1. WordOf(s) \in 0 .. k - 1
        BY <3>4
      <4> HIDE DEF k, s
      <4> QED
        BY <4>1, <2>2
    <3>6. s < x
      <4>1. s < x - 1
        <5> HIDE DEF s
        <5> QED
          BY <3>5, <3>4, <2>1, InOrder
      <4> HIDE DEF s
      <4> QED
        BY <4>1, <3>4, <1>0
    <3>7. ASSUME NEW e \in Els, FHasElementW(w, e), e < x PROVE e <= s
      BY <3>7, <2>5, <2>7, <3>4
    <3> QED
      BY <3>4, <3>6, <3>7
  <2>8. CASE masked = {} /\ rest = {}
    <3>1. s = Universe - 1
      BY <1>2, <2>4, <2>8, Zenon DEF NPredecessorW, NoPredecessorW
    <3>2. ASSUME NEW e \in Els, FHasElementW(w, e) PROVE e >= x
      BY <3>2, <2>5, <2>8, <1>0
    <3> QED
      BY <3>1, <3>2
  <2> QED
    BY <2>6, <2>7, <2>8
<1> QED
  BY <1>0, <1>1, <1>2

LEMMA InsertAllWIs ==
    ASSUME NEW w \in Words, NEW first \in Nat, NEW last \in Els
    PROVE  /\ InsertAllW(w, first, last) \in Words
           /\ \A e \in Els : /\ WordOf(e) <= WordOf(last) => (FHasElementW(InsertAllW(w, first, last), e) <=> first <= e /\ e <= last)
                             /\ WordOf(e) > WordOf(last) => (FHasElementW(InsertAllW(w, first, last), e) <=> FHasElementW(w, e))
<1>1. InsertAllW(w, first, last) \in Words
  BY WordsAre DEF InsertAllW, Words, Bits
<1>2. ASSUME NEW e \in Els
      PROVE  /\ WordOf(e) <= WordOf(last) => (FHasElementW(InsertAllW(w, first, last), e) <=> first <= e /\ e <= last)
             /\ WordOf(e) > WordOf(last) => (FHasElementW(InsertAllW(w, first, last), e) <=> FHasElementW(w, e))
  <2> DEFINE k == WordOf(e)
  <2>1. /\ k \in WordNos /\ BitOf(e) \in Bits /\ e = k * WordBits + BitOf(e)
        /\ WordOf(last) \in WordNos
    BY Place
  <2>2. InsertAllW(w, first, last)[k] = IF k > WordOf(last) THEN w[k]
                                        ELSE {b \in Bits : k * WordBits + b \in first .. last}
    BY <2>1 DEF InsertAllW, Bits
  <2>3. k \in Nat /\ WordOf(last) \in Nat /\ e \in Nat /\ last \in Nat
    BY <2>1, Ranges DEF WordNos, Els
  <2>4. ASSUME k <= WordOf(last)
        PROVE FHasElementW(InsertAllW(w, first, last), e) <=> first <= e /\ e <= last
    <3>1. ~(k > WordOf(last))
      BY <2>3, <2>4
    <3>2. InsertAllW(w, first, last)[k] = {b \in Bits : k * WordBits + b \in first .. last}
      BY <2>2, <3>1
    <3>3. BitOf(e) \in InsertAllW(w, first, last)[k] <=> e \in first .. last
      BY <2>1, <3>2
    <3> QED
      BY <2>3, <3>3 DEF FHasElementW
  <2>5. ASSUME k > WordOf(last)
        PROVE FHasElementW(InsertAllW(w, first, last), e) <=> FHasElementW(w, e)
    BY <2>2, <2>5 DEF FHasElementW
  <2> QED
    BY <2>4, <2>5
<1> QED
  BY <1>1, <1>2

\* Where ++_x does not wrap.
LEMMA FDeleteAllAfterWIs ==
    ASSUME NEW w \in Words, NEW x \in Els, TypeMax > Universe - 1 \/ x # Universe - 1
    PROVE  /\ FDeleteAllAfterW(w, x) \in Words
           /\ \A e \in Els : FHasElementW(FDeleteAllAfterW(w, x), e) <=> FHasElementW(w, e) /\ e <= x
<1> DEFINE y == (x + 1) % (TypeMax + 1)
           v == [k \in WordNos |-> {b \in w[k] : k * WordBits + b < y}]
<1>1. y = x + 1 /\ x \in Nat
  <2>1. x + 1 \in 0 .. TypeMax /\ x \in Nat /\ TypeMax \in Nat
    BY Ranges DEF Els
  <2>2. \A m \in Nat : \A n \in 0 .. m : n % (m + 1) = n
    BY SMT
  <2> QED
    BY <2>1, <2>2
<1>2. CASE y < Universe
  <2>1. FDeleteAllAfterW(w, x) = v
    BY <1>2, Zenon DEF FDeleteAllAfterW
  <2>2. v \in Words
    BY WordsAre DEF Words, Bits
  <2>3. ASSUME NEW e \in Els PROVE FHasElementW(v, e) <=> FHasElementW(w, e) /\ e <= x
    <3>1. WordOf(e) \in WordNos /\ BitOf(e) \in Bits /\ e = WordOf(e) * WordBits + BitOf(e)
      BY Place
    <3>2. v[WordOf(e)] = {b \in w[WordOf(e)] : WordOf(e) * WordBits + b < y}
      BY <3>1
    <3>3. BitOf(e) \in v[WordOf(e)] <=> BitOf(e) \in w[WordOf(e)] /\ e < y
      <4> HIDE DEF v, y
      <4> QED
        BY <3>1, <3>2
    <3>4. e < y <=> e <= x
      BY <1>1, Ranges DEF Els
    <3> QED
      BY <3>3, <3>4 DEF FHasElementW
  <2> HIDE DEF v
  <2> QED
    BY <2>1, <2>2, <2>3
<1>3. CASE ~(y < Universe)
  <2>1. FDeleteAllAfterW(w, x) = w
    BY <1>3, Zenon DEF FDeleteAllAfterW
  <2>2. \A e \in Els : e <= x
    BY <1>1, <1>3, Ranges DEF Els
  <2> QED
    BY <2>1, <2>2
<1> QED
  BY <1>2, <1>3

LEMMA BothW ==
    ASSUME NEW w \in Words, NEW v \in Words
    PROVE  /\ OrW(w, v) \in Words /\ AndW(w, v) \in Words /\ XorW(w, v) \in Words
           /\ \A e \in Els :
                 /\ FHasElementW(OrW(w, v), e) <=> FHasElementW(w, e) \/ FHasElementW(v, e)
                 /\ FHasElementW(AndW(w, v), e) <=> FHasElementW(w, e) /\ FHasElementW(v, e)
                 /\ FHasElementW(XorW(w, v), e) <=> ~(FHasElementW(w, e) <=> FHasElementW(v, e))
<1>1. \A k \in WordNos : w[k] \subseteq Bits /\ v[k] \subseteq Bits
  BY WordsAre
<1>2. OrW(w, v) \in Words
  BY <1>1 DEF OrW, Words, Bits
<1>3. AndW(w, v) \in Words
  BY <1>1 DEF AndW, Words, Bits
<1>4. XorW(w, v) \in Words
  BY <1>1 DEF XorW, Words, Bits
<1>5. ASSUME NEW e \in Els
      PROVE  /\ FHasElementW(OrW(w, v), e) <=> FHasElementW(w, e) \/ FHasElementW(v, e)
             /\ FHasElementW(AndW(w, v), e) <=> FHasElementW(w, e) /\ FHasElementW(v, e)
             /\ FHasElementW(XorW(w, v), e) <=> ~(FHasElementW(w, e) <=> FHasElementW(v, e))
  <2>1. WordOf(e) \in WordNos
    BY Place
  <2> QED
    BY <2>1 DEF OrW, AndW, XorW, FHasElementW
<1> QED
  BY <1>2, <1>3, <1>4, <1>5

LEMMA BitwiseInvertWIs ==
    ASSUME NEW w \in Words, NEW last \in Els
    PROVE  /\ BitwiseInvertW(w, last) \in Words
           /\ \A e \in Els : /\ WordOf(e) <= WordOf(last) => (FHasElementW(BitwiseInvertW(w, last), e) <=> ~FHasElementW(w, e) /\ e <= last)
                             /\ WordOf(e) > WordOf(last) => (FHasElementW(BitwiseInvertW(w, last), e) <=> FHasElementW(w, e))
<1>1. BitwiseInvertW(w, last) \in Words
  BY WordsAre DEF BitwiseInvertW, Words, Bits
<1>2. ASSUME NEW e \in Els
      PROVE  /\ WordOf(e) <= WordOf(last) => (FHasElementW(BitwiseInvertW(w, last), e) <=> ~FHasElementW(w, e) /\ e <= last)
             /\ WordOf(e) > WordOf(last) => (FHasElementW(BitwiseInvertW(w, last), e) <=> FHasElementW(w, e))
  <2> DEFINE k == WordOf(e)
  <2>1. /\ k \in WordNos /\ BitOf(e) \in Bits /\ e = k * WordBits + BitOf(e)
        /\ WordOf(last) \in WordNos
    BY Place
  <2>2. BitwiseInvertW(w, last)[k] = IF k > WordOf(last) THEN w[k]
                                     ELSE {b \in Bits \ w[k] : k * WordBits + b <= last}
    BY <2>1 DEF BitwiseInvertW, Bits
  <2>3. k \in Nat /\ WordOf(last) \in Nat
    BY <2>1, Ranges DEF WordNos
  <2>4. ASSUME k <= WordOf(last)
        PROVE FHasElementW(BitwiseInvertW(w, last), e) <=> ~FHasElementW(w, e) /\ e <= last
    <3>1. ~(k > WordOf(last))
      BY <2>3, <2>4
    <3>2. BitwiseInvertW(w, last)[k] = {b \in Bits \ w[k] : k * WordBits + b <= last}
      BY <2>2, <3>1
    <3>3. BitOf(e) \in BitwiseInvertW(w, last)[k] <=> BitOf(e) \notin w[k] /\ e <= last
      <4> HIDE DEF k
      <4> QED
        BY <2>1, <3>2
    <3> QED
      BY <3>3 DEF FHasElementW
  <2>5. ASSUME k > WordOf(last)
        PROVE FHasElementW(BitwiseInvertW(w, last), e) <=> FHasElementW(w, e)
    BY <2>2, <2>5 DEF FHasElementW
  <2> QED
    BY <2>4, <2>5
<1> QED
  BY <1>1, <1>2

-----------------------------------------------------------------------------
(* Clusters of Universe numbers. *)

Places == 0 .. LastOfAll

LEMMA Bounds ==
    /\ LastOfAll \in Nat /\ LastOfAll > 0 /\ 0 \in Places /\ LastOfAll \in Places
    /\ \A x \in Places : x \in Nat
    /\ \A k \in Els : k \in Nat
<1>1. PICK u \in Nat : u = Universe /\ u > 1
  BY Ranges
<1>2. PICK m \in Nat : u = m + 2
  <2>1. u - 2 \in Nat /\ u = (u - 2) + 2
    BY <1>1
  <2> QED
    BY <2>1
<1>3. u * u = u * m + 2 * u /\ u * m \in Nat
  BY <1>1, <1>2, SMT
<1>4. LastOfAll = u * u - 1
  BY <1>1 DEF LastOfAll
<1>5. LastOfAll \in Nat /\ LastOfAll > 0
  <2> HIDE DEF LastOfAll
  <2> QED
    BY <1>1, <1>3, <1>4
<1> QED
  BY <1>5, Ranges DEF Places, Els

LEMMA PlaceOf ==
    ASSUME NEW x \in Places
    PROVE  NCluster(x) \in Els /\ NElInCluster(x) \in Els /\ NIndex(NCluster(x), NElInCluster(x)) = x
<1>1. x \in 0 .. Universe * Universe - 1 /\ x \in Nat /\ Universe \in Nat \ {0}
  BY Ranges, Bounds DEF Places, LastOfAll
<1>2. x \div Universe \in 0 .. Universe - 1
  BY <1>1, Outside
<1>3. x % Universe \in 0 .. Universe - 1 /\ x = (x \div Universe) * Universe + (x % Universe)
  BY <1>1, Split
<1> QED
  BY <1>2, <1>3 DEF NCluster, NElInCluster, NIndex, Els

LEMMA IndexOf ==
    ASSUME NEW k \in Els, NEW e \in Els
    PROVE  /\ NIndex(k, e) \in Places
           /\ NCluster(NIndex(k, e)) = k /\ NElInCluster(NIndex(k, e)) = e
<1>1. k \in 0 .. Universe - 1 /\ e \in 0 .. Universe - 1 /\ k \in Nat /\ Universe \in Nat \ {0}
  BY Ranges, Bounds DEF Els
<1>2. k * Universe + e \in 0 .. Universe * Universe - 1
  BY <1>1, Within
<1>3. (k * Universe + e) \div Universe = k /\ (k * Universe + e) % Universe = e
  BY <1>1, Joined
<1> QED
  BY <1>2, <1>3 DEF NCluster, NElInCluster, NIndex, Places, LastOfAll

LEMMA IndexOrder ==
    ASSUME NEW k \in Els, NEW e \in Els, NEW j \in Els, NEW f \in Els
    PROVE  /\ k < j => NIndex(k, e) < NIndex(j, f)
           /\ k = j => (NIndex(k, e) < NIndex(j, f) <=> e < f)
           /\ NIndex(k, e) <= NIndex(j, f) => k <= j
<1>1. /\ k \in Nat /\ e \in 0 .. Universe - 1 /\ j \in Nat /\ f \in 0 .. Universe - 1
      /\ Universe \in Nat \ {0}
  BY Ranges, Bounds DEF Els
<1>2. k < j => k * Universe + e < j * Universe + f
  BY <1>1, Lexical
<1>3. j < k => j * Universe + f < k * Universe + e
  BY <1>1, Lexical
<1>4. k * Universe \in Nat /\ j * Universe \in Nat
  BY <1>1, SMT
<1>5. k = j => (k * Universe + e < j * Universe + f <=> e < f)
  BY <1>1, <1>4
<1>6. k * Universe + e <= j * Universe + f => k <= j
  BY <1>1, <1>3, <1>4
<1> QED
  BY <1>2, <1>5, <1>6 DEF NIndex

LEMMA SameIndex ==
    ASSUME NEW x \in Places, NEW y \in Places, NCluster(x) = NCluster(y), NElInCluster(x) = NElInCluster(y)
    PROVE  x = y
<1>1. x = NIndex(NCluster(x), NElInCluster(x)) /\ y = NIndex(NCluster(y), NElInCluster(y))
  BY PlaceOf
<1> QED
  BY <1>1

\* The order of the numbers is that of their clusters, and in a cluster that
\* of their places.
LEMMA PlaceOrder ==
    ASSUME NEW x \in Places, NEW y \in Places
    PROVE  /\ NCluster(x) < NCluster(y) => x < y
           /\ NCluster(x) = NCluster(y) => (x < y <=> NElInCluster(x) < NElInCluster(y))
           /\ x <= y => NCluster(x) <= NCluster(y)
           /\ x < y => NCluster(x) < NCluster(y) \/ (NCluster(x) = NCluster(y) /\ NElInCluster(x) < NElInCluster(y))
<1>1. PICK k \in Els, e \in Els : k = NCluster(x) /\ e = NElInCluster(x) /\ x = NIndex(k, e)
  BY PlaceOf
<1>2. PICK j \in Els, f \in Els : j = NCluster(y) /\ f = NElInCluster(y) /\ y = NIndex(j, f)
  BY PlaceOf
<1>3. /\ k < j => NIndex(k, e) < NIndex(j, f)
      /\ k = j => (NIndex(k, e) < NIndex(j, f) <=> e < f)
      /\ NIndex(k, e) <= NIndex(j, f) => k <= j
  BY IndexOrder
<1>4. j < k => NIndex(j, f) < NIndex(k, e)
  BY IndexOrder
<1>5. k \in Nat /\ j \in Nat /\ x \in Nat /\ y \in Nat /\ e \in Nat /\ f \in Nat
  BY Bounds
<1>6. k < j \/ k = j \/ j < k
  BY <1>5
<1>7. /\ k < j => x < y /\ k # j /\ k <= j /\ ~(j < k)
      /\ k = j => (x < y <=> e < f) /\ k <= j
      /\ j < k => y < x /\ ~(x < y) /\ ~(x <= y) /\ ~(k < j)
  BY <1>1, <1>2, <1>3, <1>4, <1>5
<1>8. /\ k < j => x < y
      /\ k = j => (x < y <=> e < f)
      /\ x <= y => k <= j
      /\ x < y => k < j \/ (k = j /\ e < f)
  BY <1>5, <1>6, <1>7
<1> QED
  BY <1>1, <1>2, <1>8, Zenon

-----------------------------------------------------------------------------
(* Clusters and their summary. *)

\* The numbers that the clusters hold, and a summary that names those that
\* are not empty.
In(c, x) == NCluster(x) \in DOMAIN c /\ FHasElementW(c[NCluster(x)], NElInCluster(x))
Held(c) == {x \in Places : In(c, x)}
Names(s, c) == s \in Words /\ \A k \in Els : FHasElementW(s, k) <=> k \in DOMAIN c /\ FHasAnyElements(c[k])
Clusters(n) == [0 .. n -> Words]

LEMMA ClusterNos ==
    ASSUME NEW n \in Els
    PROVE  0 .. n \subseteq Els /\ 0 \in 0 .. n /\ n \in 0 .. n
  BY Ranges DEF Els

LEMMA HeldAt ==
    ASSUME NEW n \in Els, NEW c \in Clusters(n), NEW k \in 0 .. n, NEW e \in Els
    PROVE  FHasElementW(c[k], e) <=> NIndex(k, e) \in Held(c)
<1>1. k \in Els
  BY ClusterNos
<1>2. NIndex(k, e) \in Places /\ NCluster(NIndex(k, e)) = k /\ NElInCluster(NIndex(k, e)) = e
  BY <1>1, IndexOf
<1> QED
  BY <1>2 DEF Held, In, Clusters

LEMMA HeldAnyAt ==
    ASSUME NEW n \in Els, NEW c \in Clusters(n), NEW k \in 0 .. n
    PROVE  FHasAnyElements(c[k]) <=> \E x \in Held(c) : NCluster(x) = k
<1>1. c[k] \in Words
  BY DEF Clusters
<1>2. FHasAnyElements(c[k]) <=> \E e \in Els : FHasElementW(c[k], e)
  BY <1>1, HasAnyIs
<1>3. ASSUME NEW e \in Els, FHasElementW(c[k], e) PROVE \E x \in Held(c) : NCluster(x) = k
  <2>1. NIndex(k, e) \in Held(c)
    BY <1>3, HeldAt
  <2>2. NCluster(NIndex(k, e)) = k
    BY IndexOf, ClusterNos
  <2> QED
    BY <2>1, <2>2
<1>4. ASSUME NEW x \in Held(c), NCluster(x) = k PROVE \E e \in Els : FHasElementW(c[k], e)
  <2>1. x \in Places /\ FHasElementW(c[k], NElInCluster(x))
    BY <1>4 DEF Held, In
  <2> QED
    BY <2>1, PlaceOf
<1> QED
  BY <1>2, <1>3, <1>4

LEMMA NamesHeld ==
    ASSUME NEW n \in Els, NEW c \in Clusters(n), NEW s, Names(s, c)
    PROVE  FHasAnyElements(s) <=> Held(c) # {}
<1>1. s \in Words /\ DOMAIN c = 0 .. n
  BY DEF Names, Clusters
<1>2. FHasAnyElements(s) <=> \E k \in Els : FHasElementW(s, k)
  BY <1>1, HasAnyIs
<1>3. ASSUME NEW k \in Els, FHasElementW(s, k) PROVE Held(c) # {}
  <2>1. k \in 0 .. n /\ FHasAnyElements(c[k])
    BY <1>1, <1>3 DEF Names
  <2> QED
    BY <2>1, HeldAnyAt
<1>4. ASSUME NEW x \in Held(c) PROVE \E k \in Els : FHasElementW(s, k)
  <2>1. NCluster(x) \in 0 .. n
    BY <1>1 DEF Held, In
  <2>2. FHasAnyElements(c[NCluster(x)]) /\ NCluster(x) \in Els
    BY <2>1, HeldAnyAt, ClusterNos
  <2> QED
    BY <2>1, <2>2, <1>1 DEF Names
<1> QED
  BY <1>2, <1>3, <1>4

\* The least, and the greatest, number of the clusters.
LEMMA HeldMin ==
    ASSUME NEW n \in Els, NEW c \in Clusters(n), NEW s, Names(s, c), Held(c) # {}
    PROVE  LET k == NMinW(s)
               x == NIndex(k, NMinW(c[k]))
           IN  /\ k \in 0 .. n /\ NMinW(c[k]) \in Els /\ x \in Held(c) /\ NCluster(x) = k
               /\ \A y \in Held(c) : x <= y
<1> DEFINE k == NMinW(s)
           e == NMinW(c[k])
           x == NIndex(k, e)
<1>1. s \in Words /\ FHasAnyElements(s) /\ DOMAIN c = 0 .. n
  BY NamesHeld DEF Names, Clusters
<1>2. k \in Els /\ FHasElementW(s, k) /\ \A j \in Els : FHasElementW(s, j) => k <= j
  BY <1>1, NMinWIs
<1>3. k \in 0 .. n /\ FHasAnyElements(c[k])
  BY <1>1, <1>2 DEF Names
<1>4. c[k] \in Words
  BY <1>3 DEF Clusters
<1>5. e \in Els /\ FHasElementW(c[k], e) /\ \A f \in Els : FHasElementW(c[k], f) => e <= f
  <2> HIDE DEF k
  <2> QED
    BY <1>3, <1>4, NMinWIs
<1>6. x \in Held(c) /\ NCluster(x) = k /\ NElInCluster(x) = e /\ x \in Places
  <2> HIDE DEF k, e
  <2> QED
    BY <1>2, <1>3, <1>5, HeldAt, IndexOf
<1>7. ASSUME NEW y \in Held(c) PROVE x <= y
  <2>1. /\ y \in Places /\ NCluster(y) \in 0 .. n /\ NCluster(y) \in Els /\ NElInCluster(y) \in Els
        /\ FHasElementW(c[NCluster(y)], NElInCluster(y))
    BY <1>1, PlaceOf DEF Held, In
  <2>2. FHasElementW(s, NCluster(y))
    <3>1. FHasAnyElements(c[NCluster(y)])
      BY <2>1, HeldAnyAt
    <3> QED
      BY <2>1, <1>1, <3>1 DEF Names
  <2>3. k <= NCluster(y) /\ (k = NCluster(y) => e <= NElInCluster(y))
    BY <1>2, <1>5, <2>1, <2>2
  <2>4. /\ NCluster(y) \in Nat /\ NElInCluster(y) \in Nat /\ k \in Nat /\ e \in Nat /\ x \in Nat /\ y \in Nat
    <3> HIDE DEF k, e, x
    <3> QED
      BY <1>2, <1>5, <1>6, <2>1, Bounds
  <2>5. ~(y < x)
    <3>1. y < x => NCluster(y) < NCluster(x) \/ (NCluster(y) = NCluster(x) /\ NElInCluster(y) < NElInCluster(x))
      <4> HIDE DEF x
      <4> QED
        BY <1>6, <2>1, PlaceOrder
    <3> HIDE DEF k, e, x
    <3> QED
      BY <1>6, <2>3, <2>4, <3>1
  <2> HIDE DEF x
  <2> QED
    BY <2>4, <2>5
<1> QED
  BY <1>3, <1>5, <1>6, <1>7

LEMMA HeldMax ==
    ASSUME NEW n \in Els, NEW c \in Clusters(n), NEW s, Names(s, c), Held(c) # {}
    PROVE  LET k == NMaxW(s)
               x == NIndex(k, NMaxW(c[k]))
           IN  /\ k \in 0 .. n /\ NMaxW(c[k]) \in Els /\ x \in Held(c) /\ NCluster(x) = k
               /\ \A y \in Held(c) : y <= x
<1> DEFINE k == NMaxW(s)
           e == NMaxW(c[k])
           x == NIndex(k, e)
<1>1. s \in Words /\ FHasAnyElements(s) /\ DOMAIN c = 0 .. n
  BY NamesHeld DEF Names, Clusters
<1>2. k \in Els /\ FHasElementW(s, k) /\ \A j \in Els : FHasElementW(s, j) => j <= k
  BY <1>1, NMaxWIs
<1>3. k \in 0 .. n /\ FHasAnyElements(c[k])
  BY <1>1, <1>2 DEF Names
<1>4. c[k] \in Words
  BY <1>3 DEF Clusters
<1>5. e \in Els /\ FHasElementW(c[k], e) /\ \A f \in Els : FHasElementW(c[k], f) => f <= e
  <2> HIDE DEF k
  <2> QED
    BY <1>3, <1>4, NMaxWIs
<1>6. x \in Held(c) /\ NCluster(x) = k /\ NElInCluster(x) = e /\ x \in Places
  <2> HIDE DEF k, e
  <2> QED
    BY <1>2, <1>3, <1>5, HeldAt, IndexOf
<1>7. ASSUME NEW y \in Held(c) PROVE y <= x
  <2>1. /\ y \in Places /\ NCluster(y) \in 0 .. n /\ NCluster(y) \in Els /\ NElInCluster(y) \in Els
        /\ FHasElementW(c[NCluster(y)], NElInCluster(y))
    BY <1>1, PlaceOf DEF Held, In
  <2>2. FHasElementW(s, NCluster(y))
    <3>1. FHasAnyElements(c[NCluster(y)])
      BY <2>1, HeldAnyAt
    <3> QED
      BY <2>1, <1>1, <3>1 DEF Names
  <2>3. NCluster(y) <= k /\ (k = NCluster(y) => NElInCluster(y) <= e)
    BY <1>2, <1>5, <2>1, <2>2
  <2>4. /\ NCluster(y) \in Nat /\ NElInCluster(y) \in Nat /\ k \in Nat /\ e \in Nat /\ x \in Nat /\ y \in Nat
    <3> HIDE DEF k, e, x
    <3> QED
      BY <1>2, <1>5, <1>6, <2>1, Bounds
  <2>5. ~(x < y)
    <3>1. x < y => NCluster(x) < NCluster(y) \/ (NCluster(y) = NCluster(x) /\ NElInCluster(x) < NElInCluster(y))
      <4> HIDE DEF x
      <4> QED
        BY <1>6, <2>1, PlaceOrder
    <3> HIDE DEF k, e, x
    <3> QED
      BY <1>6, <2>3, <2>4, <3>1
  <2> HIDE DEF x
  <2> QED
    BY <2>4, <2>5
<1> QED
  BY <1>3, <1>5, <1>6, <1>7

\* One cluster becomes v.
LEMMA HeldSet ==
    ASSUME NEW n \in Els, NEW c \in Clusters(n), NEW k \in 0 .. n, NEW v \in Words
    PROVE  /\ [c EXCEPT ![k] = v] \in Clusters(n)
           /\ \A x \in Places : x \in Held([c EXCEPT ![k] = v]) <=>
                  IF NCluster(x) = k THEN FHasElementW(v, NElInCluster(x)) ELSE x \in Held(c)
  BY DEF Clusters, Held, In

LEMMA NamesAny ==
    ASSUME NEW n \in Els, NEW c \in Clusters(n), NEW s, Names(s, c), NEW k \in 0 .. n, NEW v \in Words,
           FHasAnyElements(v)
    PROVE  /\ Names(InsertW(s, k), [c EXCEPT ![k] = v])
           /\ FHasElementW(s, k) => Names(s, [c EXCEPT ![k] = v])
<1>1. k \in Els /\ DOMAIN c = 0 .. n /\ DOMAIN [c EXCEPT ![k] = v] = 0 .. n
  BY ClusterNos DEF Clusters
<1>2. InsertW(s, k) \in Words /\ \A e \in Els : FHasElementW(InsertW(s, k), e) <=> FHasElementW(s, e) \/ e = k
  BY <1>1, InsertWIs DEF Names
<1>3. \A e \in 0 .. n : [c EXCEPT ![k] = v][e] = IF e = k THEN v ELSE c[e]
  BY <1>1
<1> QED
  BY <1>1, <1>2, <1>3 DEF Names

LEMMA NamesNone ==
    ASSUME NEW n \in Els, NEW c \in Clusters(n), NEW s, Names(s, c), NEW k \in 0 .. n, NEW v \in Words,
           ~FHasAnyElements(v)
    PROVE  Names(DeleteW(s, k), [c EXCEPT ![k] = v])
<1>1. k \in Els /\ DOMAIN c = 0 .. n /\ DOMAIN [c EXCEPT ![k] = v] = 0 .. n
  BY ClusterNos DEF Clusters
<1>2. DeleteW(s, k) \in Words /\ \A e \in Els : FHasElementW(DeleteW(s, k), e) <=> FHasElementW(s, e) /\ e # k
  BY <1>1, DeleteWIs DEF Names
<1>3. \A e \in 0 .. n : [c EXCEPT ![k] = v][e] = IF e = k THEN v ELSE c[e]
  BY <1>1
<1> QED
  BY <1>1, <1>2, <1>3 DEF Names

LEMMA NamesNonEmpty ==
    ASSUME NEW n \in Els, NEW c \in Clusters(n)
    PROVE  Names(WordsOf(NonEmpty(c)), c)
<1>1. WordsOf(NonEmpty(c)) \in Words
      /\ \A e \in Els : FHasElementW(WordsOf(NonEmpty(c)), e) <=> e \in NonEmpty(c)
  BY WordsOfIs
<1> QED
  BY <1>1 DEF Names, NonEmpty

\* A number goes into its cluster, or out of it.
WithNumber(c, x) == [c EXCEPT ![NCluster(x)] = InsertW(@, NElInCluster(x))]
WithoutNumber(c, x) == [c EXCEPT ![NCluster(x)] = DeleteW(@, NElInCluster(x))]

LEMMA ClusterInsert ==
    ASSUME NEW n \in Els, NEW c \in Clusters(n), NEW s, Names(s, c), NEW x \in Places, NCluster(x) \in 0 .. n
    PROVE  /\ WithNumber(c, x) \in Clusters(n)
           /\ Held(WithNumber(c, x)) = Held(c) \cup {x}
           /\ Names(InsertW(s, NCluster(x)), WithNumber(c, x))
<1> DEFINE k == NCluster(x)
           e == NElInCluster(x)
           v == InsertW(c[k], e)
<1>1. k \in Els /\ e \in Els /\ c[k] \in Words /\ WithNumber(c, x) = [c EXCEPT ![k] = v]
  BY PlaceOf DEF Clusters, WithNumber
<1>2. v \in Words /\ \A f \in Els : FHasElementW(v, f) <=> FHasElementW(c[k], f) \/ f = e
  BY <1>1, InsertWIs
<1>3. FHasAnyElements(v)
  BY <1>1, <1>2, HasAnyIs
<1>4. /\ WithNumber(c, x) \in Clusters(n)
      /\ \A y \in Places : y \in Held(WithNumber(c, x)) <=>
             IF NCluster(y) = k THEN FHasElementW(v, NElInCluster(y)) ELSE y \in Held(c)
  <2> HIDE DEF v, e
  <2>1. /\ [c EXCEPT ![k] = v] \in Clusters(n)
        /\ \A y \in Places : y \in Held([c EXCEPT ![k] = v]) <=>
               IF NCluster(y) = k THEN FHasElementW(v, NElInCluster(y)) ELSE y \in Held(c)
    BY <1>2, HeldSet, Zenon
  <2> QED
    BY <1>1, <2>1, Zenon
<1>5. ASSUME NEW y \in Places PROVE y \in Held(WithNumber(c, x)) <=> y \in Held(c) \/ y = x
  <2>1. NCluster(y) = k => (FHasElementW(c[k], NElInCluster(y)) <=> y \in Held(c))
    BY DEF Held, In, Clusters
  <2>2. NElInCluster(y) \in Els /\ (NCluster(y) = k /\ NElInCluster(y) = e <=> y = x)
    BY PlaceOf, SameIndex
  <2> QED
    BY <1>2, <1>4, <2>1, <2>2
<1>6. Held(WithNumber(c, x)) \subseteq Places /\ Held(c) \subseteq Places
  BY DEF Held
<1>7. Held(WithNumber(c, x)) = Held(c) \cup {x}
  BY <1>5, <1>6
<1>8. Names(InsertW(s, k), [c EXCEPT ![k] = v])
  <2> HIDE DEF v
  <2> QED
    BY <1>2, <1>3, NamesAny
<1> QED
  BY <1>1, <1>4, <1>7, <1>8

LEMMA ClusterDelete ==
    ASSUME NEW n \in Els, NEW c \in Clusters(n), NEW s, Names(s, c), NEW x \in Places, NCluster(x) \in 0 .. n
    PROVE  LET v == DeleteW(c[NCluster(x)], NElInCluster(x))
           IN  /\ v \in Words
               /\ WithoutNumber(c, x) \in Clusters(n) /\ WithoutNumber(c, x) = [c EXCEPT ![NCluster(x)] = v]
               /\ Held(WithoutNumber(c, x)) = Held(c) \ {x}
               /\ FHasElementW(c[NCluster(x)], NElInCluster(x)) =>
                     Names(IF FHasAnyElements(v) THEN s ELSE DeleteW(s, NCluster(x)), WithoutNumber(c, x))
<1> DEFINE k == NCluster(x)
           e == NElInCluster(x)
           v == DeleteW(c[k], e)
<1>1. k \in Els /\ e \in Els /\ c[k] \in Words /\ WithoutNumber(c, x) = [c EXCEPT ![k] = v]
  BY PlaceOf DEF Clusters, WithoutNumber
<1>2. v \in Words /\ \A f \in Els : FHasElementW(v, f) <=> FHasElementW(c[k], f) /\ f # e
  BY <1>1, DeleteWIs
<1>4. /\ WithoutNumber(c, x) \in Clusters(n)
      /\ \A y \in Places : y \in Held(WithoutNumber(c, x)) <=>
             IF NCluster(y) = k THEN FHasElementW(v, NElInCluster(y)) ELSE y \in Held(c)
  <2> HIDE DEF v, e
  <2>1. /\ [c EXCEPT ![k] = v] \in Clusters(n)
        /\ \A y \in Places : y \in Held([c EXCEPT ![k] = v]) <=>
               IF NCluster(y) = k THEN FHasElementW(v, NElInCluster(y)) ELSE y \in Held(c)
    BY <1>2, HeldSet, Zenon
  <2> QED
    BY <1>1, <2>1, Zenon
<1>5. ASSUME NEW y \in Places PROVE y \in Held(WithoutNumber(c, x)) <=> y \in Held(c) /\ y # x
  <2>1. NCluster(y) = k => (FHasElementW(c[k], NElInCluster(y)) <=> y \in Held(c))
    BY DEF Held, In, Clusters
  <2>2. NElInCluster(y) \in Els /\ (NCluster(y) = k /\ NElInCluster(y) = e <=> y = x)
    BY PlaceOf, SameIndex
  <2> QED
    BY <1>2, <1>4, <2>1, <2>2
<1>6. Held(WithoutNumber(c, x)) \subseteq Places /\ Held(c) \subseteq Places
  BY DEF Held
<1>7. Held(WithoutNumber(c, x)) = Held(c) \ {x}
  BY <1>5, <1>6
<1>8. ASSUME FHasElementW(c[k], e)
      PROVE  Names(IF FHasAnyElements(v) THEN s ELSE DeleteW(s, k), WithoutNumber(c, x))
  <2>1. FHasElementW(s, k)
    <3>1. FHasAnyElements(c[k])
      BY <1>1, <1>8, HasAnyIs
    <3> QED
      BY <1>1, <3>1 DEF Names, Clusters
  <2> HIDE DEF v
  <2>2. FHasAnyElements(v) => Names(s, [c EXCEPT ![k] = v])
    BY <1>2, <2>1, NamesAny
  <2>3. ~FHasAnyElements(v) => Names(DeleteW(s, k), [c EXCEPT ![k] = v])
    BY <1>2, NamesNone
  <2> QED
    BY <1>1, <2>2, <2>3
<1> QED
  BY <1>1, <1>2, <1>4, <1>7, <1>8

-----------------------------------------------------------------------------
(* What a tree is, and the set it stands for. *)

\* The tree of t's shape with these parts.
Made(t, mn, mx, s, c) ==
    [kind |-> t.kind, last |-> t.last, none |-> t.none, min |-> mn, max |-> mx, sum |-> s, cl |-> c]

IsTree(t) ==
    /\ t = Made(t, t.min, t.max, t.sum, t.cl)
    /\ t.kind \in {"wrap", "fixed"} /\ t.last \in Places /\ (t.kind = "fixed" => t.last = LastOfAll)
    /\ t.none = IF t.kind = "wrap" THEN LastOfAll ELSE LastOfAll + 1
    /\ t.cl \in Clusters(NCluster(t.last)) /\ Names(t.sum, t.cl)

\* Where the minimum and the maximum of S are kept.
Extremes(t, S) ==
    /\ S = {} => t.min = t.none /\ t.max = 0
    /\ S # {} => t.min \in S /\ t.max \in S /\ \A x \in S : t.min <= x /\ x <= t.max

Rep(t, S) == IsTree(t) /\ S \subseteq 0 .. t.last /\ Extremes(t, S) /\ Held(t.cl) = S \ {t.min}

\* A tree made of parts that fit.
LEMMA MadeRep ==
    ASSUME NEW t, IsTree(t), NEW S, S \subseteq 0 .. t.last, NEW mn, NEW mx, NEW s, NEW c,
           c \in Clusters(NCluster(t.last)), Names(s, c), Held(c) = S \ {mn},
           S = {} => mn = t.none /\ mx = 0,
           S # {} => mn \in S /\ mx \in S /\ \A x \in S : mn <= x /\ x <= mx
    PROVE  Rep(Made(t, mn, mx, s, c), S)
<1> DEFINE u == Made(t, mn, mx, s, c)
<1>1. /\ u.kind = t.kind /\ u.last = t.last /\ u.none = t.none /\ u.min = mn /\ u.max = mx
      /\ u.sum = s /\ u.cl = c
  BY DEF Made
<1>2. u = Made(u, u.min, u.max, u.sum, u.cl)
  BY DEF Made
<1>3. IsTree(u)
  <2> HIDE DEF u
  <2> QED
    BY <1>1, <1>2 DEF IsTree
<1>4. Extremes(u, S) /\ Held(u.cl) = S \ {u.min}
  BY <1>1 DEF Extremes
<1> QED
  BY <1>1, <1>3, <1>4 DEF Rep

LEMMA TreeIs ==
    ASSUME NEW t, IsTree(t)
    PROVE  /\ t.last \in Places /\ NCluster(t.last) \in Els
           /\ DOMAIN t.cl = 0 .. NCluster(t.last) /\ t.cl \in Clusters(NCluster(t.last))
           /\ \A x \in 0 .. t.last : x \in Places /\ NCluster(x) \in 0 .. NCluster(t.last)
           /\ t.sum \in Words /\ Names(t.sum, t.cl)
           /\ t.none \in Nat /\ t.none > 0 /\ t.none >= LastOfAll
<1>1. t.last \in Places /\ NCluster(t.last) \in Els
  BY PlaceOf DEF IsTree
<1>2. DOMAIN t.cl = 0 .. NCluster(t.last) /\ t.cl \in Clusters(NCluster(t.last))
  BY DEF IsTree, Clusters
<1>3. ASSUME NEW x \in 0 .. t.last PROVE x \in Places /\ NCluster(x) \in 0 .. NCluster(t.last)
  <2>1. x \in Places /\ x <= t.last
    BY <1>1, Bounds DEF Places
  <2>2. NCluster(x) \in Els /\ NCluster(x) <= NCluster(t.last)
    BY <2>1, <1>1, PlaceOf, PlaceOrder
  <2> QED
    BY <2>1, <2>2, <1>1, Ranges DEF Els
<1>4. t.sum \in Words /\ Names(t.sum, t.cl)
  BY DEF IsTree, Names
<1>5. t.none \in Nat /\ t.none > 0 /\ t.none >= LastOfAll
  BY Bounds DEF IsTree
<1> QED
  BY <1>1, <1>2, <1>3, <1>4, <1>5

LEMMA RepIs ==
    ASSUME NEW t, NEW S, Rep(t, S)
    PROVE  /\ S \subseteq Places /\ S \subseteq Nat
           /\ HasAny(t) <=> S # {}
           /\ HasOne(t) <=> S = {t.min}
           /\ S # {} => /\ t.min \in S /\ t.max \in S /\ \A x \in S : t.min <= x /\ x <= t.max
                        /\ t.min \in Nat /\ t.max \in Nat /\ t.min \in Places /\ t.max \in Places
           /\ S = {} => t.min = t.none /\ t.max = 0
<1>1. S \subseteq Places /\ S \subseteq Nat /\ S \subseteq 0 .. t.last /\ t.none > 0 /\ t.none \in Nat
  BY TreeIs, Bounds DEF Rep
<1>2. S # {} => /\ t.min \in S /\ t.max \in S /\ \A x \in S : t.min <= x /\ x <= t.max
                /\ t.min \in Nat /\ t.max \in Nat /\ t.min \in Places /\ t.max \in Places
  BY <1>1 DEF Rep, Extremes
<1>3. S = {} => t.min = t.none /\ t.max = 0
  BY DEF Rep, Extremes
<1>4. HasAny(t) <=> S # {}
  BY <1>1, <1>2, <1>3 DEF HasAny
<1>5. ASSUME HasOne(t) PROVE S = {t.min}
  <2>1. S # {}
    BY <1>1, <1>3, <1>5 DEF HasOne
  <2>2. ASSUME NEW x \in S PROVE x = t.min
    BY <1>1, <1>2, <1>5, <2>1 DEF HasOne
  <2> QED
    BY <2>1, <2>2, <1>2
<1>6. ASSUME S = {t.min} PROVE HasOne(t)
  BY <1>2, <1>6 DEF HasOne
<1> QED
  BY <1>1, <1>2, <1>3, <1>4, <1>5, <1>6

\* Whether a number is in the tree.
LEMMA RepHas ==
    ASSUME NEW t, NEW S, Rep(t, S), NEW x \in 0 .. t.last
    PROVE  /\ FHasElement(t, x) <=> x \in S
           /\ FHasElementW(t.cl[NCluster(x)], NElInCluster(x)) <=> x \in S /\ x # t.min
<1>1. FHasElementW(t.cl[NCluster(x)], NElInCluster(x)) <=> x \in S /\ x # t.min
  <2>1. x \in Places /\ NCluster(x) \in DOMAIN t.cl /\ Held(t.cl) = S \ {t.min}
    BY TreeIs DEF Rep
  <2> QED
    BY <2>1 DEF Held, In
<1>2. FHasElement(t, x) <=> x \in S
  BY <1>1, RepIs DEF FHasElement
<1> QED
  BY <1>1, <1>2

LEMMA RepMembers ==
    ASSUME NEW t, NEW S, Rep(t, S)
    PROVE  Members(t) = S /\ DOMAIN t.cl # {}
<1>1. DOMAIN t.cl = 0 .. NCluster(t.last) /\ 0 \in DOMAIN t.cl
  BY TreeIs, ClusterNos DEF Rep
<1>2. Members(t) = {x \in 0 .. t.last : FHasElement(t, x)}
  BY <1>1 DEF Members
<1>3. S \subseteq 0 .. t.last /\ \A x \in 0 .. t.last : FHasElement(t, x) <=> x \in S
  BY RepHas DEF Rep
<1> QED
  BY <1>1, <1>2, <1>3

\* What the clusters of a tree that holds S say.
LEMMA RepClusters ==
    ASSUME NEW t, NEW S, Rep(t, S), S \ {t.min} # {}
    PROVE  /\ MinOfClusters(t) \in S \ {t.min} /\ \A x \in S \ {t.min} : MinOfClusters(t) <= x
           /\ MaxOfClusters(t) = t.max /\ t.max # t.min
           /\ FHasAnyElements(t.sum)
<1> DEFINE n == NCluster(t.last)
<1>1. n \in Els /\ t.cl \in Clusters(n) /\ Names(t.sum, t.cl) /\ Held(t.cl) = S \ {t.min}
  BY TreeIs DEF Rep
<1>2. MinOfClusters(t) \in S \ {t.min} /\ \A x \in S \ {t.min} : MinOfClusters(t) <= x
  BY <1>1, HeldMin DEF MinOfClusters
<1>3. MaxOfClusters(t) \in S \ {t.min} /\ \A x \in S \ {t.min} : x <= MaxOfClusters(t)
  BY <1>1, HeldMax DEF MaxOfClusters
<1>4. t.max # t.min
  BY RepIs
<1>5. t.max \in S \ {t.min} /\ MaxOfClusters(t) <= t.max /\ t.max <= MaxOfClusters(t)
      /\ t.max \in Nat /\ MaxOfClusters(t) \in Nat
  BY <1>3, <1>4, RepIs
<1>6. MaxOfClusters(t) = t.max
  BY <1>5
<1>7. FHasAnyElements(t.sum)
  BY <1>1, NamesHeld
<1> QED
  BY <1>2, <1>4, <1>6, <1>7

-----------------------------------------------------------------------------
(* The operations of a tree. *)

\* u is a tree of t's shape, and stands for S.
Stands(u, t, S) == Rep(u, S) /\ u.kind = t.kind /\ u.last = t.last

\* mx is the greatest element of clusters c, or, where they are empty, mn.
Top(c, mn, mx) ==
    /\ Held(c) = {} => mx = mn
    /\ Held(c) # {} => mx \in Held(c) /\ \A x \in Held(c) : x <= mx

LEMMA ItStands ==
    ASSUME NEW t, NEW S, Rep(t, S)
    PROVE  Stands(t, t, S)
  BY DEF Stands

LEMMA MadeStands ==
    ASSUME NEW t, IsTree(t), NEW mn \in 0 .. t.last, NEW mx, NEW s, NEW c,
           c \in Clusters(NCluster(t.last)), Names(s, c), Held(c) \subseteq 0 .. t.last,
           \A x \in Held(c) : mn < x, Top(c, mn, mx)
    PROVE  Stands(Made(t, mn, mx, s, c), t, Held(c) \cup {mn})
<1> DEFINE S == Held(c) \cup {mn}
<1>1. t.last \in Nat /\ \A x \in 0 .. t.last : x \in Nat
  BY TreeIs, Bounds
<1>2. S \subseteq 0 .. t.last /\ S # {} /\ Held(c) = S \ {mn}
  BY <1>1
<1>3. mn \in S /\ mx \in S /\ \A x \in S : mn <= x /\ x <= mx
  BY <1>1, <1>2 DEF Top
<1>4. Rep(Made(t, mn, mx, s, c), S)
  <2> HIDE DEF S
  <2>1. S = {} => mn = t.none /\ mx = 0
    BY <1>2
  <2>2. S # {} => mn \in S /\ mx \in S /\ \A x \in S : mn <= x /\ x <= mx
    BY <1>3
  <2> QED
    BY <1>2, <2>1, <2>2, MadeRep
<1> QED
  BY <1>4 DEF Stands, Made

LEMMA MadeEmpty ==
    ASSUME NEW t, IsTree(t), NEW s, NEW c, c \in Clusters(NCluster(t.last)), Names(s, c), Held(c) = {}
    PROVE  Stands(Made(t, t.none, 0, s, c), t, {})
<1>1. Rep(Made(t, t.none, 0, s, c), {})
  BY MadeRep
<1> QED
  BY <1>1 DEF Stands, Made

LEMMA TopHere ==
    ASSUME NEW n \in Els, NEW c \in Clusters(n), NEW k \in 0 .. n, FHasAnyElements(c[k]),
           \A x \in Held(c) : NCluster(x) <= k, NEW mn
    PROVE  Top(c, mn, NIndex(k, NMaxW(c[k])))
<1> DEFINE m == NMaxW(c[k])
           top == NIndex(k, m)
<1>1. k \in Els /\ c[k] \in Words /\ k \in Nat
  BY ClusterNos, Bounds DEF Clusters
<1>2. m \in Els /\ FHasElementW(c[k], m) /\ \A e \in Els : FHasElementW(c[k], e) => e <= m
  BY <1>1, NMaxWIs
<1> HIDE DEF m
<1>3. top \in Held(c) /\ top \in Places /\ NCluster(top) = k /\ NElInCluster(top) = m
  BY <1>1, <1>2, HeldAt, IndexOf
<1>4. ASSUME NEW x \in Held(c) PROVE x <= top
  <2>1. x \in Places /\ NCluster(x) \in Els /\ NElInCluster(x) \in Els /\ NCluster(x) <= k
    BY PlaceOf DEF Held
  <2>2. NCluster(x) = k => FHasElementW(c[k], NElInCluster(x))
    BY <2>1 DEF Held, In
  <2>3. NCluster(x) = k => NElInCluster(x) <= m
    BY <1>2, <2>1, <2>2
  <2> HIDE DEF top
  <2>4. x \in Nat /\ top \in Nat /\ NCluster(x) \in Nat /\ NElInCluster(x) \in Nat /\ m \in Nat
    BY <1>2, <1>3, <2>1, Bounds
  <2>5. top < x => NCluster(top) < NCluster(x) \/ (NCluster(top) = NCluster(x) /\ NElInCluster(top) < NElInCluster(x))
    BY <1>3, <2>1, PlaceOrder
  <2> QED
    BY <1>1, <1>3, <2>1, <2>3, <2>4, <2>5
<1> HIDE DEF top
<1>5. Top(c, mn, top)
  BY <1>3, <1>4 DEF Top
<1> QED
  BY <1>5 DEF top, m

LEMMA TopNamed ==
    ASSUME NEW n \in Els, NEW c \in Clusters(n), NEW s, Names(s, c), Held(c) # {}, NEW mn
    PROVE  Top(c, mn, NIndex(NMaxW(s), NMaxW(c[NMaxW(s)])))
  BY HeldMax DEF Top

\* A number takes its place.
LEMMA InsertMade ==
    ASSUME NEW t, IsTree(t), HasAny(t), NEW x
    PROVE  LET y == IF x < t.min THEN t.min ELSE x
           IN  Insert(t, x) = Made(t, Min({x, t.min}), Max({y, t.max}),
                                   InsertW(t.sum, NCluster(y)), WithNumber(t.cl, y))
  BY DEF IsTree, Made, Insert, WithNumber

LEMMA InsertEmpty ==
    ASSUME NEW t, IsTree(t), ~HasAny(t), NEW x
    PROVE  Insert(t, x) = Made(t, x, x, t.sum, t.cl)
  BY DEF IsTree, Made, Insert

LEMMA InsertStands ==
    ASSUME NEW t, NEW S, Rep(t, S), NEW x \in 0 .. t.last, x \notin S
    PROVE  Stands(Insert(t, x), t, S \cup {x})
<1> DEFINE y == IF x < t.min THEN t.min ELSE x
           mn == IF x < t.min THEN x ELSE t.min
           mx == IF y > t.max THEN y ELSE t.max
           c == WithNumber(t.cl, y)
           s == InsertW(t.sum, NCluster(y))
           n == NCluster(t.last)
<1>1. /\ IsTree(t) /\ n \in Els /\ t.cl \in Clusters(n) /\ Names(t.sum, t.cl) /\ S \subseteq 0 .. t.last
      /\ Held(t.cl) = S \ {t.min} /\ t.last \in Nat /\ x \in Nat
  BY TreeIs, Bounds DEF Rep
<1>2. CASE S = {}
  <2>1. Insert(t, x) = Made(t, x, x, t.sum, t.cl) /\ Held(t.cl) = {}
    BY <1>1, <1>2, RepIs, InsertEmpty
  <2>2. Top(t.cl, x, x)
    BY <2>1 DEF Top
  <2>3. Stands(Made(t, x, x, t.sum, t.cl), t, Held(t.cl) \cup {x})
    BY <1>1, <2>1, <2>2, MadeStands
  <2> QED
    BY <1>2, <2>1, <2>3
<1>3. CASE S # {}
  <2>1. /\ HasAny(t) /\ t.min \in S /\ t.max \in S /\ t.min \in Nat /\ t.max \in Nat
        /\ \A z \in S : t.min <= z /\ z <= t.max
    BY <1>3, RepIs
  <2>2. Min({x, t.min}) = mn
    <3>1. {x, t.min} \subseteq Nat /\ mn \in {x, t.min} /\ \A z \in {x, t.min} : mn <= z
      BY <1>1, <2>1
    <3> QED
      BY <3>1, IsMin
  <2>3. y \in 0 .. t.last /\ mn \in 0 .. t.last /\ y \in Nat /\ mn \in Nat /\ y >= t.min /\ y > mn
    BY <1>1, <2>1
  <2>4. Max({y, t.max}) = mx
    <3>1. {y, t.max} \subseteq 0 .. t.last /\ mx \in {y, t.max} /\ \A z \in {y, t.max} : z <= mx
      BY <1>1, <2>1, <2>3
    <3> QED
      BY <1>1, <3>1, IsMax
  <2>5. Insert(t, x) = Made(t, mn, mx, s, c)
    BY <1>1, <2>1, <2>2, <2>4, InsertMade
  <2>6. y \in Places /\ NCluster(y) \in 0 .. n
    BY <1>1, <2>3, TreeIs
  <2>7. c \in Clusters(n) /\ Held(c) = Held(t.cl) \cup {y} /\ Names(s, c)
    <3> HIDE DEF y
    <3> QED
      BY <1>1, <2>6, ClusterInsert
  <2>8. ASSUME NEW z \in Held(c) PROVE z \in 0 .. t.last /\ mn < z /\ z <= mx
    <3>1. z = y \/ (z \in S /\ z # t.min)
      <4> HIDE DEF c
      <4> QED
        BY <1>1, <2>7
    <3>2. z \in 0 .. t.last /\ z \in Nat
      <4> HIDE DEF y, mn, c
      <4>1. z \in 0 .. t.last
        BY <1>1, <2>3, <3>1
      <4> QED
        BY <4>1, <1>1, SMT
    <3>3. z # y => t.min < z /\ z <= t.max
      BY <2>1, <3>1, <3>2
    <3> QED
      BY <1>1, <2>1, <2>3, <3>1, <3>2, <3>3
  <2>9. mx \in Held(c)
    <3>1. CASE y > t.max
      <4> HIDE DEF c
      <4> QED
        BY <2>7, <3>1
    <3>2. CASE t.max = t.min /\ ~(y > t.max)
      <4>1. y = t.max /\ mx = y
        BY <2>1, <2>3, <3>2
      <4> HIDE DEF c, mx, y
      <4> QED
        BY <2>7, <4>1
    <3>3. CASE t.max # t.min /\ ~(y > t.max)
      <4> HIDE DEF c
      <4> QED
        BY <1>1, <2>1, <2>7, <3>3
    <3> QED
      BY <3>1, <3>2, <3>3
  <2>10. Top(c, mn, mx) /\ Held(c) \subseteq 0 .. t.last /\ \A z \in Held(c) : mn < z
    BY <2>8, <2>9 DEF Top
  <2>11. Stands(Made(t, mn, mx, s, c), t, Held(c) \cup {mn})
    <3> HIDE DEF c, s, mn, mx
    <3> QED
      BY <1>1, <2>3, <2>7, <2>10, MadeStands
  <2>12. Held(c) \cup {mn} = S \cup {x}
    BY <1>1, <2>1, <2>7
  <2> QED
    BY <2>5, <2>11, <2>12
<1> QED
  BY <1>2, <1>3

LEMMA EmptiedIs ==
    ASSUME NEW t, IsTree(t)
    PROVE  SetEmptyMinMax(t) = Made(t, t.none, 0, t.sum, t.cl)
<1>1. SUFFICES ASSUME NEW u, u = SetEmptyMinMax(t)
               PROVE  u = Made(t, t.none, 0, t.sum, t.cl)
  OBVIOUS
<1> QED
  BY <1>1 DEF IsTree, Made, SetEmptyMinMax

\* A tree of one element is emptied.
LEMMA EmptiedStands ==
    ASSUME NEW t, IsTree(t), Held(t.cl) = {}
    PROVE  Stands(SetEmptyMinMax(t), t, {})
<1>1. Stands(Made(t, t.none, 0, t.sum, t.cl), t, {})
  BY TreeIs, MadeEmpty
<1> QED
  BY <1>1, EmptiedIs

LEMMA ClearMade ==
    ASSUME NEW t, IsTree(t), HasAny(t), ~HasOne(t)
    PROVE  ClearTree(t) = Made(t, t.none, 0, ZeroWords, [k \in DOMAIN t.cl |-> ZeroWords])
<1>1. SUFFICES ASSUME NEW u, u = ClearTree(t)
               PROVE  u = Made(t, t.none, 0, ZeroWords, [k \in DOMAIN t.cl |-> ZeroWords])
  OBVIOUS
<1> QED
  BY <1>1 DEF IsTree, Made, SetEmptyMinMax, ClearTree

LEMMA NoClusters ==
    ASSUME NEW n \in Els
    PROVE  LET c == [k \in 0 .. n |-> ZeroWords]
           IN  c \in Clusters(n) /\ Names(ZeroWords, c) /\ Held(c) = {}
<1> DEFINE c == [k \in 0 .. n |-> ZeroWords]
<1>1. c \in Clusters(n)
  BY ZeroWordsIs DEF Clusters
<1>2. Names(ZeroWords, c)
  BY ZeroWordsIs DEF Names
<1>3. ASSUME NEW x \in Places PROVE ~In(c, x)
  <2>1. NElInCluster(x) \in Els
    BY PlaceOf
  <2> QED
    BY <2>1, ZeroWordsIs DEF In
<1> QED
  BY <1>1, <1>2, <1>3 DEF Held

LEMMA ClearStands ==
    ASSUME NEW t, NEW S, Rep(t, S)
    PROVE  Stands(ClearTree(t), t, {})
<1>1. CASE S = {}
  BY <1>1, RepIs, ItStands DEF ClearTree
<1>2. CASE S # {} /\ HasOne(t)
  <2>1. ClearTree(t) = SetEmptyMinMax(t) /\ Held(t.cl) = {} /\ IsTree(t)
    BY <1>2, RepIs DEF ClearTree, Rep
  <2> QED
    BY <2>1, EmptiedStands
<1>3. CASE S # {} /\ ~HasOne(t)
  <2> DEFINE c == [k \in DOMAIN t.cl |-> ZeroWords]
  <2>1. IsTree(t) /\ ClearTree(t) = Made(t, t.none, 0, ZeroWords, c)
    BY <1>3, RepIs, ClearMade DEF Rep
  <2>2. c \in Clusters(NCluster(t.last)) /\ Names(ZeroWords, c) /\ Held(c) = {}
    BY <2>1, TreeIs, NoClusters
  <2> HIDE DEF c
  <2> QED
    BY <2>1, <2>2, MadeEmpty
<1> QED
  BY <1>1, <1>2, <1>3

LEMMA TakeOutMade ==
    ASSUME NEW t, IsTree(t), NEW y
    PROVE  LET k == NCluster(y)
               v == DeleteW(t.cl[k], NElInCluster(y))
           IN  TakeOut(t, y) = Made(t, t.min, t.max, IF FHasAnyElements(v) THEN t.sum ELSE DeleteW(t.sum, k),
                                    WithoutNumber(t.cl, y))
<1>1. SUFFICES ASSUME NEW u, u = TakeOut(t, y)
               PROVE  u = Made(t, t.min, t.max,
                               IF FHasAnyElements(DeleteW(t.cl[NCluster(y)], NElInCluster(y))) THEN t.sum
                               ELSE DeleteW(t.sum, NCluster(y)), WithoutNumber(t.cl, y))
  OBVIOUS
<1> QED
  BY <1>1 DEF IsTree, Made, TakeOut, WithoutNumber

LEMMA WithMaxMade ==
    ASSUME NEW t, NEW mn, NEW mx, NEW s, NEW c, NEW y, y = mx
    PROVE  LET k == NCluster(y)
               max == CASE FHasAnyElements(c[k]) -> NIndex(k, NMaxW(c[k]))
                        [] ~FHasAnyElements(c[k]) /\ ~FHasAnyElements(s) -> mn
                        [] OTHER -> NIndex(NMaxW(s), NMaxW(c[NMaxW(s)]))
           IN  WithMaxFor(Made(t, mn, mx, s, c), y) = Made(t, mn, max, s, c)
<1> DEFINE k == NCluster(y)
           max == CASE FHasAnyElements(c[k]) -> NIndex(k, NMaxW(c[k]))
                    [] ~FHasAnyElements(c[k]) /\ ~FHasAnyElements(s) -> mn
                    [] OTHER -> NIndex(NMaxW(s), NMaxW(c[NMaxW(s)]))
           r == Made(t, mn, mx, s, c)
<1>1. r.min = mn /\ r.max = mx /\ r.sum = s /\ r.cl = c /\ r = Made(t, mn, mx, s, c)
  BY DEF Made
<1> HIDE DEF r
<1>2. WithMaxFor(r, y) = [r EXCEPT !.max = max]
  BY <1>1, Zenon DEF WithMaxFor, MaxOfClusters
<1>3. [r EXCEPT !.max = max] = Made(t, mn, max, s, c)
  <2>1. SUFFICES ASSUME NEW u, u = [r EXCEPT !.max = max] PROVE u = Made(t, mn, max, s, c)
    OBVIOUS
  <2> HIDE DEF max
  <2> QED
    BY <1>1, <2>1 DEF Made
<1> QED
  BY <1>2, <1>3 DEF r

LEMMA WithMaxKept ==
    ASSUME NEW t, NEW mn, NEW mx, NEW s, NEW c, NEW y, y # mx
    PROVE  WithMaxFor(Made(t, mn, mx, s, c), y) = Made(t, mn, mx, s, c)
<1> DEFINE r == Made(t, mn, mx, s, c)
<1>1. r.max = mx /\ r = Made(t, mn, mx, s, c)
  BY DEF Made
<1>2. SUFFICES ASSUME NEW u, u = WithMaxFor(r, y) PROVE u = r
  BY <1>1
<1> QED
  BY <1>1, <1>2 DEF WithMaxFor, Made

LEMMA DeleteMade ==
    ASSUME NEW t, IsTree(t), ~HasOne(t), NEW x
    PROVE  LET y == IF x = t.min THEN MinOfClusters(t) ELSE x
               v == DeleteW(t.cl[NCluster(y)], NElInCluster(y))
           IN  Delete(t, x) = WithMaxFor(Made(t, IF x = t.min THEN y ELSE t.min, t.max,
                                              IF FHasAnyElements(v) THEN t.sum ELSE DeleteW(t.sum, NCluster(y)),
                                              WithoutNumber(t.cl, y)), y)
<1> DEFINE y == IF x = t.min THEN MinOfClusters(t) ELSE x
           v == DeleteW(t.cl[NCluster(y)], NElInCluster(y))
           out == TakeOut(t, y)
           mn == IF x = t.min THEN y ELSE t.min
           s == IF FHasAnyElements(v) THEN t.sum ELSE DeleteW(t.sum, NCluster(y))
           c == WithoutNumber(t.cl, y)
<1>1. out = Made(t, t.min, t.max, s, c)
  <2> HIDE DEF y
  <2> QED
    BY TakeOutMade
<1>2. [out EXCEPT !.min = IF x = @ THEN y ELSE @] = Made(t, mn, t.max, s, c)
  <2>1. SUFFICES ASSUME NEW u, u = [out EXCEPT !.min = IF x = @ THEN y ELSE @] PROVE u = Made(t, mn, t.max, s, c)
    OBVIOUS
  <2> HIDE DEF y, out, s, c
  <2> QED
    BY <1>1, <2>1 DEF Made
<1>3. Delete(t, x) = WithMaxFor([out EXCEPT !.min = IF x = @ THEN y ELSE @], y)
  BY Zenon DEF Delete
<1>4. Delete(t, x) = WithMaxFor(Made(t, mn, t.max, s, c), y)
  <2> HIDE DEF mn, y, out, s, c
  <2> QED
    BY <1>2, <1>3, Zenon
<1> QED
  BY <1>4

LEMMA WithMaxTop ==
    ASSUME NEW t, IsTree(t), NEW mn, NEW s, NEW c, c \in Clusters(NCluster(t.last)), Names(s, c),
           NEW y \in 0 .. t.last, \A x \in Held(c) : x <= y
    PROVE  \E mx : WithMaxFor(Made(t, mn, y, s, c), y) = Made(t, mn, mx, s, c) /\ Top(c, mn, mx)
<1> DEFINE n == NCluster(t.last)
           k == NCluster(y)
           mx == CASE FHasAnyElements(c[k]) -> NIndex(k, NMaxW(c[k]))
                   [] ~FHasAnyElements(c[k]) /\ ~FHasAnyElements(s) -> mn
                   [] OTHER -> NIndex(NMaxW(s), NMaxW(c[NMaxW(s)]))
<1>1. n \in Els /\ k \in 0 .. n /\ y \in Places
  BY TreeIs
<1>2. WithMaxFor(Made(t, mn, y, s, c), y) = Made(t, mn, mx, s, c)
  BY WithMaxMade
<1>3. CASE FHasAnyElements(c[k])
  <2>1. mx = NIndex(k, NMaxW(c[k]))
    BY <1>3
  <2>2. ASSUME NEW x \in Held(c) PROVE NCluster(x) <= k
    BY <1>1, PlaceOrder DEF Held
  <2> HIDE DEF k, n
  <2>3. Top(c, mn, NIndex(k, NMaxW(c[k])))
    BY <1>1, <1>3, <2>2, TopHere DEF n
  <2> HIDE DEF mx
  <2> QED
    BY <1>2, <2>1, <2>3
<1>4. CASE ~FHasAnyElements(c[k]) /\ ~FHasAnyElements(s)
  <2>1. mx = mn
    BY <1>4, Zenon
  <2>2. Held(c) = {}
    BY <1>1, <1>4, NamesHeld
  <2> HIDE DEF mx
  <2>3. Top(c, mn, mx)
    BY <2>1, <2>2 DEF Top
  <2> QED
    BY <1>2, <2>3
<1>5. CASE ~FHasAnyElements(c[k]) /\ FHasAnyElements(s)
  <2>1. mx = NIndex(NMaxW(s), NMaxW(c[NMaxW(s)]))
    BY <1>5, Zenon
  <2>2. Held(c) # {}
    BY <1>1, <1>5, NamesHeld
  <2>3. Top(c, mn, NIndex(NMaxW(s), NMaxW(c[NMaxW(s)])))
    BY <1>1, <2>2, TopNamed
  <2> HIDE DEF mx
  <2> QED
    BY <1>2, <2>1, <2>3
<1> QED
  BY <1>3, <1>4, <1>5

LEMMA DeleteStands ==
    ASSUME NEW t, NEW S, Rep(t, S), NEW x \in S
    PROVE  Stands(Delete(t, x), t, S \ {x})
<1>1. CASE HasOne(t)
  <2>1. Delete(t, x) = SetEmptyMinMax(t)
    BY <1>1 DEF Delete
  <2>2. IsTree(t) /\ S = {t.min} /\ Held(t.cl) = {} /\ S \ {x} = {}
    BY <1>1, RepIs DEF Rep
  <2> QED
    BY <2>1, <2>2, EmptiedStands
<1>2. CASE ~HasOne(t)
  <2> DEFINE n == NCluster(t.last)
             y == IF x = t.min THEN MinOfClusters(t) ELSE x
             k == NCluster(y)
             v == DeleteW(t.cl[k], NElInCluster(y))
             mn == IF x = t.min THEN y ELSE t.min
             s == IF FHasAnyElements(v) THEN t.sum ELSE DeleteW(t.sum, k)
             c == WithoutNumber(t.cl, y)
  <2>1. /\ IsTree(t) /\ n \in Els /\ t.cl \in Clusters(n) /\ Names(t.sum, t.cl) /\ S \subseteq 0 .. t.last
        /\ Held(t.cl) = S \ {t.min} /\ t.last \in Nat
    BY TreeIs, Bounds DEF Rep
  <2>2. /\ t.min \in S /\ t.max \in S /\ t.min \in Nat /\ t.max \in Nat
        /\ \A z \in S : t.min <= z /\ z <= t.max
        /\ S \ {t.min} # {} /\ \A z \in S : z \in Nat
    BY <1>2, RepIs
  <2>3. y \in S \ {t.min} /\ (x = t.min => \A z \in S \ {t.min} : y <= z) /\ t.max # t.min
    BY <2>2, RepClusters
  <2>4. y \in 0 .. t.last /\ y \in Places /\ k \in 0 .. n /\ FHasElementW(t.cl[k], NElInCluster(y))
    <3> HIDE DEF y
    <3>1. y \in 0 .. t.last
      BY <2>1, <2>3
    <3> QED
      BY <2>1, <2>3, <3>1, TreeIs, RepHas
  <2>5. c \in Clusters(n) /\ Held(c) = Held(t.cl) \ {y} /\ Names(s, c)
    <3> HIDE DEF y
    <3> QED
      BY <2>1, <2>4, ClusterDelete
  <2> HIDE DEF c, s
  <2>6. mn \in 0 .. t.last /\ Held(c) \cup {mn} = S \ {x} /\ Held(c) \subseteq 0 .. t.last
    BY <2>1, <2>2, <2>3, <2>4, <2>5
  <2>7. ASSUME NEW z \in Held(c) PROVE mn < z
    <3>1. z \in S /\ z # t.min /\ z # y
      <4> HIDE DEF y
      <4> QED
        BY <2>1, <2>5
    <3>2. z \in Nat /\ t.min <= z /\ y \in Nat /\ (x = t.min => y <= z)
      <4> HIDE DEF y
      <4> QED
        BY <2>2, <2>3, <3>1
    <3> HIDE DEF y
    <3> QED
      BY <2>2, <3>1, <3>2
  <2>8. Delete(t, x) = WithMaxFor(Made(t, mn, t.max, s, c), y)
    BY <1>2, <2>1, DeleteMade DEF c, s
  <2>9. \E mx : Delete(t, x) = Made(t, mn, mx, s, c) /\ Top(c, mn, mx)
    <3>1. CASE y = t.max
      <4>1. \A z \in Held(c) : z <= y
        BY <2>2, <2>5, <2>1, <3>1
      <4> HIDE DEF y, n, mn
      <4>2. \E mx : WithMaxFor(Made(t, mn, y, s, c), y) = Made(t, mn, mx, s, c) /\ Top(c, mn, mx)
        BY <2>1, <2>4, <2>5, <4>1, WithMaxTop DEF n
      <4> QED
        BY <2>8, <3>1, <4>2, Zenon
    <3>2. CASE y # t.max
      <4>1. t.max \in Held(c) /\ \A z \in Held(c) : z <= t.max
        BY <2>1, <2>2, <2>3, <2>5, <3>2
      <4>2. Top(c, mn, t.max)
        BY <4>1 DEF Top
      <4>3. Delete(t, x) = Made(t, mn, t.max, s, c)
        <5> HIDE DEF y, mn
        <5> QED
          BY <2>8, <3>2, WithMaxKept
      <4> QED
        BY <4>2, <4>3
    <3> QED
      BY <3>1, <3>2
  <2>10. PICK mx : Delete(t, x) = Made(t, mn, mx, s, c) /\ Top(c, mn, mx)
    BY <2>9
  <2> HIDE DEF y, mn, n
  <2>11. Stands(Made(t, mn, mx, s, c), t, Held(c) \cup {mn})
    BY <2>1, <2>5, <2>6, <2>7, <2>10, MadeStands DEF n
  <2> QED
    BY <2>6, <2>10, <2>11
<1> QED
  BY <1>1, <1>2

-----------------------------------------------------------------------------
(* What the searches find. *)

\* y is the next element of S after, before x.
IsNext(S, x, y) == y \in S /\ x < y /\ \A z \in S : x < z => y <= z
IsPrev(S, x, y) == y \in S /\ y < x /\ \A z \in S : z < x => z <= y

\* What is greater than x, which the minimum is not, is in the clusters.
LEMMA AboveHere ==
    ASSUME NEW t, IsTree(t), NEW x \in 0 .. t.last, HasAbove(t, x)
    PROVE  LET k == NCluster(x)
               s == NSuccessorW(t.cl[k], NElInCluster(x))
           IN  /\ k \in 0 .. NCluster(t.last) /\ s \in Els /\ s # NoSuccessorW
               /\ FHasElementW(t.cl[k], s) /\ IsNext(Held(t.cl), x, NIndex(k, s))
<1> DEFINE n == NCluster(t.last)
           k == NCluster(x)
           e == NElInCluster(x)
           s == NSuccessorW(t.cl[k], e)
           y == NIndex(k, s)
<1>1. /\ n \in Els /\ t.cl \in Clusters(n) /\ k \in 0 .. n /\ x \in Places /\ k \in Els /\ e \in Els
      /\ t.cl[k] \in Words /\ x \in Nat /\ k \in Nat /\ e \in Nat
  <2>1. n \in Els /\ t.cl \in Clusters(n) /\ k \in 0 .. n /\ x \in Places
    BY TreeIs
  <2> QED
    BY <2>1, PlaceOf, Bounds DEF Clusters
<1>2. FHasAnyElements(t.cl[k]) /\ e < NMaxW(t.cl[k])
  BY DEF HasAbove
<1>3. NMaxW(t.cl[k]) \in Els /\ FHasElementW(t.cl[k], NMaxW(t.cl[k]))
  BY <1>1, <1>2, NMaxWIs
<1>4. \A f \in Els : f \in Nat
  BY Bounds
<1>5. s \in Els /\ FHasElementW(t.cl[k], s) /\ e < s /\ \A f \in Els : FHasElementW(t.cl[k], f) /\ e < f => s <= f
  <2> HIDE DEF k, e
  <2>1. \/ s = 0 /\ \A f \in Els : FHasElementW(t.cl[k], f) => f <= e
        \/ /\ s \in Els /\ FHasElementW(t.cl[k], s) /\ e < s
           /\ \A f \in Els : FHasElementW(t.cl[k], f) /\ e < f => s <= f
    BY <1>1, NSuccessorWIs
  <2>2. ~(NMaxW(t.cl[k]) <= e)
    BY <1>1, <1>2, <1>3, <1>4
  <2> QED
    BY <1>3, <2>1, <2>2
<1> HIDE DEF s
<1>6. y \in Held(t.cl) /\ y \in Places /\ NCluster(y) = k /\ NElInCluster(y) = s /\ y \in Nat
  BY <1>1, <1>5, HeldAt, IndexOf, Bounds
<1>7. x < y
  BY <1>1, <1>5, <1>6, PlaceOrder
<1>8. ASSUME NEW z \in Held(t.cl), x < z PROVE y <= z
  <2>1. z \in Places /\ NCluster(z) \in Els /\ NElInCluster(z) \in Els /\ z \in Nat
    BY PlaceOf, Bounds DEF Held
  <2>2. NCluster(z) = k => FHasElementW(t.cl[k], NElInCluster(z))
    BY DEF Held, In
  <2>3. k < NCluster(z) \/ (k = NCluster(z) /\ e < NElInCluster(z))
    BY <1>1, <1>8, <2>1, PlaceOrder
  <2>4. CASE k < NCluster(z)
    <3>1. y < z
      BY <1>6, <2>1, <2>4, PlaceOrder
    <3> QED
      BY <1>6, <2>1, <3>1
  <2>5. CASE k = NCluster(z) /\ e < NElInCluster(z)
    <3>1. s <= NElInCluster(z)
      BY <1>5, <2>1, <2>2, <2>5
    <3>2. ~(z < y)
      <4>1. z < y => NElInCluster(z) < s
        <5> HIDE DEF y, k
        <5> QED
          BY <1>6, <2>1, <2>5, PlaceOrder
      <4> QED
        BY <1>4, <1>5, <2>1, <3>1, <4>1
    <3> HIDE DEF y
    <3> QED
      BY <1>6, <2>1, <3>2
  <2> QED
    BY <2>3, <2>4, <2>5
<1>9. s # 0
  BY <1>1, <1>4, <1>5
<1> HIDE DEF k, e
<1>10. IsNext(Held(t.cl), x, y)
  BY <1>6, <1>7, <1>8 DEF IsNext
<1> QED
  BY <1>1, <1>5, <1>9, <1>10 DEF s, k, e, NoSuccessorW

LEMMA AboveThere ==
    ASSUME NEW t, IsTree(t), NEW x \in 0 .. t.last, ~HasAbove(t, x)
    PROVE  LET k == NSuccessorW(t.sum, NCluster(x))
               s == NMinW(t.cl[k])
           IN  /\ k = NoSuccessorW => \A z \in Held(t.cl) : z <= x
               /\ k # NoSuccessorW =>
                     /\ k \in 0 .. NCluster(t.last) /\ s \in Els
                     /\ FHasElementW(t.cl[k], s) /\ IsNext(Held(t.cl), x, NIndex(k, s))
<1> DEFINE n == NCluster(t.last)
           j == NCluster(x)
           e == NElInCluster(x)
           k == NSuccessorW(t.sum, j)
           s == NMinW(t.cl[k])
           y == NIndex(k, s)
<1>1. /\ n \in Els /\ t.cl \in Clusters(n) /\ j \in 0 .. n /\ x \in Places /\ j \in Els /\ e \in Els
      /\ t.cl[j] \in Words /\ x \in Nat /\ j \in Nat /\ e \in Nat /\ Names(t.sum, t.cl)
  <2>1. n \in Els /\ t.cl \in Clusters(n) /\ j \in 0 .. n /\ x \in Places /\ Names(t.sum, t.cl)
    BY TreeIs
  <2> QED
    BY <2>1, PlaceOf, Bounds DEF Clusters
<1>2. ASSUME NEW z \in Held(t.cl)
      PROVE  /\ z \in Places /\ NCluster(z) \in Els /\ NElInCluster(z) \in Els /\ z \in Nat
             /\ NCluster(z) \in Nat /\ NElInCluster(z) \in Nat /\ NCluster(z) \in 0 .. n
             /\ FHasElementW(t.cl[NCluster(z)], NElInCluster(z))
             /\ FHasElementW(t.sum, NCluster(z))
  <2>1. z \in Places /\ NCluster(z) \in Els /\ NElInCluster(z) \in Els /\ z \in Nat
        /\ NCluster(z) \in Nat /\ NElInCluster(z) \in Nat
    BY PlaceOf, Bounds DEF Held
  <2>2. NCluster(z) \in 0 .. n /\ FHasElementW(t.cl[NCluster(z)], NElInCluster(z)) /\ NCluster(z) \in DOMAIN t.cl
    BY <1>1 DEF Held, In, Clusters
  <2>3. FHasAnyElements(t.cl[NCluster(z)])
    BY <1>1, <2>1, <2>2, HasAnyIs DEF Clusters
  <2> QED
    BY <1>1, <2>1, <2>2, <2>3 DEF Names
<1>3. ASSUME NEW z \in Held(t.cl), NCluster(z) <= j PROVE z <= x
  <2>1. NCluster(z) = j => NElInCluster(z) <= e
    <3>1. SUFFICES ASSUME NCluster(z) = j PROVE NElInCluster(z) <= e
      OBVIOUS
    <3>2. FHasAnyElements(t.cl[j])
      BY <1>1, <1>2, <3>1, HasAnyIs
    <3>3. NMaxW(t.cl[j]) \in Nat /\ NElInCluster(z) <= NMaxW(t.cl[j])
      BY <1>1, <1>2, <3>1, <3>2, NMaxWIs, Bounds
    <3> QED
      BY <1>1, <1>2, <3>2, <3>3 DEF HasAbove
  <2>2. x < z => j < NCluster(z) \/ (j = NCluster(z) /\ e < NElInCluster(z))
    BY <1>1, <1>2, PlaceOrder
  <2> QED
    BY <1>1, <1>2, <1>3, <2>1, <2>2
<1>4. \/ k = 0 /\ \A f \in Els : FHasElementW(t.sum, f) => f <= j
      \/ /\ k \in Els /\ FHasElementW(t.sum, k) /\ j < k
         /\ \A f \in Els : FHasElementW(t.sum, f) /\ j < f => k <= f
  <2>1. t.sum \in Words
    BY <1>1 DEF Names
  <2> HIDE DEF j
  <2> QED
    BY <1>1, <2>1, NSuccessorWIs
<1> HIDE DEF k
<1>5. CASE k = 0
  <2>1. ASSUME NEW z \in Held(t.cl) PROVE z <= x
    <3>1. NCluster(z) <= j
      BY <1>1, <1>2, <1>4, <1>5
    <3> QED
      BY <1>3, <3>1
  <2> QED
    BY <1>5, <2>1 DEF k, NoSuccessorW
<1>6. CASE k # 0
  <2>1. k \in Els /\ k \in Nat /\ FHasElementW(t.sum, k) /\ j < k
        /\ \A f \in Els : FHasElementW(t.sum, f) /\ j < f => k <= f
    BY <1>4, <1>6, Bounds
  <2>2. k \in 0 .. n /\ t.cl[k] \in Words /\ FHasAnyElements(t.cl[k])
    BY <1>1, <2>1 DEF Names, Clusters
  <2>3. s \in Els /\ FHasElementW(t.cl[k], s) /\ \A f \in Els : FHasElementW(t.cl[k], f) => s <= f
    BY <2>2, NMinWIs
  <2> HIDE DEF s
  <2>4. y \in Held(t.cl) /\ y \in Places /\ NCluster(y) = k /\ NElInCluster(y) = s /\ y \in Nat /\ s \in Nat
    BY <1>1, <2>1, <2>2, <2>3, HeldAt, IndexOf, Bounds
  <2>5. x < y
    BY <1>1, <2>1, <2>4, PlaceOrder
  <2>6. ASSUME NEW z \in Held(t.cl), x < z PROVE y <= z
    <3>1. k <= NCluster(z)
      <4>1. j < NCluster(z)
        BY <1>1, <1>2, <1>3, <2>6
      <4> QED
        BY <1>2, <2>1, <4>1
    <3>2. NCluster(z) = k => s <= NElInCluster(z)
      BY <1>2, <2>3
    <3>3. z < y => NCluster(z) < NCluster(y) \/ (NCluster(z) = NCluster(y) /\ NElInCluster(z) < NElInCluster(y))
      <4> HIDE DEF y
      <4> QED
        BY <1>2, <2>4, PlaceOrder
    <3>4. NCluster(z) \in Nat /\ NElInCluster(z) \in Nat /\ z \in Nat
      BY <1>2
    <3> HIDE DEF y
    <3>5. k \in Nat /\ s \in Nat /\ NCluster(y) = k /\ NElInCluster(y) = s /\ y \in Nat
      BY <2>1, <2>4
    <3>6. ~(z < y)
      BY ONLY <3>1, <3>2, <3>3, <3>4, <3>5
    <3> QED
      BY ONLY <3>4, <3>5, <3>6
  <2>7. IsNext(Held(t.cl), x, y)
    BY <2>4, <2>5, <2>6 DEF IsNext
  <2> QED
    BY <1>6, <2>2, <2>3, <2>7 DEF k, s, NoSuccessorW
<1> QED
  BY <1>5, <1>6

\* What is less than x, and in the clusters.
LEMMA BelowHere ==
    ASSUME NEW t, IsTree(t), NEW x \in 0 .. t.last, HasBelow(t, x)
    PROVE  LET k == NCluster(x)
               p == NPredecessorW(t.cl[k], NElInCluster(x))
           IN  /\ k \in 0 .. NCluster(t.last) /\ p \in Els /\ p # NoPredecessorW
               /\ FHasElementW(t.cl[k], p) /\ IsPrev(Held(t.cl), x, NIndex(k, p))
<1> DEFINE n == NCluster(t.last)
           k == NCluster(x)
           e == NElInCluster(x)
           p == NPredecessorW(t.cl[k], e)
           y == NIndex(k, p)
<1>1. /\ n \in Els /\ t.cl \in Clusters(n) /\ k \in 0 .. n /\ x \in Places /\ k \in Els /\ e \in Els
      /\ t.cl[k] \in Words /\ x \in Nat /\ k \in Nat /\ e \in Nat
  <2>1. n \in Els /\ t.cl \in Clusters(n) /\ k \in 0 .. n /\ x \in Places
    BY TreeIs
  <2> QED
    BY <2>1, PlaceOf, Bounds DEF Clusters
<1>2. FHasAnyElements(t.cl[k]) /\ e > NMinW(t.cl[k])
  BY DEF HasBelow
<1>3. NMinW(t.cl[k]) \in Els /\ FHasElementW(t.cl[k], NMinW(t.cl[k]))
  BY <1>1, <1>2, NMinWIs
<1>4. \A f \in Els : f \in Nat
  BY Bounds
<1>5. p \in Els /\ FHasElementW(t.cl[k], p) /\ p < e /\ \A f \in Els : FHasElementW(t.cl[k], f) /\ f < e => f <= p
  <2> HIDE DEF k, e
  <2>1. \/ p = Universe - 1 /\ \A f \in Els : FHasElementW(t.cl[k], f) => f >= e
        \/ /\ p \in Els /\ FHasElementW(t.cl[k], p) /\ p < e
           /\ \A f \in Els : FHasElementW(t.cl[k], f) /\ f < e => f <= p
    BY <1>1, NPredecessorWIs
  <2>2. ~(NMinW(t.cl[k]) >= e)
    BY <1>1, <1>2, <1>3, <1>4
  <2> QED
    BY <1>3, <2>1, <2>2
<1> HIDE DEF p
<1>6. y \in Held(t.cl) /\ y \in Places /\ NCluster(y) = k /\ NElInCluster(y) = p /\ y \in Nat
  BY <1>1, <1>5, HeldAt, IndexOf, Bounds
<1>7. y < x
  BY <1>1, <1>5, <1>6, PlaceOrder
<1>8. ASSUME NEW z \in Held(t.cl), z < x PROVE z <= y
  <2>1. z \in Places /\ NCluster(z) \in Els /\ NElInCluster(z) \in Els /\ z \in Nat
    BY PlaceOf, Bounds DEF Held
  <2>2. NCluster(z) = k => FHasElementW(t.cl[k], NElInCluster(z))
    BY DEF Held, In
  <2>3. NCluster(z) < k \/ (k = NCluster(z) /\ NElInCluster(z) < e)
    BY <1>1, <1>8, <2>1, PlaceOrder
  <2>4. CASE NCluster(z) < k
    <3>1. z < y
      BY <1>6, <2>1, <2>4, PlaceOrder
    <3> QED
      BY <1>6, <2>1, <3>1
  <2>5. CASE k = NCluster(z) /\ NElInCluster(z) < e
    <3>1. NElInCluster(z) <= p
      BY <1>5, <2>1, <2>2, <2>5
    <3>2. ~(y < z)
      <4>1. y < z => p < NElInCluster(z)
        <5> HIDE DEF y, k
        <5> QED
          BY <1>6, <2>1, <2>5, PlaceOrder
      <4> QED
        BY <1>4, <1>5, <2>1, <3>1, <4>1
    <3> HIDE DEF y
    <3> QED
      BY <1>6, <2>1, <3>2
  <2> QED
    BY <2>3, <2>4, <2>5
<1>9. p # Universe - 1
  BY <1>1, <1>4, <1>5, Ranges DEF Els
<1> HIDE DEF k, e
<1>10. IsPrev(Held(t.cl), x, y)
  BY <1>6, <1>7, <1>8 DEF IsPrev
<1> QED
  BY <1>1, <1>5, <1>9, <1>10 DEF p, k, e, NoPredecessorW

LEMMA BelowThere ==
    ASSUME NEW t, IsTree(t), NEW x \in 0 .. t.last, ~HasBelow(t, x)
    PROVE  LET k == NPredecessorW(t.sum, NCluster(x))
               p == NMaxW(t.cl[k])
           IN  /\ k = NoPredecessorW => \A z \in Held(t.cl) : x <= z
               /\ k # NoPredecessorW =>
                     /\ k \in 0 .. NCluster(t.last) /\ p \in Els
                     /\ FHasElementW(t.cl[k], p) /\ IsPrev(Held(t.cl), x, NIndex(k, p))
<1> DEFINE n == NCluster(t.last)
           j == NCluster(x)
           e == NElInCluster(x)
           k == NPredecessorW(t.sum, j)
           p == NMaxW(t.cl[k])
           y == NIndex(k, p)
<1>1. /\ n \in Els /\ t.cl \in Clusters(n) /\ j \in 0 .. n /\ x \in Places /\ j \in Els /\ e \in Els
      /\ t.cl[j] \in Words /\ x \in Nat /\ j \in Nat /\ e \in Nat /\ Names(t.sum, t.cl)
  <2>1. n \in Els /\ t.cl \in Clusters(n) /\ j \in 0 .. n /\ x \in Places /\ Names(t.sum, t.cl)
    BY TreeIs
  <2> QED
    BY <2>1, PlaceOf, Bounds DEF Clusters
<1>2. ASSUME NEW z \in Held(t.cl)
      PROVE  /\ z \in Places /\ NCluster(z) \in Els /\ NElInCluster(z) \in Els /\ z \in Nat
             /\ NCluster(z) \in Nat /\ NElInCluster(z) \in Nat /\ NCluster(z) \in 0 .. n
             /\ FHasElementW(t.cl[NCluster(z)], NElInCluster(z))
             /\ FHasElementW(t.sum, NCluster(z))
  <2>1. z \in Places /\ NCluster(z) \in Els /\ NElInCluster(z) \in Els /\ z \in Nat
        /\ NCluster(z) \in Nat /\ NElInCluster(z) \in Nat
    BY PlaceOf, Bounds DEF Held
  <2>2. NCluster(z) \in 0 .. n /\ FHasElementW(t.cl[NCluster(z)], NElInCluster(z)) /\ NCluster(z) \in DOMAIN t.cl
    BY <1>1 DEF Held, In, Clusters
  <2>3. FHasAnyElements(t.cl[NCluster(z)])
    BY <1>1, <2>1, <2>2, HasAnyIs DEF Clusters
  <2> QED
    BY <1>1, <2>1, <2>2, <2>3 DEF Names
<1>3. ASSUME NEW z \in Held(t.cl), j <= NCluster(z) PROVE x <= z
  <2>1. NCluster(z) = j => e <= NElInCluster(z)
    <3>1. SUFFICES ASSUME NCluster(z) = j PROVE e <= NElInCluster(z)
      OBVIOUS
    <3>2. FHasAnyElements(t.cl[j])
      BY <1>1, <1>2, <3>1, HasAnyIs
    <3>3. NMinW(t.cl[j]) \in Nat /\ NMinW(t.cl[j]) <= NElInCluster(z)
      BY <1>1, <1>2, <3>1, <3>2, NMinWIs, Bounds
    <3> QED
      BY <1>1, <1>2, <3>2, <3>3 DEF HasBelow
  <2>2. z < x => NCluster(z) < j \/ (j = NCluster(z) /\ NElInCluster(z) < e)
    BY <1>1, <1>2, PlaceOrder
  <2> QED
    BY <1>1, <1>2, <1>3, <2>1, <2>2
<1>4. \/ k = Universe - 1 /\ \A f \in Els : FHasElementW(t.sum, f) => f >= j
      \/ /\ k \in Els /\ FHasElementW(t.sum, k) /\ k < j
         /\ \A f \in Els : FHasElementW(t.sum, f) /\ f < j => f <= k
  <2>1. t.sum \in Words
    BY <1>1 DEF Names
  <2> HIDE DEF j
  <2> QED
    BY <1>1, <2>1, NPredecessorWIs
<1> HIDE DEF k
<1>5. CASE k = Universe - 1
  <2>0. ~(k < j)
    BY <1>1, <1>5, Ranges DEF Els
  <2>1. ASSUME NEW z \in Held(t.cl) PROVE x <= z
    <3>1. j <= NCluster(z)
      BY <1>1, <1>2, <1>4, <2>0
    <3> QED
      BY <1>3, <3>1
  <2> QED
    BY <1>5, <2>1 DEF k, NoPredecessorW
<1>6. CASE k # Universe - 1
  <2>1. k \in Els /\ k \in Nat /\ FHasElementW(t.sum, k) /\ k < j
        /\ \A f \in Els : FHasElementW(t.sum, f) /\ f < j => f <= k
    BY <1>4, <1>6, Bounds
  <2>2. k \in 0 .. n /\ t.cl[k] \in Words /\ FHasAnyElements(t.cl[k])
    BY <1>1, <2>1 DEF Names, Clusters
  <2>3. p \in Els /\ FHasElementW(t.cl[k], p) /\ \A f \in Els : FHasElementW(t.cl[k], f) => f <= p
    BY <2>2, NMaxWIs
  <2> HIDE DEF p
  <2>4. y \in Held(t.cl) /\ y \in Places /\ NCluster(y) = k /\ NElInCluster(y) = p /\ y \in Nat /\ p \in Nat
    BY <1>1, <2>1, <2>2, <2>3, HeldAt, IndexOf, Bounds
  <2>5. y < x
    BY <1>1, <2>1, <2>4, PlaceOrder
  <2>6. ASSUME NEW z \in Held(t.cl), z < x PROVE z <= y
    <3>1. NCluster(z) <= k
      <4>1. NCluster(z) < j
        BY <1>1, <1>2, <1>3, <2>6
      <4> QED
        BY <1>2, <2>1, <4>1
    <3>2. NCluster(z) = k => NElInCluster(z) <= p
      BY <1>2, <2>3
    <3>3. y < z => NCluster(y) < NCluster(z) \/ (NCluster(z) = NCluster(y) /\ NElInCluster(y) < NElInCluster(z))
      <4> HIDE DEF y
      <4> QED
        BY <1>2, <2>4, PlaceOrder
    <3>4. NCluster(z) \in Nat /\ NElInCluster(z) \in Nat /\ z \in Nat
      BY <1>2
    <3> HIDE DEF y
    <3>5. k \in Nat /\ p \in Nat /\ NCluster(y) = k /\ NElInCluster(y) = p /\ y \in Nat
      BY <2>1, <2>4
    <3>6. ~(y < z)
      BY ONLY <3>1, <3>2, <3>3, <3>4, <3>5
    <3> QED
      BY ONLY <3>4, <3>5, <3>6
  <2>7. IsPrev(Held(t.cl), x, y)
    BY <2>4, <2>5, <2>6 DEF IsPrev
  <2> QED
    BY <1>6, <2>2, <2>3, <2>7 DEF k, p, NoPredecessorW
<1> QED
  BY <1>5, <1>6

\* A search answers with the element it looked for, or with none.
LEMMA NextIs ==
    ASSUME NEW S, S \subseteq Nat, NEW x, NEW y, IsNext(S, x, y)
    PROVE  {z \in S : z > x} # {} /\ Min({z \in S : z > x}) = y
<1>1. y \in {z \in S : z > x} /\ {z \in S : z > x} \subseteq Nat /\ \A z \in {w \in S : w > x} : y <= z
  BY DEF IsNext
<1> QED
  BY <1>1, IsMin

LEMMA PrevIs ==
    ASSUME NEW n \in Nat, NEW S, S \subseteq 0 .. n, NEW x, NEW y, IsPrev(S, x, y)
    PROVE  {z \in S : z < x} # {} /\ Max({z \in S : z < x}) = y
<1>1. y \in {z \in S : z < x} /\ {z \in S : z < x} \subseteq 0 .. n /\ \A z \in {w \in S : w < x} : z <= y
  BY DEF IsPrev
<1> QED
  BY <1>1, IsMax

\* A number not less than the minimum has as its successor the next one in the
\* clusters; one that is has the minimum.
LEMMA NextHeld ==
    ASSUME NEW t, NEW S, Rep(t, S), NEW x \in 0 .. t.last, x >= t.min, S # {}
    PROVE  /\ \A y : IsNext(Held(t.cl), x, y) => IsNext(S, x, y)
           /\ (\A z \in Held(t.cl) : z <= x) => \A z \in S : z <= x
<1>1. Held(t.cl) = S \ {t.min} /\ t.min \in Nat /\ S \subseteq Nat /\ x \in Nat
  BY TreeIs, RepIs, Bounds DEF Rep
<1> QED
  BY <1>1 DEF IsNext

LEMMA SuccessorFinds ==
    ASSUME NEW t, NEW S, Rep(t, S), NEW x \in -1 .. t.last
    PROVE  \/ NSuccessor(t, x) = None /\ \A z \in S : z <= x
           \/ IsNext(S, x, NSuccessor(t, x))
<1>1. IsTree(t) /\ t.last \in Nat /\ S \subseteq Nat
  BY TreeIs, RepIs, Bounds DEF Rep
<1>2. CASE S = {}
  BY <1>2, RepIs DEF NSuccessor
<1>3. CASE S # {} /\ x < t.min
  <2>1. NSuccessor(t, x) = t.min
    BY <1>3, RepIs DEF NSuccessor
  <2>2. IsNext(S, x, t.min)
    BY <1>3, RepIs DEF IsNext
  <2> QED
    BY <2>1, <2>2
<1>4. CASE S # {} /\ ~(x < t.min)
  <2>1. t.min \in Nat /\ HasAny(t)
    BY <1>4, RepIs
  <2>2. x \in 0 .. t.last /\ x >= t.min
    BY <1>1, <1>4, <2>1
  <2>3. CASE HasAbove(t, x)
    <3>1. NSuccessor(t, x) = NIndex(NCluster(x), NSuccessorW(t.cl[NCluster(x)], NElInCluster(x)))
      BY <1>4, <2>1, <2>3 DEF NSuccessor
    <3>2. IsNext(Held(t.cl), x, NSuccessor(t, x))
      BY <1>1, <2>2, <2>3, <3>1, AboveHere
    <3> QED
      BY <1>4, <2>2, <3>2, NextHeld
  <2>4. CASE ~HasAbove(t, x)
    <3> DEFINE k == NSuccessorW(t.sum, NCluster(x))
    <3>1. NSuccessor(t, x) = IF k = NoSuccessorW THEN None ELSE NIndex(k, NMinW(t.cl[k]))
      BY <1>4, <2>1, <2>4 DEF NSuccessor
    <3>2. /\ k = NoSuccessorW => \A z \in Held(t.cl) : z <= x
          /\ k # NoSuccessorW => IsNext(Held(t.cl), x, NIndex(k, NMinW(t.cl[k])))
      BY <1>1, <2>2, <2>4, AboveThere
    <3> HIDE DEF k
    <3> QED
      BY <1>4, <2>2, <3>1, <3>2, NextHeld
  <2> QED
    BY <2>3, <2>4
<1> QED
  BY <1>2, <1>3, <1>4

LEMMA PrevHeld ==
    ASSUME NEW t, NEW S, Rep(t, S), NEW x \in 0 .. t.last, S # {}
    PROVE  /\ \A y : IsPrev(Held(t.cl), x, y) => IsPrev(S, x, y)
           /\ (\A z \in Held(t.cl) : x <= z) => /\ x > t.min => IsPrev(S, x, t.min)
                                                /\ ~(x > t.min) => \A z \in S : x <= z
<1>1. Held(t.cl) = S \ {t.min} /\ t.min \in S /\ S \subseteq Nat /\ x \in Nat /\ \A z \in S : t.min <= z
  BY TreeIs, RepIs, Bounds DEF Rep
<1>2. ASSUME NEW y, IsPrev(Held(t.cl), x, y) PROVE IsPrev(S, x, y)
  <2>1. t.min <= y /\ y \in S /\ y < x
    BY <1>1, <1>2 DEF IsPrev
  <2> QED
    BY <1>1, <1>2, <2>1 DEF IsPrev
<1>3. ASSUME \A z \in Held(t.cl) : x <= z, x > t.min PROVE IsPrev(S, x, t.min)
  BY <1>1, <1>3 DEF IsPrev
<1>4. ASSUME ~(x > t.min), NEW z \in S PROVE x <= z
  <2>1. t.min \in Nat /\ z \in Nat /\ t.min <= z
    BY <1>1
  <2> QED
    BY <1>1, <1>4, <2>1
<1> QED
  BY <1>2, <1>3, <1>4

LEMMA PredecessorFinds ==
    ASSUME NEW t, NEW S, Rep(t, S), NEW x \in 0 .. t.last + 1
    PROVE  \/ NPredecessor(t, x) = None /\ \A z \in S : x <= z
           \/ IsPrev(S, x, NPredecessor(t, x))
<1>1. IsTree(t) /\ t.last \in Nat /\ S \subseteq Nat /\ S \subseteq 0 .. t.last
  BY TreeIs, RepIs, Bounds DEF Rep
<1>2. CASE S = {}
  BY <1>2, RepIs DEF NPredecessor
<1>3. CASE S # {} /\ x > t.max
  <2>1. NPredecessor(t, x) = t.max
    BY <1>3, RepIs DEF NPredecessor
  <2>2. IsPrev(S, x, t.max)
    BY <1>3, RepIs DEF IsPrev
  <2> QED
    BY <2>1, <2>2
<1>4. CASE S # {} /\ ~(x > t.max)
  <2>1. t.max \in Nat /\ HasAny(t) /\ t.max \in 0 .. t.last
    BY <1>1, <1>4, RepIs
  <2>2. x \in 0 .. t.last
    BY <1>1, <1>4, <2>1
  <2>3. CASE HasBelow(t, x)
    <3>1. NPredecessor(t, x) = NIndex(NCluster(x), NPredecessorW(t.cl[NCluster(x)], NElInCluster(x)))
      BY <1>4, <2>1, <2>3 DEF NPredecessor
    <3>2. IsPrev(Held(t.cl), x, NPredecessor(t, x))
      BY <1>1, <2>2, <2>3, <3>1, BelowHere
    <3> QED
      BY <1>4, <2>2, <3>2, PrevHeld
  <2>4. CASE ~HasBelow(t, x)
    <3> DEFINE k == NPredecessorW(t.sum, NCluster(x))
    <3>1. NPredecessor(t, x) = IF k = NoPredecessorW THEN (IF x > t.min THEN t.min ELSE None)
                               ELSE NIndex(k, NMaxW(t.cl[k]))
      BY <1>4, <2>1, <2>4 DEF NPredecessor
    <3>2. /\ k = NoPredecessorW => \A z \in Held(t.cl) : x <= z
          /\ k # NoPredecessorW => IsPrev(Held(t.cl), x, NIndex(k, NMaxW(t.cl[k])))
      BY <1>1, <2>2, <2>4, BelowThere
    <3> HIDE DEF k
    <3> QED
      BY <1>4, <2>2, <3>1, <3>2, PrevHeld
  <2> QED
    BY <2>3, <2>4
<1> QED
  BY <1>2, <1>3, <1>4

-----------------------------------------------------------------------------
(* The searches that take out what they find. *)

\* The cluster before k that the summary names.
LEMMA PrevCluster ==
    ASSUME NEW n \in Els, NEW c \in Clusters(n), NEW s, Names(s, c), NEW k \in 0 .. n
    PROVE  LET p == NPredecessorW(s, k)
           IN  /\ p = NoPredecessorW => \A x \in Held(c) : k <= NCluster(x)
               /\ p # NoPredecessorW =>
                     /\ p \in 0 .. n /\ p < k /\ FHasAnyElements(c[p])
                     /\ \A x \in Held(c) : NCluster(x) < k => NCluster(x) <= p
<1> DEFINE p == NPredecessorW(s, k)
<1>1. s \in Words /\ k \in Els /\ DOMAIN c = 0 .. n
  BY ClusterNos DEF Names, Clusters
<1>2. \/ p = Universe - 1 /\ \A e \in Els : FHasElementW(s, e) => e >= k
      \/ /\ p \in Els /\ FHasElementW(s, p) /\ p < k
         /\ \A e \in Els : FHasElementW(s, e) /\ e < k => e <= p
  BY <1>1, NPredecessorWIs
<1>3. \A x \in Held(c) : NCluster(x) \in Els /\ FHasElementW(s, NCluster(x))
  <2>1. SUFFICES ASSUME NEW x \in Held(c) PROVE NCluster(x) \in Els /\ FHasElementW(s, NCluster(x))
    OBVIOUS
  <2>2. NCluster(x) \in 0 .. n /\ NCluster(x) \in Els
    BY <1>1, ClusterNos DEF Held, In
  <2>3. FHasAnyElements(c[NCluster(x)])
    BY <2>2, HeldAnyAt
  <2> QED
    BY <1>1, <2>2, <2>3 DEF Names
<1> HIDE DEF p
<1>4. k \in Nat /\ \A e \in Els : e \in Nat
  BY <1>1, Bounds
<1>5. CASE p = Universe - 1
  <2>1. ~(p < k)
    BY <1>1, <1>5, Ranges DEF Els
  <2>2. \A e \in Els : FHasElementW(s, e) => k <= e
    BY <1>2, <1>4, <2>1
  <2>3. p = NoPredecessorW
    BY <1>5 DEF NoPredecessorW
  <2> QED
    BY <1>3, <2>2, <2>3 DEF p
<1>6. CASE p # Universe - 1
  <2>1. p \in Els /\ FHasElementW(s, p) /\ p < k /\ \A e \in Els : FHasElementW(s, e) /\ e < k => e <= p
    BY <1>2, <1>6
  <2>2. p \in 0 .. n /\ FHasAnyElements(c[p])
    BY <1>1, <2>1 DEF Names
  <2>3. p # NoPredecessorW
    BY <1>6 DEF NoPredecessorW
  <2> QED
    BY <1>3, <2>1, <2>2, <2>3 DEF p
<1> QED
  BY <1>5, <1>6

\* An array of one element has nothing left without it.
LEMMA SingleIs ==
    ASSUME NEW w \in Words, NEW e \in Els, FHasElementW(w, e)
    PROVE  NMinW(w) = NMaxW(w) <=> ~FHasAnyElements(DeleteW(w, e))
<1>1. FHasAnyElements(w)
  BY HasAnyIs
<1>2. /\ NMinW(w) \in Els /\ FHasElementW(w, NMinW(w)) /\ NMaxW(w) \in Els /\ FHasElementW(w, NMaxW(w))
      /\ \A f \in Els : FHasElementW(w, f) => NMinW(w) <= f /\ f <= NMaxW(w)
  BY <1>1, NMinWIs, NMaxWIs
<1>3. DeleteW(w, e) \in Words /\ \A f \in Els : FHasElementW(DeleteW(w, e), f) <=> FHasElementW(w, f) /\ f # e
  BY DeleteWIs
<1>4. FHasAnyElements(DeleteW(w, e)) <=> \E f \in Els : FHasElementW(w, f) /\ f # e
  BY <1>3, HasAnyIs
<1>5. \A f \in Els : f \in Nat
  BY Bounds
<1>6. ASSUME NMinW(w) = NMaxW(w), NEW f \in Els, FHasElementW(w, f) PROVE f = e
  <2>1. f = NMinW(w) /\ e = NMinW(w)
    BY <1>2, <1>5, <1>6
  <2> QED
    BY <2>1
<1>7. ASSUME NMinW(w) # NMaxW(w) PROVE \E f \in Els : FHasElementW(w, f) /\ f # e
  BY <1>2, <1>7
<1> QED
  BY <1>4, <1>6, <1>7

LEMMA SuccessorTakenMade ==
    ASSUME NEW t, IsTree(t), NEW k, NEW e, NEW cl
    PROVE  LET single == NMinW(t.cl[k]) = NMaxW(t.cl[k])
               sum == IF single THEN DeleteW(t.sum, k) ELSE t.sum
               prev == NPredecessorW(sum, k)
               max == CASE ~single -> NIndex(k, NMaxW(cl))
                        [] single /\ prev = NoPredecessorW -> t.min
                        [] OTHER -> NIndex(prev, NMaxW(t.cl[prev]))
           IN  SuccessorTaken(t, k, e, cl) =
                   Made(t, t.min, IF NIndex(k, e) = t.max THEN max ELSE t.max, sum, [t.cl EXCEPT ![k] = cl])
<1> DEFINE single == NMinW(t.cl[k]) = NMaxW(t.cl[k])
           sum == IF single THEN DeleteW(t.sum, k) ELSE t.sum
           prev == NPredecessorW(sum, k)
           max == CASE ~single -> NIndex(k, NMaxW(cl))
                    [] single /\ prev = NoPredecessorW -> t.min
                    [] OTHER -> NIndex(prev, NMaxW(t.cl[prev]))
<1>1. SuccessorTaken(t, k, e, cl) =
          [t EXCEPT !.cl[k] = cl, !.sum = sum, !.max = IF NIndex(k, e) = @ THEN max ELSE @]
  BY Zenon DEF SuccessorTaken
<1>2. SUFFICES ASSUME NEW u, u = SuccessorTaken(t, k, e, cl)
               PROVE  u = Made(t, t.min, IF NIndex(k, e) = t.max THEN max ELSE t.max, sum, [t.cl EXCEPT ![k] = cl])
  OBVIOUS
<1> HIDE DEF sum, max
<1> QED
  BY <1>1, <1>2 DEF IsTree, Made

LEMMA PredecessorTakenMade ==
    ASSUME NEW t, IsTree(t), NEW k, NEW cl
    PROVE  PredecessorTaken(t, k, cl) =
               Made(t, t.min, t.max, IF NMinW(t.cl[k]) = NMaxW(t.cl[k]) THEN DeleteW(t.sum, k) ELSE t.sum,
                    [t.cl EXCEPT ![k] = cl])
<1>1. SUFFICES ASSUME NEW u, u = PredecessorTaken(t, k, cl)
               PROVE  u = Made(t, t.min, t.max, IF NMinW(t.cl[k]) = NMaxW(t.cl[k]) THEN DeleteW(t.sum, k) ELSE t.sum,
                               [t.cl EXCEPT ![k] = cl])
  OBVIOUS
<1> QED
  BY <1>1 DEF IsTree, Made, PredecessorTaken

\* What the two have in common.
LEMMA TakenParts ==
    ASSUME NEW t, NEW S, Rep(t, S), NEW k \in 0 .. NCluster(t.last), NEW e \in Els, FHasElementW(t.cl[k], e),
           S # {}
    PROVE  LET y == NIndex(k, e)
               cl == DeleteW(t.cl[k], e)
               c == [t.cl EXCEPT ![k] = cl]
               s == IF NMinW(t.cl[k]) = NMaxW(t.cl[k]) THEN DeleteW(t.sum, k) ELSE t.sum
           IN  /\ y \in S /\ y # t.min /\ y \in Places /\ NCluster(y) = k
               /\ c \in Clusters(NCluster(t.last)) /\ Names(s, c) /\ Held(c) = Held(t.cl) \ {y}
               /\ Held(c) \cup {t.min} = S \ {y} /\ Held(c) \subseteq 0 .. t.last /\ t.min \in 0 .. t.last
               /\ \A z \in Held(c) : t.min < z
               /\ FHasAnyElements(cl) <=> NMinW(t.cl[k]) # NMaxW(t.cl[k])
<1> DEFINE n == NCluster(t.last)
           y == NIndex(k, e)
           cl == DeleteW(t.cl[k], e)
           c == [t.cl EXCEPT ![k] = cl]
           s == IF NMinW(t.cl[k]) = NMaxW(t.cl[k]) THEN DeleteW(t.sum, k) ELSE t.sum
<1>1. /\ IsTree(t) /\ n \in Els /\ t.cl \in Clusters(n) /\ Names(t.sum, t.cl) /\ S \subseteq 0 .. t.last
      /\ Held(t.cl) = S \ {t.min} /\ t.last \in Nat /\ k \in Els /\ t.cl[k] \in Words
  <2>1. IsTree(t) /\ n \in Els /\ t.cl \in Clusters(n)
    BY TreeIs DEF Rep
  <2> QED
    BY <2>1, TreeIs, Bounds, ClusterNos DEF Rep, Clusters
<1>2. y \in Places /\ NCluster(y) = k /\ NElInCluster(y) = e /\ y \in Held(t.cl)
  BY <1>1, IndexOf, HeldAt
<1>3. FHasAnyElements(cl) <=> NMinW(t.cl[k]) # NMaxW(t.cl[k])
  BY <1>1, SingleIs
<1>4. /\ WithoutNumber(t.cl, y) \in Clusters(n) /\ WithoutNumber(t.cl, y) = c
      /\ Held(WithoutNumber(t.cl, y)) = Held(t.cl) \ {y}
      /\ Names(IF FHasAnyElements(cl) THEN t.sum ELSE DeleteW(t.sum, k), WithoutNumber(t.cl, y))
  <2>1. NCluster(y) = k /\ NElInCluster(y) = e /\ FHasElementW(t.cl[NCluster(y)], NElInCluster(y))
    BY <1>2
  <2> DEFINE v == DeleteW(t.cl[NCluster(y)], NElInCluster(y))
  <2> HIDE DEF y
  <2>2. /\ WithoutNumber(t.cl, y) \in Clusters(n)
        /\ Held(WithoutNumber(t.cl, y)) = Held(t.cl) \ {y}
        /\ Names(IF FHasAnyElements(v) THEN t.sum ELSE DeleteW(t.sum, NCluster(y)), WithoutNumber(t.cl, y))
    <3>1. NCluster(y) \in 0 .. n /\ y \in Places /\ n \in Els /\ t.cl \in Clusters(n) /\ Names(t.sum, t.cl)
      BY <1>1, <1>2
    <3> HIDE DEF n
    <3> QED
      BY <2>1, <3>1, ClusterDelete
  <2>3. WithoutNumber(t.cl, y) = [t.cl EXCEPT ![NCluster(y)] = v]
    BY Zenon DEF WithoutNumber
  <2> QED
    BY <2>1, <2>2, <2>3, Zenon
<1>5. s = IF FHasAnyElements(cl) THEN t.sum ELSE DeleteW(t.sum, k)
  BY <1>3
<1>6. t.min \in S /\ t.min \in Nat /\ \A z \in S : z \in Nat /\ t.min <= z
  BY RepIs
<1> HIDE DEF c, y, cl, s
<1>7. y \in S /\ y # t.min /\ Held(c) = Held(t.cl) \ {y} /\ Held(c) \cup {t.min} = S \ {y}
  BY <1>1, <1>2, <1>4, <1>6
<1>8. \A z \in Held(c) : t.min < z
  <2>1. SUFFICES ASSUME NEW z \in Held(c) PROVE t.min < z
    OBVIOUS
  <2>2. z \in S /\ z # t.min
    BY <1>1, <1>7
  <2> QED
    BY <1>6, <2>2
<1>9. Held(c) \subseteq 0 .. t.last /\ t.min \in 0 .. t.last
  BY <1>1, <1>6, <1>7
<1> QED
  BY <1>1, <1>2, <1>3, <1>4, <1>5, <1>7, <1>8, <1>9 DEF c, y, cl, s

LEMMA SuccessorTakenStands ==
    ASSUME NEW t, NEW S, Rep(t, S), NEW k \in 0 .. NCluster(t.last), NEW e \in Els, FHasElementW(t.cl[k], e),
           S # {}
    PROVE  Stands(SuccessorTaken(t, k, e, DeleteW(t.cl[k], e)), t, S \ {NIndex(k, e)})
<1> DEFINE n == NCluster(t.last)
           y == NIndex(k, e)
           cl == DeleteW(t.cl[k], e)
           c == [t.cl EXCEPT ![k] = cl]
           single == NMinW(t.cl[k]) = NMaxW(t.cl[k])
           s == IF single THEN DeleteW(t.sum, k) ELSE t.sum
           prev == NPredecessorW(s, k)
           max == CASE ~single -> NIndex(k, NMaxW(cl))
                    [] single /\ prev = NoPredecessorW -> t.min
                    [] OTHER -> NIndex(prev, NMaxW(t.cl[prev]))
           mx == IF y = t.max THEN max ELSE t.max
<1>1. /\ y \in S /\ y # t.min /\ y \in Places /\ NCluster(y) = k
      /\ c \in Clusters(n) /\ Names(s, c) /\ Held(c) = Held(t.cl) \ {y}
      /\ Held(c) \cup {t.min} = S \ {y} /\ Held(c) \subseteq 0 .. t.last /\ t.min \in 0 .. t.last
      /\ \A z \in Held(c) : t.min < z
      /\ FHasAnyElements(cl) <=> ~single
  BY TakenParts
<1>2. IsTree(t) /\ n \in Els /\ DOMAIN t.cl = 0 .. n /\ Held(t.cl) = S \ {t.min}
  BY TreeIs DEF Rep
<1>3. SuccessorTaken(t, k, e, cl) = Made(t, t.min, mx, s, c)
  BY <1>2, SuccessorTakenMade
<1>4. c[k] = cl /\ \A j \in 0 .. n : j # k => c[j] = t.cl[j]
  BY <1>2
<1>5. t.max \in S /\ t.max \in Nat /\ \A z \in S : z \in Nat /\ z <= t.max
  BY RepIs
<1> HIDE DEF c, s, cl
<1>6. ASSUME y # t.max PROVE Top(c, t.min, mx)
  <2>1. t.max # t.min
    BY <1>1, <1>5, RepIs
  <2>2. t.max \in Held(c) /\ \A z \in Held(c) : z <= t.max
    BY <1>1, <1>2, <1>5, <1>6, <2>1
  <2>3. mx = t.max
    BY <1>6
  <2> QED
    BY <2>2, <2>3 DEF Top
<1>7. ASSUME y = t.max PROVE Top(c, t.min, mx)
  <2>0. mx = max
    BY <1>7
  <2>1. ASSUME NEW x \in Held(c) PROVE NCluster(x) <= k
    <3>1. x \in Places /\ x <= y /\ x \in Nat
      BY <1>1, <1>2, <1>5, <1>7, Bounds DEF Held
    <3> HIDE DEF y
    <3> QED
      BY <1>1, <3>1, PlaceOrder
  <2>2. CASE ~single
    <3>1. max = NIndex(k, NMaxW(cl))
      BY <2>2
    <3> HIDE DEF n, max
    <3>2. Top(c, t.min, NIndex(k, NMaxW(c[k])))
      BY <1>1, <1>2, <1>4, <2>1, <2>2, TopHere DEF n
    <3> QED
      BY <1>4, <2>0, <3>1, <3>2
  <2>3. CASE single
    <3>1. \A x \in Held(c) : NCluster(x) \in 0 .. n /\ NCluster(x) # k
      <4>1. SUFFICES ASSUME NEW x \in Held(c) PROVE NCluster(x) \in 0 .. n /\ NCluster(x) # k
        OBVIOUS
      <4>2. NCluster(x) \in 0 .. n
        BY <1>1 DEF Held, In, Clusters
      <4>3. ~FHasAnyElements(c[k])
        BY <1>1, <1>4, <2>3
      <4> QED
        BY <1>1, <1>2, <4>2, <4>3, HeldAnyAt
    <3>2. /\ prev = NoPredecessorW => \A x \in Held(c) : k <= NCluster(x)
          /\ prev # NoPredecessorW =>
                /\ prev \in 0 .. n /\ prev < k /\ FHasAnyElements(c[prev])
                /\ \A x \in Held(c) : NCluster(x) < k => NCluster(x) <= prev
      BY <1>1, <1>2, PrevCluster
    <3>3. k \in Nat /\ n \in Nat
      BY <1>2, Bounds
    <3>4. CASE prev = NoPredecessorW
      <4>1. max = t.min
        BY <2>3, <3>4, Zenon
      <4>2. Held(c) = {}
        BY <2>1, <3>1, <3>2, <3>3, <3>4
      <4> HIDE DEF max, mx
      <4>3. mx = t.min
        BY <2>0, <4>1
      <4> QED
        BY <4>2, <4>3 DEF Top
    <3>5. CASE prev # NoPredecessorW
      <4>1. max = NIndex(prev, NMaxW(t.cl[prev]))
        BY <2>3, <3>5, Zenon
      <4> HIDE DEF prev, max, n
      <4>2. prev \in 0 .. n /\ prev < k /\ FHasAnyElements(c[prev]) /\ c[prev] = t.cl[prev]
        BY <1>4, <3>2, <3>3, <3>5
      <4>3. \A x \in Held(c) : NCluster(x) <= prev
        BY <2>1, <3>1, <3>2, <3>3, <3>5
      <4>4. Top(c, t.min, NIndex(prev, NMaxW(c[prev])))
        BY <1>1, <1>2, <4>2, <4>3, TopHere DEF n
      <4> QED
        BY <2>0, <4>1, <4>2, <4>4
    <3> QED
      BY <3>4, <3>5
  <2> QED
    BY <2>2, <2>3
<1>8. Top(c, t.min, mx)
  BY <1>6, <1>7
<1> HIDE DEF mx, y
<1>9. Stands(Made(t, t.min, mx, s, c), t, Held(c) \cup {t.min})
  BY <1>1, <1>2, <1>8, MadeStands
<1> QED
  BY <1>1, <1>3, <1>9 DEF cl, y

LEMMA PredecessorTakenStands ==
    ASSUME NEW t, NEW S, Rep(t, S), NEW k \in 0 .. NCluster(t.last), NEW e \in Els, FHasElementW(t.cl[k], e),
           S # {}, NIndex(k, e) # t.max
    PROVE  Stands(PredecessorTaken(t, k, DeleteW(t.cl[k], e)), t, S \ {NIndex(k, e)})
<1> DEFINE n == NCluster(t.last)
           y == NIndex(k, e)
           cl == DeleteW(t.cl[k], e)
           c == [t.cl EXCEPT ![k] = cl]
           s == IF NMinW(t.cl[k]) = NMaxW(t.cl[k]) THEN DeleteW(t.sum, k) ELSE t.sum
<1>1. /\ y \in S /\ y # t.min
      /\ c \in Clusters(n) /\ Names(s, c) /\ Held(c) = Held(t.cl) \ {y}
      /\ Held(c) \cup {t.min} = S \ {y} /\ Held(c) \subseteq 0 .. t.last /\ t.min \in 0 .. t.last
      /\ \A z \in Held(c) : t.min < z
  BY TakenParts
<1>2. IsTree(t) /\ Held(t.cl) = S \ {t.min}
  BY DEF Rep
<1>3. PredecessorTaken(t, k, cl) = Made(t, t.min, t.max, s, c)
  BY <1>2, PredecessorTakenMade
<1>4. t.max \in S /\ \A z \in S : z <= t.max
  BY RepIs
<1> HIDE DEF c, s, cl
<1>5. t.max # t.min
  BY <1>1, <1>4, RepIs
<1>6. t.max \in Held(c) /\ \A z \in Held(c) : z <= t.max
  BY <1>1, <1>2, <1>4, <1>5
<1>7. Top(c, t.min, t.max)
  BY <1>6 DEF Top
<1> HIDE DEF y
<1>8. Stands(Made(t, t.min, t.max, s, c), t, Held(c) \cup {t.min})
  BY <1>1, <1>2, <1>7, MadeStands
<1> QED
  BY <1>1, <1>3, <1>8 DEF cl, y

LEMMA SuccessorDeleteStands ==
    ASSUME NEW t, NEW S, Rep(t, S), NEW x \in -1 .. t.last
    PROVE  Stands(SuccessorDelete(t, x), t, S \ {NSuccessor(t, x)})
<1>1. IsTree(t) /\ t.last \in Nat /\ S \subseteq Nat
  BY TreeIs, RepIs, Bounds DEF Rep
<1>2. CASE S = {}
  BY <1>2, RepIs, ItStands DEF SuccessorDelete
<1>3. CASE S # {} /\ x < t.min
  <2>1. NSuccessor(t, x) = t.min /\ SuccessorDelete(t, x) = Delete(t, t.min) /\ t.min \in S
    BY <1>3, RepIs DEF NSuccessor, SuccessorDelete
  <2> QED
    BY <2>1, DeleteStands
<1>4. CASE S # {} /\ ~(x < t.min)
  <2>1. t.min \in Nat /\ HasAny(t)
    BY <1>4, RepIs
  <2>2. x \in 0 .. t.last
    BY <1>1, <1>4, <2>1
  <2>3. CASE HasAbove(t, x)
    <3> DEFINE k == NCluster(x)
               s == NSuccessorW(t.cl[k], NElInCluster(x))
    <3>1. k \in 0 .. NCluster(t.last) /\ s \in Els /\ s # NoSuccessorW /\ FHasElementW(t.cl[k], s)
      BY <1>1, <2>2, <2>3, AboveHere
    <3>2. NSuccessor(t, x) = NIndex(k, s)
      BY <1>4, <2>1, <2>3, Zenon DEF NSuccessor
    <3>3. SuccessorDelete(t, x) = SuccessorTaken(t, k, s, NSuccessorDeleteW(t.cl[k], NElInCluster(x)))
      BY <1>4, <2>1, <2>3, Zenon DEF SuccessorDelete
    <3>4. NSuccessorDeleteW(t.cl[k], NElInCluster(x)) = DeleteW(t.cl[k], s)
      BY <3>1, Zenon DEF NSuccessorDeleteW
    <3> HIDE DEF k, s
    <3>5. Stands(SuccessorTaken(t, k, s, DeleteW(t.cl[k], s)), t, S \ {NIndex(k, s)})
      BY <1>4, <3>1, SuccessorTakenStands
    <3> QED
      BY <3>2, <3>3, <3>4, <3>5, Zenon
  <2>4. CASE ~HasAbove(t, x)
    <3> DEFINE k == NSuccessorW(t.sum, NCluster(x))
               s == NMinW(t.cl[k])
    <3>1. k # NoSuccessorW => k \in 0 .. NCluster(t.last) /\ s \in Els /\ FHasElementW(t.cl[k], s)
      BY <1>1, <2>2, <2>4, AboveThere
    <3>2. CASE k = NoSuccessorW
      <4>1. NSuccessor(t, x) = None
        BY <1>4, <2>1, <2>4, <3>2, Zenon DEF NSuccessor
      <4>2. SuccessorDelete(t, x) = t
        BY <1>4, <2>1, <2>4, <3>2, Zenon DEF SuccessorDelete
      <4>3. S \ {None} = S
        BY <1>1 DEF None
      <4> QED
        BY <4>1, <4>2, <4>3, ItStands
    <3>3. CASE k # NoSuccessorW
      <4>1. NSuccessor(t, x) = NIndex(k, s)
        BY <1>4, <2>1, <2>4, <3>3, Zenon DEF NSuccessor
      <4>2. SuccessorDelete(t, x) = SuccessorTaken(t, k, s, DeleteW(t.cl[k], s))
        BY <1>4, <2>1, <2>4, <3>3, Zenon DEF SuccessorDelete
      <4> HIDE DEF k, s
      <4>3. Stands(SuccessorTaken(t, k, s, DeleteW(t.cl[k], s)), t, S \ {NIndex(k, s)})
        BY <1>4, <3>1, <3>3, SuccessorTakenStands
      <4> QED
        BY <4>1, <4>2, <4>3, Zenon
    <3> QED
      BY <3>2, <3>3
  <2> QED
    BY <2>3, <2>4
<1> QED
  BY <1>2, <1>3, <1>4

LEMMA PredecessorDeleteStands ==
    ASSUME NEW t, NEW S, Rep(t, S), NEW x \in 0 .. t.last + 1
    PROVE  Stands(PredecessorDelete(t, x), t, S \ {NPredecessor(t, x)})
<1>1. IsTree(t) /\ t.last \in Nat /\ S \subseteq Nat /\ S \subseteq 0 .. t.last
  BY TreeIs, RepIs, Bounds DEF Rep
<1>2. CASE S = {}
  BY <1>2, RepIs, ItStands DEF PredecessorDelete
<1>3. CASE S # {} /\ x > t.max
  <2>1. NPredecessor(t, x) = t.max /\ PredecessorDelete(t, x) = Delete(t, t.max) /\ t.max \in S
    BY <1>3, RepIs DEF NPredecessor, PredecessorDelete
  <2> QED
    BY <2>1, DeleteStands
<1>4. CASE S # {} /\ ~(x > t.max)
  <2>1. t.max \in Nat /\ HasAny(t) /\ t.max \in 0 .. t.last /\ t.min \in S /\ \A z \in S : z <= t.max
    BY <1>1, <1>4, RepIs
  <2>2. x \in 0 .. t.last
    BY <1>1, <1>4, <2>1
  <2>3. CASE HasBelow(t, x)
    <3> DEFINE k == NCluster(x)
               p == NPredecessorW(t.cl[k], NElInCluster(x))
    <3>1. k \in 0 .. NCluster(t.last) /\ p \in Els /\ p # NoPredecessorW /\ FHasElementW(t.cl[k], p)
          /\ IsPrev(Held(t.cl), x, NIndex(k, p))
      BY <1>1, <2>2, <2>3, BelowHere
    <3>2. NPredecessor(t, x) = NIndex(k, p)
      BY <1>4, <2>1, <2>3, Zenon DEF NPredecessor
    <3>3. PredecessorDelete(t, x) = PredecessorTaken(t, k, NPredecessorDeleteW(t.cl[k], NElInCluster(x)))
      BY <1>4, <2>1, <2>3, Zenon DEF PredecessorDelete
    <3>4. NPredecessorDeleteW(t.cl[k], NElInCluster(x)) = DeleteW(t.cl[k], p)
      BY <3>1, Zenon DEF NPredecessorDeleteW
    <3> HIDE DEF k, p
    <3>5. NIndex(k, p) # t.max
      BY <1>1, <1>4, <2>1, <2>2, <3>1 DEF IsPrev
    <3>6. Stands(PredecessorTaken(t, k, DeleteW(t.cl[k], p)), t, S \ {NIndex(k, p)})
      BY <1>4, <3>1, <3>5, PredecessorTakenStands
    <3> QED
      BY <3>2, <3>3, <3>4, <3>6, Zenon
  <2>4. CASE ~HasBelow(t, x)
    <3> DEFINE k == NPredecessorW(t.sum, NCluster(x))
               p == NMaxW(t.cl[k])
    <3>1. k # NoPredecessorW => k \in 0 .. NCluster(t.last) /\ p \in Els /\ FHasElementW(t.cl[k], p)
                                /\ IsPrev(Held(t.cl), x, NIndex(k, p))
      BY <1>1, <2>2, <2>4, BelowThere
    <3>2. CASE k = NoPredecessorW /\ x > t.min
      <4>1. NPredecessor(t, x) = t.min
        BY <1>4, <2>1, <2>4, <3>2, Zenon DEF NPredecessor
      <4>2. PredecessorDelete(t, x) = Delete(t, t.min)
        BY <1>4, <2>1, <2>4, <3>2, Zenon DEF PredecessorDelete
      <4> QED
        BY <2>1, <4>1, <4>2, DeleteStands
    <3>3. CASE k = NoPredecessorW /\ ~(x > t.min)
      <4>1. NPredecessor(t, x) = None
        BY <1>4, <2>1, <2>4, <3>3, Zenon DEF NPredecessor
      <4>2. PredecessorDelete(t, x) = t
        BY <1>4, <2>1, <2>4, <3>3, Zenon DEF PredecessorDelete
      <4>3. S \ {None} = S
        BY <1>1 DEF None
      <4> QED
        BY <4>1, <4>2, <4>3, ItStands
    <3>4. CASE k # NoPredecessorW
      <4>1. NPredecessor(t, x) = NIndex(k, p)
        BY <1>4, <2>1, <2>4, <3>4, Zenon DEF NPredecessor
      <4>2. PredecessorDelete(t, x) = PredecessorTaken(t, k, DeleteW(t.cl[k], p))
        BY <1>4, <2>1, <2>4, <3>4, Zenon DEF PredecessorDelete
      <4> HIDE DEF k, p
      <4>3. NIndex(k, p) # t.max
        BY <1>1, <1>4, <2>1, <2>2, <3>1, <3>4 DEF IsPrev
      <4>4. Stands(PredecessorTaken(t, k, DeleteW(t.cl[k], p)), t, S \ {NIndex(k, p)})
        BY <1>4, <3>1, <3>4, <4>3, PredecessorTakenStands
      <4> QED
        BY <4>1, <4>2, <4>4, Zenon
    <3> QED
      BY <3>2, <3>3, <3>4
  <2> QED
    BY <2>3, <2>4
<1> QED
  BY <1>2, <1>3, <1>4

-----------------------------------------------------------------------------
(* The operations on whole trees. *)

\* Which clusters a summary has to name.
LEMMA NamesIs ==
    ASSUME NEW n \in Els, NEW c \in Clusters(n), NEW s \in Words,
           \A k \in Els : FHasElementW(s, k) <=> \E x \in Held(c) : NCluster(x) = k
    PROVE  Names(s, c)
<1>1. DOMAIN c = 0 .. n /\ 0 .. n \subseteq Els
  BY ClusterNos DEF Clusters
<1>2. ASSUME NEW k \in Els PROVE FHasElementW(s, k) <=> k \in DOMAIN c /\ FHasAnyElements(c[k])
  <2>1. CASE k \in 0 .. n
    BY <1>1, <2>1, HeldAnyAt
  <2>2. CASE k \notin 0 .. n
    BY <1>1, <2>2 DEF Held, In
  <2> QED
    BY <2>1, <2>2
<1> QED
  BY <1>2 DEF Names

\* Where nothing follows last, the words beyond it that an operation does not
\* touch hold nothing.
LEMMA FilledTo ==
    ASSUME NEW w \in Words, NEW first \in Nat, NEW last \in Els, NEW e \in Els,
           last < e => ~FHasElementW(w, e)
    PROVE  FHasElementW(InsertAllW(w, first, last), e) <=> first <= e /\ e <= last
<1>1. WordOf(e) \in Nat /\ WordOf(last) \in Nat /\ e \in Nat /\ last \in Nat
  BY Place, Bounds DEF WordNos
<1>2. CASE WordOf(e) <= WordOf(last)
  BY <1>2, InsertAllWIs
<1>3. CASE WordOf(e) > WordOf(last)
  <2>1. last < e
    BY <1>1, <1>3, InOrder
  <2> QED
    BY <1>1, <1>3, <2>1, InsertAllWIs
<1> QED
  BY <1>1, <1>2, <1>3

LEMMA InvertedTo ==
    ASSUME NEW w \in Words, NEW last \in Els, NEW e \in Els, last < e => ~FHasElementW(w, e)
    PROVE  FHasElementW(BitwiseInvertW(w, last), e) <=> ~FHasElementW(w, e) /\ e <= last
<1>1. WordOf(e) \in Nat /\ WordOf(last) \in Nat /\ e \in Nat /\ last \in Nat
  BY Place, Bounds DEF WordNos
<1>2. CASE WordOf(e) <= WordOf(last)
  BY <1>2, BitwiseInvertWIs
<1>3. CASE WordOf(e) > WordOf(last)
  <2>1. last < e
    BY <1>1, <1>3, InOrder
  <2> QED
    BY <1>1, <1>3, <2>1, BitwiseInvertWIs
<1> QED
  BY <1>1, <1>2, <1>3

LEMMA InsertAllMade ==
    ASSUME NEW t, IsTree(t), t.last # 0
    PROVE  LET n == NCluster(t.last)
           IN  InsertAll(t, 0, t.last) =
                   Made(t, 0, t.last, InsertAllW(t.sum, 0, n),
                        [k \in DOMAIN t.cl |->
                            IF k > n THEN t.cl[k]
                            ELSE InsertAllW(t.cl[k], IF k = 0 THEN 0 + 1 ELSE 0,
                                            IF k = n THEN NElInCluster(t.last) ELSE Universe - 1)])
<1>1. SUFFICES ASSUME NEW u, u = InsertAll(t, 0, t.last)
               PROVE  u = Made(t, 0, t.last, InsertAllW(t.sum, 0, NCluster(t.last)),
                        [k \in DOMAIN t.cl |->
                            IF k > NCluster(t.last) THEN t.cl[k]
                            ELSE InsertAllW(t.cl[k], IF k = 0 THEN 0 + 1 ELSE 0,
                                            IF k = NCluster(t.last) THEN NElInCluster(t.last) ELSE Universe - 1)])
  OBVIOUS
<1>2. InsertAll(t, 0, t.last) = [t EXCEPT !.min = 0, !.max = t.last,
                       !.cl = [k \in DOMAIN t.cl |->
                            IF k > NCluster(t.last) THEN t.cl[k]
                            ELSE InsertAllW(t.cl[k], IF k = 0 THEN 0 + 1 ELSE 0,
                                            IF k = NCluster(t.last) THEN NElInCluster(t.last) ELSE Universe - 1)],
                       !.sum = InsertAllW(t.sum, 0, NCluster(t.last))]
  BY Zenon DEF InsertAll
<1> QED
  BY <1>1, <1>2 DEF IsTree, Made

LEMMA FillStands ==
    ASSUME NEW t, NEW S, Rep(t, S)
    PROVE  Stands(InsertAll(t, 0, t.last), t, 0 .. t.last)
<1> DEFINE n == NCluster(t.last)
           f == NElInCluster(t.last)
           from == [k \in 0 .. n |-> IF k = 0 THEN 0 + 1 ELSE 0]
           to == [k \in 0 .. n |-> IF k = n THEN f ELSE Universe - 1]
           c == [k \in DOMAIN t.cl |->
                    IF k > n THEN t.cl[k]
                    ELSE InsertAllW(t.cl[k], IF k = 0 THEN 0 + 1 ELSE 0, IF k = n THEN f ELSE Universe - 1)]
           s == InsertAllW(t.sum, 0, n)
<1>1. /\ IsTree(t) /\ n \in Els /\ t.cl \in Clusters(n) /\ Names(t.sum, t.cl) /\ S \subseteq 0 .. t.last
      /\ Held(t.cl) = S \ {t.min} /\ t.last \in Nat /\ t.last \in Places /\ DOMAIN t.cl = 0 .. n /\ t.sum \in Words
  <2>1. IsTree(t) /\ S \subseteq 0 .. t.last /\ Held(t.cl) = S \ {t.min}
    BY DEF Rep
  <2> QED
    BY <2>1, TreeIs, Bounds
<1>2. n \in Nat /\ 0 .. n \subseteq Els /\ f \in Els /\ f \in Nat /\ Universe - 1 \in Els /\ Universe - 1 > 0
      /\ NIndex(n, f) = t.last /\ \A k \in 0 .. n : k \in Nat
  <2>1. n \in Nat /\ 0 .. n \subseteq Els
    BY <1>1, ClusterNos, Bounds
  <2>2. f \in Els /\ f \in Nat /\ NIndex(n, f) = t.last
    BY <1>1, PlaceOf, Bounds
  <2>3. Universe - 1 \in Els /\ Universe - 1 > 0
    BY Ranges
  <2> HIDE DEF f, n
  <2> QED
    BY <2>1, <2>2, <2>3
<1>3. CASE t.last = 0
  <2>1. Held(t.cl) = {} /\ 0 .. t.last = {0}
    <3>1. S \subseteq {0} /\ 0 .. t.last = {0}
      BY <1>1, <1>3
    <3>2. S # {} => t.min \in S
      BY RepIs
    <3> QED
      BY <1>1, <3>1, <3>2
  <2>2. InsertAll(t, 0, t.last) = Made(t, 0, t.last, t.sum, t.cl)
    <3>1. SUFFICES ASSUME NEW u, u = InsertAll(t, 0, t.last) PROVE u = Made(t, 0, t.last, t.sum, t.cl)
      OBVIOUS
    <3>2. u = [t EXCEPT !.min = 0, !.max = t.last]
      BY <1>3, <3>1, Zenon DEF InsertAll
    <3> QED
      BY <1>1, <3>2 DEF IsTree, Made
  <2>3. Top(t.cl, 0, t.last)
    BY <1>3, <2>1 DEF Top
  <2>4. 0 \in 0 .. t.last
    BY <1>1
  <2>5. Stands(Made(t, 0, t.last, t.sum, t.cl), t, Held(t.cl) \cup {0})
    BY <1>1, <2>1, <2>3, <2>4, MadeStands
  <2> QED
    BY <2>1, <2>2, <2>5
<1>4. CASE t.last # 0
  <2>1. InsertAll(t, 0, t.last) = Made(t, 0, t.last, s, c)
    BY <1>1, <1>4, InsertAllMade
  <2>2. ASSUME NEW k \in 0 .. n
        PROVE  /\ c[k] = InsertAllW(t.cl[k], from[k], to[k]) /\ t.cl[k] \in Words
               /\ from[k] \in Nat /\ to[k] \in Els
    <3>1. c[k] = InsertAllW(t.cl[k], IF k = 0 THEN 0 + 1 ELSE 0, IF k = n THEN f ELSE Universe - 1)
      BY <1>1, <1>2
    <3>2. t.cl[k] \in Words
      BY <1>1 DEF Clusters
    <3> HIDE DEF c, f, n
    <3> QED
      BY <1>2, <3>1, <3>2
  <2>3. c \in Clusters(n)
    <3>1. \A k \in 0 .. n : c[k] \in Words
      BY <2>2, InsertAllWIs
    <3> QED
      BY <1>1, <3>1 DEF Clusters
  <2>4. ASSUME NEW x \in Places PROVE In(c, x) <=> x \in 1 .. t.last
    <3> DEFINE k == NCluster(x)
               e == NElInCluster(x)
    <3>1. k \in Els /\ e \in Els /\ k \in Nat /\ e \in Nat /\ x \in Nat
      BY PlaceOf, Bounds
    <3>2. CASE k \notin 0 .. n
      <4>1. ~(x <= t.last)
        BY <1>1, <1>2, <3>1, <3>2, PlaceOrder
      <4> QED
        BY <1>1, <3>1, <3>2, <4>1 DEF In
    <3>3. CASE k \in 0 .. n
      <4>0. c[k] = InsertAllW(t.cl[k], from[k], to[k]) /\ t.cl[k] \in Words /\ from[k] \in Nat /\ to[k] \in Els
        <5> HIDE DEF c, from, to
        <5> QED
          BY <2>2, <3>3
      <4>1. FHasElementW(c[k], e) <=> from[k] <= e /\ e <= to[k]
        <5>1. ASSUME to[k] < e PROVE ~FHasElementW(t.cl[k], e)
          <6>1. k = n /\ to[k] = f
            <7>1. e <= Universe - 1 /\ Universe - 1 \in Nat
              BY <3>1, Ranges DEF Els
            <7>2. to[k] = IF k = n THEN f ELSE Universe - 1
              <8> HIDE DEF n, f, k
              <8> QED
                BY <3>3
            <7> HIDE DEF e, f, n, k, to
            <7> QED
              BY <3>1, <5>1, <7>1, <7>2
          <6>2. t.last < x
            <7>1. f < e /\ k = n
              BY <5>1, <6>1
            <7>2. NCluster(t.last) = NCluster(x) /\ NElInCluster(t.last) < NElInCluster(x)
              BY <7>1
            <7> QED
              BY <1>1, <7>2, PlaceOrder
          <6>3. x \notin Held(t.cl)
            <7>1. ~(x <= t.last)
              BY <1>1, <3>1, <6>2
            <7>2. x \notin 0 .. t.last
              BY <7>1
            <7> QED
              BY <1>1, <7>2
          <6> QED
            BY <1>1, <3>3, <6>3 DEF Held, In
        <5> HIDE DEF c, from, to, k, e
        <5>2. FHasElementW(InsertAllW(t.cl[k], from[k], to[k]), e) <=> from[k] <= e /\ e <= to[k]
          BY <3>1, <4>0, <5>1, FilledTo
        <5> QED
          BY <4>0, <5>2
      <4>2. from[k] <= e <=> 1 <= x
        <5>1. x = k * Universe + e
          <6>1. NIndex(k, e) = x
            BY PlaceOf
          <6> QED
            BY <6>1 DEF NIndex
        <5>2. k = 0 => x = e
          BY <3>1, <5>1, Ranges
        <5>3. k # 0 => 1 <= x
          <6>1. NCluster(0) = 0
            BY Ranges DEF NCluster
          <6>2. k # 0 => 0 < x
            <7>1. NIndex(0, 0) = 0
              BY Ranges DEF NIndex
            <7>2. NCluster(0) = 0
              BY <7>1, IndexOf, Ranges
            <7> QED
              BY <3>1, <7>2, Bounds, PlaceOrder
          <6> QED
            BY <3>1, <6>2
        <5> HIDE DEF k, e
        <5>4. from[k] = IF k = 0 THEN 1 ELSE 0
          <6>1. k \in 0 .. n
            BY <3>3
          <6> HIDE DEF n
          <6> QED
            BY <6>1
        <5> HIDE DEF from
        <5> QED
          BY <3>1, <5>2, <5>3, <5>4
      <4>3. e <= to[k] <=> x <= t.last
        <5>1. k = n => (x < t.last <=> e < f) /\ (t.last < x <=> f < e)
          BY <1>1, PlaceOrder
        <5>2. k # n => x < t.last
          <6>1. k # n => k < n
            <7> HIDE DEF k, n
            <7> QED
              BY <1>2, <3>1, <3>3
          <6> QED
            BY <1>1, <6>1, PlaceOrder
        <5>3. e <= Universe - 1
          BY <3>1, Ranges DEF Els
        <5>4. to[k] = IF k = n THEN f ELSE Universe - 1
          <6>1. k \in 0 .. n
            BY <3>3
          <6> HIDE DEF n, k, f
          <6> QED
            BY <6>1
        <5> HIDE DEF to, n, k, f, e
        <5> QED
          BY <1>1, <1>2, <3>1, <5>1, <5>2, <5>3, <5>4
      <4>4. In(c, x) <=> FHasElementW(c[k], e)
        BY <1>1, <3>3 DEF In
      <4> HIDE DEF c, from, to, k, e
      <4> QED
        BY <1>1, <3>1, <4>1, <4>2, <4>3, <4>4
    <3> QED
      BY <3>2, <3>3
  <2>5. Held(c) = 1 .. t.last
    <3>1. 1 .. t.last \subseteq Places
      BY <1>1, Bounds DEF Places
    <3> HIDE DEF c
    <3> QED
      BY <2>4, <3>1 DEF Held
  <2> HIDE DEF c
  <2>6. Names(s, c)
    <3>1. s \in Words /\ \A k \in Els : FHasElementW(s, k) <=> k <= n
      <4>1. s \in Words
        <5> HIDE DEF n
        <5> QED
          BY <1>1, InsertAllWIs
      <4>2. ASSUME NEW k \in Els PROVE FHasElementW(s, k) <=> k <= n
        <5>1. n < k => ~FHasElementW(t.sum, k)
          <6> HIDE DEF n
          <6> QED
            BY <1>1, <1>2, Bounds DEF Names
        <5>2. FHasElementW(s, k) <=> 0 <= k /\ k <= n
          <6> HIDE DEF n
          <6> QED
            BY <1>1, <5>1, FilledTo
        <5>3. 0 <= k
          BY Bounds
        <5> QED
          BY <5>2, <5>3
      <4> QED
        BY <4>1, <4>2
    <3>2. ASSUME NEW k \in Els PROVE k <= n <=> \E x \in Held(c) : NCluster(x) = k
      <4>1. ASSUME k <= n PROVE \E x \in Held(c) : NCluster(x) = k
        <5>1. CASE k = n
          <6>1. t.last \in Held(c)
            <7>1. t.last >= 1
              BY <1>1, <1>4
            <7> QED
              BY <1>1, <2>5, <7>1
          <6> QED
            BY <5>1, <6>1
        <5>2. CASE k # n
          <6> DEFINE x == NIndex(k, Universe - 1)
          <6>1. x \in Places /\ NCluster(x) = k /\ x \in Nat
            BY <1>2, IndexOf, Bounds
          <6>2. k < n /\ k \in Nat
            <7> HIDE DEF n
            <7> QED
              BY <1>2, <4>1, <5>2, Bounds
          <6>3. x < t.last
            <7> HIDE DEF x
            <7> QED
              BY <1>1, <6>1, <6>2, PlaceOrder
          <6>4. x > 0
            <7>1. x = k * Universe + (Universe - 1) /\ k * Universe \in Nat /\ k * Universe >= 0
              BY <6>2, Ranges DEF NIndex
            <7> HIDE DEF x
            <7> QED
              BY <1>2, <7>1, Ranges
          <6> HIDE DEF x
          <6>5. x \in Held(c)
            BY <1>1, <2>5, <6>1, <6>3, <6>4
          <6> QED
            BY <6>1, <6>5
        <5> QED
          BY <5>1, <5>2
      <4>2. ASSUME NEW x \in Held(c), NCluster(x) = k PROVE k <= n
        <5>1. x \in Places /\ x <= t.last
          <6>1. x \in 1 .. t.last
            BY <2>5
          <6> QED
            BY <1>1, <6>1 DEF Held
        <5> QED
          BY <1>1, <4>2, <5>1, PlaceOrder
      <4> QED
        BY <4>1, <4>2
    <3> HIDE DEF s, n
    <3> QED
      BY <1>1, <2>3, <3>1, <3>2, NamesIs
  <2>7. Top(c, 0, t.last) /\ Held(c) \cup {0} = 0 .. t.last /\ Held(c) \subseteq 0 .. t.last
        /\ 0 \in 0 .. t.last /\ \A x \in Held(c) : 0 < x
    <3>1. t.last \in 1 .. t.last /\ \A x \in 1 .. t.last : x <= t.last /\ 0 < x
      BY <1>1, <1>4
    <3>2. Top(c, 0, t.last)
      BY <2>5, <3>1 DEF Top
    <3> QED
      BY <1>1, <2>5, <3>1, <3>2
  <2> HIDE DEF s, n
  <2>8. Stands(Made(t, 0, t.last, s, c), t, Held(c) \cup {0})
    BY <1>1, <2>3, <2>6, <2>7, MadeStands DEF n
  <2> QED
    BY <2>1, <2>7, <2>8
<1> QED
  BY <1>3, <1>4

\* The first cluster that is not empty holds the least element.
LEMMA FirstCluster ==
    ASSUME NEW n \in Els, NEW c \in Clusters(n), Held(c) # {}
    PROVE  LET first == Min(NonEmpty(c))
               y == NIndex(first, NMinW(c[first]))
           IN  /\ NonEmpty(c) \subseteq 0 .. n /\ first \in NonEmpty(c) /\ \A k \in NonEmpty(c) : first <= k
               /\ NMinW(c[first]) \in Els /\ FHasElementW(c[first], NMinW(c[first]))
               /\ y \in Held(c) /\ NCluster(y) = first /\ NElInCluster(y) = NMinW(c[first])
               /\ \A x \in Held(c) : y <= x
<1> DEFINE first == Min(NonEmpty(c))
           m == NMinW(c[first])
           y == NIndex(first, m)
<1>1. DOMAIN c = 0 .. n /\ 0 .. n \subseteq Els /\ n \in Nat /\ 0 .. n \subseteq Nat
  BY ClusterNos, Bounds DEF Clusters
<1>2. NonEmpty(c) \subseteq 0 .. n /\ NonEmpty(c) # {}
  <2>1. PICK x : x \in Held(c)
    OBVIOUS
  <2>2. NCluster(x) \in 0 .. n
    BY <1>1, <2>1 DEF Held, In
  <2>3. FHasAnyElements(c[NCluster(x)])
    BY <2>1, <2>2, HeldAnyAt
  <2> QED
    BY <1>1, <2>2, <2>3 DEF NonEmpty
<1>3. NonEmpty(c) \subseteq Nat
  BY <1>1, <1>2
<1>4. first \in NonEmpty(c) /\ \A k \in NonEmpty(c) : first <= k
  BY <1>2, <1>3, MinIs
<1> HIDE DEF first
<1>5. first \in 0 .. n /\ first \in Els /\ c[first] \in Words /\ FHasAnyElements(c[first])
  BY <1>1, <1>2, <1>4 DEF NonEmpty, Clusters
<1>6. m \in Els /\ FHasElementW(c[first], m) /\ \A e \in Els : FHasElementW(c[first], e) => m <= e
  BY <1>5, NMinWIs
<1> HIDE DEF m
<1>7. y \in Held(c) /\ y \in Places /\ NCluster(y) = first /\ NElInCluster(y) = m
  BY <1>5, <1>6, HeldAt, IndexOf
<1>8. ASSUME NEW x \in Held(c) PROVE y <= x
  <2>1. x \in Places /\ NCluster(x) \in 0 .. n /\ NElInCluster(x) \in Els
        /\ FHasElementW(c[NCluster(x)], NElInCluster(x))
    BY <1>1, PlaceOf DEF Held, In
  <2>2. NCluster(x) \in NonEmpty(c)
    <3>1. FHasAnyElements(c[NCluster(x)])
      BY <2>1, HeldAnyAt
    <3> QED
      BY <1>1, <2>1, <3>1 DEF NonEmpty
  <2>3. first <= NCluster(x) /\ (NCluster(x) = first => m <= NElInCluster(x))
    BY <1>4, <1>6, <2>1, <2>2
  <2>4. x \in Nat /\ y \in Nat /\ NCluster(x) \in Nat /\ first \in Nat /\ m \in Nat /\ NElInCluster(x) \in Nat
    BY <1>1, <1>5, <1>6, <1>7, <2>1, Bounds
  <2> HIDE DEF y
  <2>5. x < y => NCluster(x) < NCluster(y) \/ (NCluster(x) = NCluster(y) /\ NElInCluster(x) < NElInCluster(y))
    BY <1>7, <2>1, PlaceOrder
  <2>6. ~(x < y)
    BY <1>7, <2>3, <2>4, <2>5
  <2> QED
    BY <2>4, <2>6
<1> QED
  BY <1>2, <1>4, <1>6, <1>7, <1>8 DEF first, m

\* The greatest of the clusters' elements and of old.
LEMMA TopsAre ==
    ASSUME NEW n \in Els, NEW c \in Clusters(n), NEW old \in Places
    PROVE  LET top == Max({old} \cup Tops(c, NonEmpty(c)))
           IN  /\ top \in {old} \cup Held(c) /\ top \in Places
               /\ old <= top /\ \A x \in Held(c) : x <= top
<1> DEFINE At(k) == NIndex(k, NMaxW(c[k]))
           T == {old} \cup {At(k) : k \in NonEmpty(c)}
<1>1. DOMAIN c = 0 .. n /\ 0 .. n \subseteq Els /\ n \in Nat
  BY ClusterNos, Bounds DEF Clusters
<1>2. ASSUME NEW k \in NonEmpty(c)
      PROVE  /\ At(k) \in Held(c) /\ At(k) \in Places
             /\ \A x \in Held(c) : NCluster(x) = k => x <= At(k)
  <2>1. k \in 0 .. n /\ k \in Els /\ c[k] \in Words /\ FHasAnyElements(c[k])
    BY <1>1 DEF NonEmpty, Clusters
  <2>2. NMaxW(c[k]) \in Els /\ FHasElementW(c[k], NMaxW(c[k])) /\ \A e \in Els : FHasElementW(c[k], e) => e <= NMaxW(c[k])
    BY <2>1, NMaxWIs
  <2>3. At(k) \in Held(c) /\ At(k) \in Places /\ NCluster(At(k)) = k /\ NElInCluster(At(k)) = NMaxW(c[k])
    BY <2>1, <2>2, HeldAt, IndexOf
  <2>4. ASSUME NEW x \in Held(c), NCluster(x) = k PROVE x <= At(k)
    <3>1. x \in Places /\ NElInCluster(x) \in Els /\ FHasElementW(c[k], NElInCluster(x))
      BY <2>4, PlaceOf DEF Held, In
    <3>2. NElInCluster(x) <= NMaxW(c[k])
      BY <2>2, <3>1
    <3>3. x \in Nat /\ At(k) \in Nat /\ NElInCluster(x) \in Nat /\ NMaxW(c[k]) \in Nat
      BY <2>2, <2>3, <3>1, Bounds
    <3> HIDE DEF At
    <3>4. At(k) < x => NMaxW(c[k]) < NElInCluster(x)
      BY <2>3, <2>4, <3>1, PlaceOrder
    <3> QED
      BY <3>2, <3>3, <3>4
  <2> QED
    BY <2>3, <2>4
<1> HIDE DEF At
<1>3. T \subseteq 0 .. LastOfAll /\ LastOfAll \in Nat
  BY <1>2, Bounds DEF Places
<1>4. Max(T) \in T /\ \A z \in T : Max(T) >= z
  BY <1>3, MaxIs
<1>5. ASSUME NEW x \in Held(c) PROVE x <= Max(T)
  <2>1. x \in Places /\ NCluster(x) \in NonEmpty(c)
    <3>1. x \in Places /\ NCluster(x) \in 0 .. n
      BY <1>1 DEF Held, In
    <3>2. FHasAnyElements(c[NCluster(x)])
      BY <3>1, HeldAnyAt
    <3> QED
      BY <1>1, <3>1, <3>2 DEF NonEmpty
  <2>2. x <= At(NCluster(x)) /\ At(NCluster(x)) \in T /\ At(NCluster(x)) \in Places
    BY <1>2, <2>1
  <2>3. At(NCluster(x)) <= Max(T)
    BY <1>3, <1>4, <2>2
  <2> QED
    BY <1>3, <1>4, <2>1, <2>2, <2>3, Bounds
<1>6. Max(T) \in {old} \cup Held(c) /\ Max(T) \in Places /\ old <= Max(T)
  <2>1. Max(T) \in {old} \cup Held(c) /\ Max(T) \in Places
    BY <1>2, <1>4
  <2>2. Max(T) >= old /\ Max(T) \in Nat /\ old \in Nat
    BY <1>4, <2>1, Bounds
  <2> QED
    BY <2>1, <2>2
<1>7. T = {old} \cup Tops(c, NonEmpty(c))
  BY DEF T, At, Tops
<1> HIDE DEF T
<1> QED
  BY <1>5, <1>6, <1>7

LEMMA RebuiltMade ==
    ASSUME NEW t, IsTree(t), NEW c, NEW ks
    PROVE  Rebuilt(t, c, ks) = Made(t, LeastOf(c, ks), Max({0} \cup Tops(c, ks)),
                                    WordsOf(NonEmpty(Taken(c, ks))), Taken(c, ks))
<1>1. SUFFICES ASSUME NEW u, u = Rebuilt(t, c, ks)
               PROVE  u = Made(t, LeastOf(c, ks), Max({0} \cup Tops(c, ks)),
                               WordsOf(NonEmpty(Taken(c, ks))), Taken(c, ks))
  OBVIOUS
<1> QED
  BY <1>1 DEF Rebuilt, IsTree, Made

\* The clusters without their least element.
LEMMA TakenIs ==
    ASSUME NEW n \in Els, NEW c \in Clusters(n), Held(c) # {}
    PROVE  LET ks == NonEmpty(c)
               y == LeastOf(c, ks)
               rest == Taken(c, ks)
           IN  /\ y \in Held(c) /\ \A x \in Held(c) : y <= x
               /\ rest \in Clusters(n) /\ Held(rest) = Held(c) \ {y} /\ Names(WordsOf(NonEmpty(rest)), rest)
               /\ \A x \in Held(rest) : y < x
<1> DEFINE first == Min(NonEmpty(c))
           m == NMinW(c[first])
           y == NIndex(first, m)
           rest == [c EXCEPT ![first] = DeleteW(@, NMinW(@))]
<1>1. /\ NonEmpty(c) \subseteq 0 .. n /\ first \in NonEmpty(c) /\ y \in Held(c)
      /\ NCluster(y) = first /\ NElInCluster(y) = m /\ \A x \in Held(c) : y <= x
  BY FirstCluster
<1>2. y \in Places /\ NCluster(y) \in 0 .. n /\ Names(WordsOf(NonEmpty(c)), c)
  BY <1>1, NamesNonEmpty DEF Held
<1>3. rest = WithoutNumber(c, y)
  <2>1. rest = [c EXCEPT ![first] = DeleteW(@, m)]
    OBVIOUS
  <2> HIDE DEF y, m, first, rest
  <2> QED
    BY <1>1, <2>1, Zenon DEF WithoutNumber
<1>4. y = LeastOf(c, NonEmpty(c)) /\ rest = Taken(c, NonEmpty(c))
  BY DEF LeastOf, Taken
<1> HIDE DEF y, rest
<1>5. WithoutNumber(c, y) \in Clusters(n) /\ Held(WithoutNumber(c, y)) = Held(c) \ {y}
  BY <1>2, ClusterDelete
<1>6. Names(WordsOf(NonEmpty(rest)), rest)
  BY <1>3, <1>5, NamesNonEmpty
<1>7. \A x \in Held(rest) : y < x
  BY <1>1, <1>2, <1>3, <1>5, Bounds DEF Held
<1> QED
  BY <1>1, <1>3, <1>4, <1>5, <1>6, <1>7

LEMMA RebuiltStands ==
    ASSUME NEW t, IsTree(t), NEW c \in Clusters(NCluster(t.last)), Held(c) # {}, Held(c) \subseteq 0 .. t.last
    PROVE  Stands(Rebuilt(t, c, NonEmpty(c)), t, Held(c))
<1> DEFINE n == NCluster(t.last)
           y == LeastOf(c, NonEmpty(c))
           rest == Taken(c, NonEmpty(c))
           top == Max({0} \cup Tops(c, NonEmpty(c)))
           s == WordsOf(NonEmpty(rest))
<1>1. n \in Els
  BY TreeIs
<1>2. /\ y \in Held(c) /\ \A x \in Held(c) : y <= x
      /\ rest \in Clusters(n) /\ Held(rest) = Held(c) \ {y} /\ Names(s, rest) /\ \A x \in Held(rest) : y < x
  BY <1>1, TakenIs
<1>3. Rebuilt(t, c, NonEmpty(c)) = Made(t, y, top, s, rest)
  BY RebuiltMade
<1>4. top \in Held(c) /\ \A x \in Held(c) : x <= top
  <2>1. 0 \in Places /\ y \in Nat
    BY <1>2, Bounds DEF Held
  <2>2. top \in {0} \cup Held(c) /\ \A x \in Held(c) : x <= top
    BY <1>1, <2>1, TopsAre
  <2> HIDE DEF y, top
  <2>3. top = 0 => y = 0
    BY <1>2, <2>1, <2>2
  <2> QED
    BY <1>2, <2>2, <2>3
<1> HIDE DEF y, rest, top, s, n
<1>6. Top(rest, y, top)
  <2>1. CASE Held(rest) = {}
    BY <1>2, <1>4, <2>1 DEF Top
  <2>2. CASE Held(rest) # {}
    <3>1. PICK x : x \in Held(rest)
      BY <2>2
    <3>2. y < x /\ x <= top /\ x \in Nat /\ y \in Nat /\ top \in Nat
      BY <1>2, <1>4, <3>1, Bounds DEF Held
    <3>3. top # y
      BY <3>2
    <3> QED
      BY <1>2, <1>4, <2>2, <3>3 DEF Top
  <2> QED
    BY <2>1, <2>2
<1>7. Held(rest) \cup {y} = Held(c) /\ y \in 0 .. t.last /\ Held(rest) \subseteq 0 .. t.last
  BY <1>2
<1>8. Stands(Made(t, y, top, s, rest), t, Held(rest) \cup {y})
  BY <1>2, <1>6, <1>7, MadeStands DEF n
<1> QED
  BY <1>3, <1>7, <1>8

LEMMA UpToLast ==
    ASSUME NEW last \in Places, NEW x \in Places, NCluster(x) \in 0 .. NCluster(last)
    PROVE  LET to == IF NCluster(x) = NCluster(last) THEN NElInCluster(last) ELSE Universe - 1
           IN  to \in Els /\ (NElInCluster(x) <= to <=> x <= last)
<1> DEFINE k == NCluster(x)
           n == NCluster(last)
           e == NElInCluster(x)
           f == NElInCluster(last)
<1>1. /\ k \in Els /\ e \in Els /\ n \in Els /\ f \in Els /\ k \in Nat /\ e \in Nat /\ n \in Nat /\ f \in Nat
      /\ x \in Nat /\ last \in Nat /\ Universe - 1 \in Els /\ Universe - 1 \in Nat /\ e <= Universe - 1
  <2>1. /\ k \in Els /\ e \in Els /\ n \in Els /\ f \in Els /\ k \in Nat /\ e \in Nat /\ n \in Nat /\ f \in Nat
        /\ x \in Nat /\ last \in Nat
    BY PlaceOf, Bounds
  <2> HIDE DEF k, n, e, f
  <2> QED
    BY <2>1, Ranges DEF Els
<1>2. k = n => (x < last <=> e < f) /\ (last < x <=> f < e)
  BY PlaceOrder
<1>3. k # n => x < last
  <2>0. k \in 0 .. n
    OBVIOUS
  <2>1. k # n => k < n
    <3> HIDE DEF k, n
    <3> QED
      BY <1>1, <2>0
  <2> QED
    BY <2>1, PlaceOrder
<1> HIDE DEF k, n, e, f
<1>4. LET to == IF k = n THEN f ELSE Universe - 1 IN to \in Els /\ (e <= to <=> x <= last)
  BY <1>1, <1>2, <1>3
<1> QED
  BY <1>4 DEF k, n, e, f

LEMMA InvertedIs ==
    ASSUME NEW t, NEW S, Rep(t, S)
    PROVE  /\ Inverted(t) \in Clusters(NCluster(t.last))
           /\ Held(Inverted(t)) = (0 .. t.last) \ Held(t.cl)
<1> DEFINE n == NCluster(t.last)
           to == [k \in 0 .. n |-> IF k = n THEN NElInCluster(t.last) ELSE Universe - 1]
           c == Inverted(t)
<1>1. /\ n \in Els /\ t.cl \in Clusters(n) /\ Held(t.cl) \subseteq 0 .. t.last /\ n \in Nat
      /\ t.last \in Nat /\ t.last \in Places /\ DOMAIN t.cl = 0 .. n
      /\ NElInCluster(t.last) \in Els /\ Universe - 1 \in Els
  <2>1. IsTree(t) /\ Held(t.cl) \subseteq 0 .. t.last
    BY DEF Rep
  <2>2. t.last \in Places
    BY <2>1, TreeIs
  <2> QED
    BY <2>1, <2>2, TreeIs, Bounds, PlaceOf, Ranges
<1>2. ASSUME NEW k \in 0 .. n
      PROVE  c[k] = BitwiseInvertW(t.cl[k], to[k]) /\ t.cl[k] \in Words /\ to[k] \in Els /\ c[k] \in Words
  <2>1. c[k] = BitwiseInvertW(t.cl[k], IF k = n THEN NElInCluster(t.last) ELSE Universe - 1)
    BY <1>1 DEF Inverted
  <2>2. t.cl[k] \in Words
    BY <1>1 DEF Clusters
  <2> HIDE DEF c, n
  <2>3. to[k] = IF k = n THEN NElInCluster(t.last) ELSE Universe - 1
    OBVIOUS
  <2>4. to[k] \in Els
    BY <1>1, <2>3
  <2> HIDE DEF to
  <2>5. c[k] = BitwiseInvertW(t.cl[k], to[k])
    BY <2>1, <2>3
  <2> QED
    BY <2>2, <2>4, <2>5, BitwiseInvertWIs
<1>3. DOMAIN c = 0 .. n /\ c = [k \in 0 .. n |-> c[k]]
  BY <1>1 DEF Inverted
<1> HIDE DEF c
<1>4. c \in Clusters(n)
  BY <1>2, <1>3 DEF Clusters
<1>5. ASSUME NEW x \in Places PROVE In(c, x) <=> x \in 0 .. t.last /\ x \notin Held(t.cl)
  <2> DEFINE k == NCluster(x)
             e == NElInCluster(x)
  <2>1. k \in Els /\ e \in Els /\ k \in Nat /\ e \in Nat /\ x \in Nat
    BY PlaceOf, Bounds
  <2>2. CASE k \notin 0 .. n
    <3>1. ~(x <= t.last)
      BY <1>1, <2>1, <2>2, PlaceOrder
    <3> QED
      BY <1>1, <1>3, <2>1, <2>2, <3>1 DEF In
  <2>3. CASE k \in 0 .. n
    <3>1. to[k] = IF k = n THEN NElInCluster(t.last) ELSE Universe - 1
      <4> HIDE DEF k, n
      <4> QED
        BY <2>3
    <3>2. to[k] \in Nat /\ to[k] \in Els /\ c[k] = BitwiseInvertW(t.cl[k], to[k]) /\ t.cl[k] \in Words
      <4> HIDE DEF to, k, n
      <4> QED
        BY <1>2, <2>3, Bounds
    <3> HIDE DEF to
    <3>3. e <= to[k] <=> x <= t.last
      BY <1>1, <2>3, <3>1, UpToLast
    <3>4. FHasElementW(t.cl[k], e) <=> x \in Held(t.cl)
      BY <1>1, <2>3 DEF Held, In
    <3>5. to[k] < e => ~FHasElementW(t.cl[k], e)
      <4>1. to[k] < e => x \notin 0 .. t.last
        BY <1>1, <2>1, <3>2, <3>3
      <4> QED
        BY <1>1, <3>4, <4>1
    <3>6. In(c, x) <=> FHasElementW(c[k], e)
      BY <1>3, <2>3 DEF In
    <3> HIDE DEF k, e
    <3>7. FHasElementW(BitwiseInvertW(t.cl[k], to[k]), e) <=> ~FHasElementW(t.cl[k], e) /\ e <= to[k]
      BY <2>1, <3>2, <3>5, InvertedTo
    <3>8. x \in 0 .. t.last <=> x <= t.last
      BY <1>1, <2>1
    <3> QED
      BY <3>2, <3>3, <3>4, <3>6, <3>7, <3>8
  <2> QED
    BY <2>2, <2>3
<1>6. 0 .. t.last \subseteq Places
  BY <1>1, Bounds DEF Places
<1>7. Held(c) = (0 .. t.last) \ Held(t.cl)
  BY <1>5, <1>6 DEF Held
<1> QED
  BY <1>4, <1>7 DEF c

\* A tree of t's shape that has been changed into another one of t's shape.
LEMMA StandsAgain ==
    ASSUME NEW t, NEW u, NEW v, NEW S, NEW T, Stands(u, t, S), Stands(v, u, T)
    PROVE  Stands(v, t, T)
  BY DEF Stands

LEMMA InvertStands ==
    ASSUME NEW t, NEW S, Rep(t, S)
    PROVE  Stands(BitwiseInvert(t), t, (0 .. t.last) \ S)
<1> DEFINE A == 0 .. t.last
           u == InsertAll(t, 0, t.last)
           v == Rebuilt(t, Inverted(t), NonEmpty(Inverted(t)))
<1>1. IsTree(t) /\ S \subseteq A /\ Held(t.cl) = S \ {t.min} /\ (S # {} => t.min \in S)
  BY RepIs DEF Rep
<1>2. Stands(u, t, A) /\ Rep(u, A)
  BY FillStands DEF Stands
<1> HIDE DEF u
<1>3. CASE S = {}
  <2>1. ~HasAny(t)
    BY <1>3, RepIs
  <2>2. BitwiseInvert(t) = u
    BY <2>1, Zenon DEF BitwiseInvert, u
  <2> QED
    BY <1>2, <1>3, <2>2
<1>4. CASE S # {} /\ HasOne(t)
  <2>1. HasAny(t) /\ S = {t.min}
    BY <1>4, RepIs
  <2>2. BitwiseInvert(t) = Delete(u, t.min)
    BY <1>4, <2>1, Zenon DEF BitwiseInvert, u
  <2>3. t.min \in A
    BY <1>1, <2>1
  <2>4. Stands(Delete(u, t.min), u, A \ {t.min})
    BY <1>2, <2>3, DeleteStands
  <2> QED
    BY <1>2, <2>1, <2>2, <2>4, StandsAgain
<1>5. CASE S # {} /\ ~HasOne(t)
  <2>1. HasAny(t) /\ t.min \in S
    BY <1>5, RepIs
  <2>2. BitwiseInvert(t) = Delete(v, t.min)
    BY <1>5, <2>1, Zenon DEF BitwiseInvert
  <2>3. Inverted(t) \in Clusters(NCluster(t.last)) /\ Held(Inverted(t)) = A \ Held(t.cl)
    BY InvertedIs
  <2>4. t.min \in Held(Inverted(t))
    BY <1>1, <2>1, <2>3
  <2>5. Stands(v, t, A \ Held(t.cl))
    <3>1. Held(Inverted(t)) \subseteq A
      BY <2>3
    <3>2. Stands(v, t, Held(Inverted(t)))
      BY <1>1, <2>3, <2>4, <3>1, RebuiltStands
    <3> QED
      BY <2>3, <3>2
  <2> HIDE DEF v, A
  <2>6. Stands(Delete(v, t.min), v, (A \ Held(t.cl)) \ {t.min})
    BY <2>3, <2>4, <2>5, DeleteStands DEF Stands
  <2>7. (A \ Held(t.cl)) \ {t.min} = A \ S
    BY <1>1, <2>1
  <2>8. Stands(Delete(v, t.min), t, A \ S)
    BY <2>5, <2>6, <2>7, StandsAgain
  <2> QED
    BY <2>2, <2>8 DEF A
<1> QED
  BY <1>3, <1>4, <1>5

-----------------------------------------------------------------------------
(* Trees of a shape, and the operations on two of them. *)

LEMMA BlankStands ==
    ASSUME NEW kind \in {"wrap", "fixed"}, NEW n \in 1 .. LastOfAll + 1, kind = "fixed" => n = LastOfAll + 1
    PROVE  Rep(Blank(kind, n), {}) /\ Blank(kind, n).kind = kind /\ Blank(kind, n).last = n - 1
<1> DEFINE t == Blank(kind, n)
           last == IF kind = "wrap" THEN n - 1 ELSE LastOfAll
           none == IF kind = "wrap" THEN LastOfAll ELSE LastOfAll + 1
           c == [k \in 0 .. NCluster(last) |-> ZeroWords]
<1>1. last = n - 1 /\ last \in Places
  BY Bounds DEF Places
<1>2. t = [kind |-> kind, last |-> last, none |-> none, min |-> none, max |-> 0, sum |-> ZeroWords, cl |-> c]
  BY DEF Blank
<1>3. /\ t.kind = kind /\ t.last = last /\ t.none = none /\ t.min = none /\ t.max = 0 /\ t.sum = ZeroWords
      /\ t.cl = c
  BY <1>2
<1>4. t = Made(t, t.min, t.max, t.sum, t.cl)
  BY <1>2, <1>3 DEF Made
<1>5. c \in Clusters(NCluster(last)) /\ Names(ZeroWords, c) /\ Held(c) = {}
  BY <1>1, PlaceOf, NoClusters
<1>6. none = IF t.kind = "wrap" THEN LastOfAll ELSE LastOfAll + 1
  BY <1>3
<1>7. t.kind = "fixed" => t.last = LastOfAll
  BY <1>1, <1>3, Bounds
<1> HIDE DEF t, last, none, c
<1>8. IsTree(t)
  BY <1>1, <1>3, <1>4, <1>5, <1>6, <1>7 DEF IsTree
<1>9. Rep(t, {})
  BY <1>3, <1>5, <1>8 DEF Rep, Extremes
<1> QED
  BY <1>1, <1>3, <1>9 DEF t

LEMMA HoldingMade ==
    ASSUME NEW t, IsTree(t), NEW S, S # {}
    PROVE  LET cl == [k \in 0 .. NCluster(t.last) |->
                          WordsOf({x % Universe : x \in {y \in S \ {Min(S)} : NCluster(y) = k}})]
           IN  Holding(t, S) = Made(t, Min(S), Max(S), WordsOf(NonEmpty(cl)), cl)
<1> DEFINE e == Blank(t.kind, t.last + 1)
           cl == [k \in 0 .. NCluster(t.last) |->
                      WordsOf({x % Universe : x \in {y \in S \ {Min(S)} : NCluster(y) = k}})]
           s == WordsOf(NonEmpty(cl))
<1>1. /\ t.kind \in {"wrap", "fixed"} /\ (t.kind = "fixed" => t.last = LastOfAll)
      /\ t.none = IF t.kind = "wrap" THEN LastOfAll ELSE LastOfAll + 1
      /\ t.last \in Nat
  BY TreeIs, Bounds DEF IsTree
<1>2. (IF t.kind = "wrap" THEN (t.last + 1) - 1 ELSE LastOfAll) = t.last
  BY <1>1
<1>3. e = [kind |-> t.kind, last |-> t.last, none |-> t.none, min |-> t.none, max |-> 0,
           sum |-> ZeroWords, cl |-> [k \in 0 .. NCluster(t.last) |-> ZeroWords]]
  BY <1>1, <1>2, Zenon DEF Blank
<1>4. DOMAIN e.cl = 0 .. NCluster(t.last)
  BY <1>3
<1> HIDE DEF e
<1>5. Holding(t, S) = [e EXCEPT !.min = Min(S), !.max = Max(S), !.cl = cl, !.sum = s]
  BY <1>4, Zenon DEF Holding, e
<1>6. SUFFICES ASSUME NEW u, u = Holding(t, S) PROVE u = Made(t, Min(S), Max(S), s, cl)
  OBVIOUS
<1> HIDE DEF s, cl
<1> QED
  BY <1>3, <1>5, <1>6 DEF Made

\* The right operand is a tree of the same shape.
LEMMA HoldingStands ==
    ASSUME NEW t, IsTree(t), NEW S, S \subseteq 0 .. t.last
    PROVE  Stands(Holding(t, S), t, S)
<1>1. t.last \in Nat /\ t.last \in Places /\ t.last + 1 \in 1 .. LastOfAll + 1
      /\ t.kind \in {"wrap", "fixed"} /\ (t.kind = "fixed" => t.last = LastOfAll)
      /\ NCluster(t.last) \in Els
  BY TreeIs, Bounds DEF IsTree, Places
<1>2. CASE S = {}
  <2>1. Holding(t, S) = Blank(t.kind, t.last + 1)
    BY <1>2, Zenon DEF Holding
  <2>2. t.kind = "fixed" => t.last + 1 = LastOfAll + 1
    BY <1>1
  <2>3. /\ Rep(Blank(t.kind, t.last + 1), {}) /\ Blank(t.kind, t.last + 1).kind = t.kind
        /\ Blank(t.kind, t.last + 1).last = (t.last + 1) - 1
    BY <1>1, <2>2, BlankStands
  <2> QED
    BY <1>1, <1>2, <2>1, <2>3 DEF Stands
<1>3. CASE S # {}
  <2> DEFINE n == NCluster(t.last)
             mn == Min(S)
             mx == Max(S)
             Rest(k) == {y \in S \ {mn} : NCluster(y) = k}
             c == [k \in 0 .. n |-> WordsOf({x % Universe : x \in Rest(k)})]
             s == WordsOf(NonEmpty(c))
  <2>1. Holding(t, S) = Made(t, mn, mx, s, c)
    BY <1>3, HoldingMade
  <2>2. S \subseteq Nat /\ S \subseteq Places
    BY <1>1, TreeIs, Bounds
  <2>3. mn \in S /\ mx \in S /\ \A x \in S : mn <= x /\ x <= mx
    <3>1. mn \in S /\ \A x \in S : mn <= x
      BY <1>3, <2>2, MinIs
    <3>2. mx \in S /\ \A x \in S : mx >= x
      BY <1>1, <1>3, MaxIs
    <3>3. mx \in Nat /\ \A x \in S : x \in Nat
      BY <2>2, <3>2
    <3> HIDE DEF mn, mx
    <3> QED
      BY <3>1, <3>2, <3>3
  <2> HIDE DEF mn, mx
  <2>4. c \in Clusters(n)
    BY WordsOfIs DEF Clusters
  <2>5. ASSUME NEW x \in Places PROVE In(c, x) <=> x \in S /\ x # mn
    <3> DEFINE k == NCluster(x)
               e == NElInCluster(x)
    <3>1. CASE k \in 0 .. n
      <4>1. FHasElementW(c[k], e) <=> e \in {z % Universe : z \in Rest(k)}
        <5>1. c[k] = WordsOf({z % Universe : z \in Rest(k)})
          <6> HIDE DEF k
          <6> QED
            BY <3>1
        <5>2. e \in Els
          BY PlaceOf
        <5> HIDE DEF c, Rest, k, e
        <5> QED
          BY <5>1, <5>2, WordsOfIs
      <4>2. e \in {z % Universe : z \in Rest(k)} <=> x \in S /\ x # mn
        <5>1. ASSUME NEW z \in Rest(k), e = z % Universe PROVE x \in S /\ x # mn
          <6>1. z \in Places /\ NCluster(z) = NCluster(x) /\ NElInCluster(z) = NElInCluster(x)
            BY <2>2, <5>1 DEF NElInCluster
          <6>2. z = x
            BY <6>1, SameIndex
          <6> QED
            BY <6>2
        <5>2. ASSUME x \in S, x # mn PROVE e \in {z % Universe : z \in Rest(k)}
          <6>1. x \in Rest(k) /\ e = x % Universe
            BY <5>2 DEF NElInCluster
          <6> QED
            BY <6>1
        <5> QED
          BY <5>1, <5>2
      <4>3. In(c, x) <=> FHasElementW(c[k], e)
        BY <3>1 DEF In
      <4> QED
        BY <4>1, <4>2, <4>3
    <3>2. CASE k \notin 0 .. n
      <4>1. x \notin S
        BY <3>2, TreeIs
      <4> QED
        BY <3>2, <4>1 DEF In
    <3> QED
      BY <3>1, <3>2
  <2>6. Held(c) = S \ {mn}
    <3> HIDE DEF c
    <3> QED
      BY <2>2, <2>5 DEF Held
  <2>7. Names(s, c)
    <3> HIDE DEF c, n
    <3> QED
      BY <1>1, <2>4, NamesNonEmpty DEF n
  <2> HIDE DEF c, s
  <2>8. S # {} => mn \in S /\ mx \in S /\ \A x \in S : mn <= x /\ x <= mx
    BY <2>3
  <2>9. S = {} => mn = t.none /\ mx = 0
    BY <1>3
  <2>10. Rep(Made(t, mn, mx, s, c), S)
    BY <2>4, <2>6, <2>7, <2>8, <2>9, MadeRep
  <2> QED
    BY <2>1, <2>10 DEF Stands, Made
<1> QED
  BY <1>2, <1>3

LEMMA NamesSay ==
    ASSUME NEW n \in Els, NEW c \in Clusters(n), NEW s, Names(s, c)
    PROVE  s \in Words /\ \A k \in Els : FHasElementW(s, k) <=> \E x \in Held(c) : NCluster(x) = k
<1>1. DOMAIN c = 0 .. n /\ 0 .. n \subseteq Els
  BY ClusterNos DEF Clusters
<1>2. ASSUME NEW k \in Els PROVE FHasElementW(s, k) <=> \E x \in Held(c) : NCluster(x) = k
  <2>1. CASE k \in 0 .. n
    BY <1>1, <2>1, HeldAnyAt DEF Names
  <2>2. CASE k \notin 0 .. n
    BY <1>1, <2>2 DEF Held, In, Names
  <2> QED
    BY <2>1, <2>2
<1> QED
  BY <1>2 DEF Names

\* Clusters that are combined word by word.
LEMMA ClustersOr ==
    ASSUME NEW n \in Els, NEW c \in Clusters(n), NEW d \in Clusters(n),
           NEW s, NEW r, Names(s, c), Names(r, d)
    PROVE  LET b == [k \in 0 .. n |-> OrW(c[k], d[k])]
           IN  b \in Clusters(n) /\ Held(b) = Held(c) \cup Held(d) /\ Names(OrW(s, r), b)
<1> DEFINE b == [k \in 0 .. n |-> OrW(c[k], d[k])]
<1>1. \A k \in 0 .. n : c[k] \in Words /\ d[k] \in Words
  BY DEF Clusters
<1>2. DOMAIN c = 0 .. n /\ DOMAIN d = 0 .. n /\ DOMAIN b = 0 .. n
  BY DEF Clusters
<1>3. b \in Clusters(n)
  BY <1>1, BothW DEF Clusters
<1>4. ASSUME NEW x \in Places PROVE In(b, x) <=> In(c, x) \/ In(d, x)
  <2>1. NElInCluster(x) \in Els
    BY PlaceOf
  <2> QED
    BY <1>1, <1>2, <2>1, BothW DEF In
<1> HIDE DEF b
<1>5. Held(b) = Held(c) \cup Held(d)
  BY <1>4 DEF Held
<1>6. s \in Words /\ \A k \in Els : FHasElementW(s, k) <=> \E x \in Held(c) : NCluster(x) = k
  BY NamesSay
<1>7. r \in Words /\ \A k \in Els : FHasElementW(r, k) <=> \E x \in Held(d) : NCluster(x) = k
  BY NamesSay
<1>8. OrW(s, r) \in Words /\ \A k \in Els : FHasElementW(OrW(s, r), k) <=> FHasElementW(s, k) \/ FHasElementW(r, k)
  BY <1>6, <1>7, BothW
<1>9. \A k \in Els : FHasElementW(OrW(s, r), k) <=> \E x \in Held(b) : NCluster(x) = k
  BY <1>5, <1>6, <1>7, <1>8
<1>10. Names(OrW(s, r), b)
  BY <1>3, <1>8, <1>9, NamesIs
<1> QED
  BY <1>3, <1>5, <1>10 DEF b

LEMMA ClustersAnd ==
    ASSUME NEW n \in Els, NEW c \in Clusters(n), NEW d \in Clusters(n)
    PROVE  LET b == [k \in 0 .. n |-> AndW(c[k], d[k])]
           IN  b \in Clusters(n) /\ Held(b) = Held(c) \cap Held(d)
<1> DEFINE b == [k \in 0 .. n |-> AndW(c[k], d[k])]
<1>1. \A k \in 0 .. n : c[k] \in Words /\ d[k] \in Words
  BY DEF Clusters
<1>2. DOMAIN c = 0 .. n /\ DOMAIN d = 0 .. n /\ DOMAIN b = 0 .. n
  BY DEF Clusters
<1>3. b \in Clusters(n)
  BY <1>1, BothW DEF Clusters
<1>4. ASSUME NEW x \in Places PROVE In(b, x) <=> In(c, x) /\ In(d, x)
  <2>1. NElInCluster(x) \in Els
    BY PlaceOf
  <2> QED
    BY <1>1, <1>2, <2>1, BothW DEF In
<1> QED
  BY <1>3, <1>4 DEF Held

XorOf(c, d, ks) == [k \in DOMAIN c |-> IF k \in ks THEN XorW(c[k], d[k]) ELSE c[k]]

LEMMA ClustersXor ==
    ASSUME NEW n \in Els, NEW c \in Clusters(n), NEW d \in Clusters(n), NEW ks,
           \A k \in 0 .. n : k \notin ks => ~FHasAnyElements(d[k])
    PROVE  XorOf(c, d, ks) \in Clusters(n) /\ Held(XorOf(c, d, ks)) = (Held(c) \ Held(d)) \cup (Held(d) \ Held(c))
<1> DEFINE b == XorOf(c, d, ks)
<1>0. b = [k \in 0 .. n |-> IF k \in ks THEN XorW(c[k], d[k]) ELSE c[k]]
  BY DEF XorOf, Clusters
<1> HIDE DEF b
<1>1. \A k \in 0 .. n : c[k] \in Words /\ d[k] \in Words
  BY DEF Clusters
<1>2. DOMAIN c = 0 .. n /\ DOMAIN d = 0 .. n /\ DOMAIN b = 0 .. n
  BY <1>0 DEF Clusters
<1>3. b \in Clusters(n)
  BY <1>0, <1>1, BothW DEF Clusters
<1>4. ASSUME NEW x \in Places PROVE In(b, x) <=> ~(In(c, x) <=> In(d, x))
  <2>1. NElInCluster(x) \in Els
    BY PlaceOf
  <2>2. CASE NCluster(x) \in 0 .. n /\ NCluster(x) \in ks
    <3>1. b[NCluster(x)] = XorW(c[NCluster(x)], d[NCluster(x)])
      BY <1>0, <2>2
    <3>2. FHasElementW(b[NCluster(x)], NElInCluster(x)) <=>
             ~(FHasElementW(c[NCluster(x)], NElInCluster(x)) <=> FHasElementW(d[NCluster(x)], NElInCluster(x)))
      BY <1>1, <2>1, <2>2, <3>1, BothW
    <3> QED
      BY <1>2, <2>2, <3>2 DEF In
  <2>3. CASE NCluster(x) \in 0 .. n /\ NCluster(x) \notin ks
    <3>1. b[NCluster(x)] = c[NCluster(x)]
      BY <1>0, <2>3
    <3>2. ~FHasElementW(d[NCluster(x)], NElInCluster(x))
      BY <1>1, <2>1, <2>3, HasAnyIs
    <3> QED
      BY <1>2, <2>3, <3>1, <3>2 DEF In
  <2>4. CASE NCluster(x) \notin 0 .. n
    BY <1>2, <2>4 DEF In
  <2> QED
    BY <2>2, <2>3, <2>4
<1>5. Held(b) = (Held(c) \ Held(d)) \cup (Held(d) \ Held(c))
  <2>1. Held(b) \subseteq Places /\ Held(c) \subseteq Places /\ Held(d) \subseteq Places
    BY DEF Held
  <2>2. \A x \in Places : (x \in Held(b) <=> In(b, x)) /\ (x \in Held(c) <=> In(c, x)) /\ (x \in Held(d) <=> In(d, x))
    BY DEF Held
  <2> QED
    BY <1>4, <2>1, <2>2
<1> QED
  BY <1>3, <1>5 DEF b

LEMMA OrMade ==
    ASSUME NEW t, IsTree(t), NEW r, HasAny(r), ~HasOne(r),
           NEW u, IsTree(u), u = IF FHasElement(t, r.min) THEN t ELSE Insert(t, r.min)
    PROVE  OrTree(t, r) = Made(u, u.min, Max({u.max, r.max}), OrW(u.sum, r.sum),
                               [k \in DOMAIN u.cl |-> OrW(u.cl[k], r.cl[k])])
<1> DEFINE v == IF FHasElement(t, r.min) THEN t ELSE Insert(t, r.min)
           c == [k \in DOMAIN v.cl |-> OrW(v.cl[k], r.cl[k])]
<1>1. OrTree(t, r) = [v EXCEPT !.max = Max({@, r.max}), !.cl = c, !.sum = OrW(@, r.sum)]
  BY Zenon DEF OrTree
<1>2. v = u
  OBVIOUS
<1> HIDE DEF v
<1>3. c = [k \in DOMAIN u.cl |-> OrW(u.cl[k], r.cl[k])]
  BY <1>2
<1> HIDE DEF c
<1>4. OrTree(t, r) = Made(u, u.min, Max({u.max, r.max}), OrW(u.sum, r.sum), c)
  <2>1. SUFFICES ASSUME NEW w, w = OrTree(t, r)
                 PROVE  w = Made(u, u.min, Max({u.max, r.max}), OrW(u.sum, r.sum), c)
    OBVIOUS
  <2> QED
    BY <1>1, <1>2, <2>1 DEF IsTree, Made
<1> QED
  BY <1>3, <1>4

LEMMA OrStands ==
    ASSUME NEW t, NEW S, Rep(t, S), NEW r, NEW T, Stands(r, t, T)
    PROVE  Stands(OrTree(t, r), t, S \cup T)
<1> DEFINE u == IF FHasElement(t, r.min) THEN t ELSE Insert(t, r.min)
<1>1. /\ Rep(r, T) /\ r.last = t.last /\ T \subseteq 0 .. t.last /\ S \subseteq 0 .. t.last /\ IsTree(t) /\ IsTree(r)
      /\ t.last \in Nat
  <2>1. Rep(r, T) /\ r.last = t.last /\ IsTree(t)
    BY DEF Stands, Rep
  <2> QED
    BY <2>1, TreeIs, Bounds DEF Rep
<1>2. CASE T = {}
  <2>1. OrTree(t, r) = t
    BY <1>1, <1>2, RepIs DEF OrTree
  <2> QED
    BY <1>2, <2>1, ItStands
<1>3. CASE T # {}
  <2>1. HasAny(r) /\ r.min \in T /\ r.min \in 0 .. t.last /\ r.max \in T /\ \A x \in T : r.min <= x /\ x <= r.max
    BY <1>1, <1>3, RepIs
  <2>2. Stands(u, t, S \cup {r.min})
    <3>1. CASE FHasElement(t, r.min)
      <4>1. r.min \in S
        BY <2>1, <3>1, RepHas
      <4>2. u = t /\ S \cup {r.min} = S
        BY <3>1, <4>1
      <4> QED
        BY <4>2, ItStands
    <3>2. CASE ~FHasElement(t, r.min)
      <4>1. r.min \notin S
        BY <2>1, <3>2, RepHas
      <4>2. u = Insert(t, r.min)
        BY <3>2
      <4> QED
        BY <2>1, <4>1, <4>2, InsertStands
    <3> QED
      BY <3>1, <3>2
  <2>3. CASE HasOne(r)
    <3>1. OrTree(t, r) = u
      BY <2>1, <2>3, Zenon DEF OrTree
    <3>2. T = {r.min}
      BY <1>1, <2>3, RepIs
    <3> QED
      BY <2>2, <3>1, <3>2
  <2>4. CASE ~HasOne(r)
    <3> DEFINE n == NCluster(t.last)
               U == S \cup {r.min}
               mx == Max({u.max, r.max})
               s == OrW(u.sum, r.sum)
               c == [k \in DOMAIN u.cl |-> OrW(u.cl[k], r.cl[k])]
    <3>1. u = IF FHasElement(t, r.min) THEN t ELSE Insert(t, r.min)
      OBVIOUS
    <3> HIDE DEF u
    <3>2. /\ Rep(u, U) /\ IsTree(u) /\ u.last = t.last /\ Held(u.cl) = U \ {u.min} /\ Held(r.cl) = T \ {r.min}
          /\ n \in Els /\ u.cl \in Clusters(n) /\ r.cl \in Clusters(n) /\ DOMAIN u.cl = 0 .. n
          /\ Names(u.sum, u.cl) /\ Names(r.sum, r.cl)
      <4>1. Rep(u, U) /\ IsTree(u) /\ u.last = t.last /\ Held(u.cl) = U \ {u.min} /\ Held(r.cl) = T \ {r.min}
        BY <1>1, <2>2 DEF Stands, Rep
      <4> QED
        BY <1>1, <4>1, TreeIs
    <3>3. OrTree(t, r) = Made(u, u.min, mx, s, c)
      BY <1>1, <2>1, <2>4, <3>1, <3>2, OrMade
    <3>4. c \in Clusters(n) /\ Held(c) = Held(u.cl) \cup Held(r.cl) /\ Names(s, c)
      <4>1. c = [k \in 0 .. n |-> OrW(u.cl[k], r.cl[k])]
        BY <3>2
      <4> HIDE DEF c, n
      <4> QED
        BY <3>2, <4>1, ClustersOr
    <3> HIDE DEF c, s
    <3>5. /\ u.min \in U /\ u.max \in U /\ u.min \in Nat /\ u.max \in Nat /\ \A x \in U : u.min <= x /\ x <= u.max
          /\ \A x \in U : x \in Nat
      BY <3>2, RepIs
    <3>6. /\ r.max \in T \ {r.min} /\ r.max \in Nat /\ r.min \in Nat /\ \A x \in T : x \in Nat
      <4>1. T # {r.min} /\ \A x \in T : x \in Nat
        BY <1>1, <2>4, RepIs
      <4>2. PICK x \in T : x # r.min
        BY <2>1, <4>1
      <4>3. r.min <= x /\ x <= r.max /\ x \in Nat /\ r.min \in Nat /\ r.max \in Nat
        BY <2>1, <4>1, <4>2
      <4>4. r.max # r.min
        BY <4>2, <4>3
      <4> QED
        BY <2>1, <4>1, <4>3, <4>4
    <3>7. Held(c) \cup {u.min} = S \cup T /\ u.min \in 0 .. t.last /\ Held(c) \subseteq 0 .. t.last
      BY <1>1, <2>1, <3>2, <3>4, <3>5, ZenonT(60)
    <3>8. ASSUME NEW x \in Held(c) PROVE u.min < x
      <4>1. CASE x \in U /\ x # u.min
        BY <3>5, <4>1
      <4>2. CASE x \in T /\ x # r.min
        <5>1. r.min < x /\ x \in Nat
          BY <2>1, <3>6, <4>2
        <5>2. u.min <= r.min
          BY <3>5
        <5> QED
          BY <3>5, <3>6, <5>1, <5>2
      <4> QED
        BY <3>2, <3>4, <4>1, <4>2
    <3>9. mx \in {u.max, r.max} /\ mx >= u.max /\ mx >= r.max
      <4>1. {u.max, r.max} \subseteq 0 .. t.last
        BY <1>1, <2>1, <3>5
      <4> QED
        BY <1>1, <4>1, MaxIs
    <3> HIDE DEF mx
    <3>10. Top(c, u.min, mx)
      <4>1. r.max \in Held(c)
        BY <3>2, <3>4, <3>6
      <4>2. mx \in Held(c)
        <5>1. CASE mx = r.max
          BY <4>1, <5>1
        <5>2. CASE mx = u.max /\ mx # r.max
          <6>1. r.max < u.max /\ u.min < r.max
            BY <3>5, <3>6, <3>8, <3>9, <4>1, <5>2
          <6>2. u.max # u.min
            BY <3>5, <3>6, <6>1
          <6> QED
            BY <3>2, <3>4, <3>5, <5>2, <6>2
        <5> QED
          BY <3>9, <5>1, <5>2
      <4>3. ASSUME NEW x \in Held(c) PROVE x <= mx
        <5>1. mx \in Nat
          BY <3>5, <3>6, <3>9
        <5>2. CASE x \in U
          BY <3>5, <3>9, <5>1, <5>2
        <5>3. CASE x \in T
          BY <2>1, <3>6, <3>9, <5>1, <5>3
        <5> QED
          BY <3>2, <3>4, <5>2, <5>3
      <4> QED
        BY <4>2, <4>3 DEF Top
    <3>11. Stands(Made(u, u.min, mx, s, c), u, Held(c) \cup {u.min})
      BY <3>2, <3>4, <3>7, <3>8, <3>10, MadeStands
    <3>12. Stands(Made(u, u.min, mx, s, c), u, S \cup T)
      BY <3>7, <3>11
    <3>13. Stands(u, t, U)
      BY <2>2
    <3> QED
      BY <3>3, <3>12, <3>13, StandsAgain
  <2> QED
    BY <2>3, <2>4
<1> QED
  BY <1>2, <1>3

\* Where r has not t's minimum, &= leaves ...
LEMMA AndMade ==
    ASSUME NEW t, IsTree(t), NEW r, ~FHasElement(r, t.min),
           NEW both, both = [k \in DOMAIN t.cl |-> AndW(t.cl[k], r.cl[k])]
    PROVE  LET ks == NonEmpty(both)
               rest == Taken(both, ks)
               old == IF FHasElement(r, t.max) THEN t.max ELSE 0
           IN  /\ ks = {} => AndClusters(t, r) = Made(t, t.none, 0, WordsOf(ks), both)
               /\ ks # {} => AndClusters(t, r) = Made(t, LeastOf(both, ks), Max({old} \cup Tops(rest, NonEmpty(rest))),
                                                      WordsOf(NonEmpty(rest)), rest)
<1> DEFINE keep == FHasElement(r, t.min)
           takes == NonEmpty(both) # {} /\ ~keep
           cl == IF takes THEN Taken(both, NonEmpty(both)) ELSE both
           old == CASE FHasElement(r, t.max) -> t.max
                    [] ~FHasElement(r, t.max) /\ keep -> t.min
                    [] OTHER -> 0
           mx == Max({old} \cup Tops(cl, NonEmpty(cl)))
           mn == IF takes THEN LeastOf(both, NonEmpty(both)) ELSE t.min
           s == WordsOf(NonEmpty(cl))
           u == [t EXCEPT !.min = mn, !.max = mx, !.cl = cl, !.sum = s]
<1>1. old = IF FHasElement(r, t.max) THEN t.max ELSE 0
  BY Zenon
<1>2. AndClusters(t, r) = CASE keep -> Insert(u, t.min)
                            [] ~keep /\ NonEmpty(both) = {} -> SetEmptyMinMax(u)
                            [] OTHER -> u
  BY Zenon DEF AndClusters
<1>3. ~keep
  OBVIOUS
<1> HIDE DEF keep, old
<1>4. u = Made(t, mn, mx, s, cl)
  <2> HIDE DEF mn, mx, s, cl
  <2>1. SUFFICES ASSUME NEW v, v = u PROVE v = Made(t, mn, mx, s, cl)
    OBVIOUS
  <2> QED
    BY <2>1 DEF IsTree, Made
<1>5. CASE NonEmpty(both) = {}
  <2>1. AndClusters(t, r) = SetEmptyMinMax(u)
    BY <1>2, <1>3, <1>5, Zenon
  <2>2. cl = both /\ s = WordsOf(NonEmpty(both))
    BY <1>5
  <2> HIDE DEF u, mn, mx, s, cl
  <2>3. SetEmptyMinMax(Made(t, mn, mx, s, cl)) = Made(t, t.none, 0, s, cl)
    <3>1. SUFFICES ASSUME NEW v, v = SetEmptyMinMax(Made(t, mn, mx, s, cl))
                   PROVE  v = Made(t, t.none, 0, s, cl)
      OBVIOUS
    <3> QED
      BY <3>1 DEF SetEmptyMinMax, Made
  <2> QED
    BY <1>4, <1>5, <2>1, <2>2, <2>3
<1>6. CASE NonEmpty(both) # {}
  <2>1. AndClusters(t, r) = u
    BY <1>2, <1>3, <1>6, Zenon
  <2>2. cl = Taken(both, NonEmpty(both)) /\ mn = LeastOf(both, NonEmpty(both))
    BY <1>3, <1>6
  <2> HIDE DEF u, mn, cl
  <2> QED
    BY <1>1, <1>4, <1>6, <2>1, <2>2
<1> QED
  BY <1>5, <1>6

\* &= of two trees of several elements, where the minimum of neither stays, and
\* what stays is not one element, unless it is the old maximum.
LEMMA AndClustersStands ==
    ASSUME NEW t, NEW S, Rep(t, S), NEW r, NEW T, Stands(r, t, T), S # {}, T # {},
           t.min \notin T, r.min \notin S,
           t.max \in T \/ \A x \in S \cap T : \E y \in S \cap T : y # x
    PROVE  Stands(AndClusters(t, r), t, S \cap T)
<1> DEFINE n == NCluster(t.last)
           both == [k \in DOMAIN t.cl |-> AndW(t.cl[k], r.cl[k])]
           B == S \cap T
           ks == NonEmpty(both)
           y == LeastOf(both, ks)
           rest == Taken(both, ks)
           old == IF FHasElement(r, t.max) THEN t.max ELSE 0
           top == Max({old} \cup Tops(rest, NonEmpty(rest)))
<1>1. /\ Rep(r, T) /\ r.last = t.last /\ IsTree(t) /\ IsTree(r)
      /\ S \subseteq 0 .. t.last /\ T \subseteq 0 .. t.last
  <2>1. Rep(r, T) /\ r.last = t.last /\ IsTree(t)
    BY DEF Stands, Rep
  <2> QED
    BY <2>1 DEF Rep
<1>2. /\ n \in Els /\ DOMAIN t.cl = 0 .. n /\ t.cl \in Clusters(n) /\ r.cl \in Clusters(n)
      /\ Held(t.cl) = S \ {t.min} /\ Held(r.cl) = T \ {r.min} /\ t.last \in Places
  BY <1>1, TreeIs DEF Rep
<1>3. /\ t.min \in S /\ t.max \in S /\ r.min \in T /\ \A x \in S : x <= t.max
      /\ t.min \in 0 .. t.last /\ t.max \in 0 .. t.last /\ t.max \in Places
      /\ \A x \in S : x \in Nat /\ x \in Places
  BY <1>1, RepIs
<1>4. (FHasElement(r, t.min) <=> t.min \in T) /\ (FHasElement(r, t.max) <=> t.max \in T)
  BY <1>1, <1>3, RepHas
<1>5. both \in Clusters(n) /\ Held(both) = B
  <2>1. both = [k \in 0 .. n |-> AndW(t.cl[k], r.cl[k])]
    BY <1>2
  <2> HIDE DEF both, n
  <2>2. \A c \in Clusters(n), d \in Clusters(n) :
            /\ [k \in 0 .. n |-> AndW(c[k], d[k])] \in Clusters(n)
            /\ Held([k \in 0 .. n |-> AndW(c[k], d[k])]) = Held(c) \cap Held(d)
    BY <1>2, ClustersAnd
  <2>3. both \in Clusters(n) /\ Held(both) = Held(t.cl) \cap Held(r.cl)
    BY <1>2, <2>1, <2>2, Zenon
  <2> QED
    BY <1>2, <2>3
<1>6. /\ ks = {} => AndClusters(t, r) = Made(t, t.none, 0, WordsOf(ks), both)
      /\ ks # {} => AndClusters(t, r) = Made(t, y, top, WordsOf(NonEmpty(rest)), rest)
  <2>1. both = [k \in DOMAIN t.cl |-> AndW(t.cl[k], r.cl[k])]
    OBVIOUS
  <2> HIDE DEF both
  <2> QED
    BY <1>1, <1>4, <2>1, AndMade
<1> HIDE DEF both, top
<1>7. ks = {} <=> B = {}
  <2>1. \A k \in 0 .. n : FHasAnyElements(both[k]) <=> \E x \in Held(both) : NCluster(x) = k
    BY <1>2, <1>5, HeldAnyAt
  <2>2. DOMAIN both = 0 .. n /\ \A x \in Held(both) : NCluster(x) \in 0 .. n
    BY <1>5 DEF Clusters, Held, In
  <2> QED
    BY <1>5, <2>1, <2>2 DEF NonEmpty
<1>8. CASE B = {}
  <2>1. Names(WordsOf(ks), both)
    BY <1>2, <1>5, NamesNonEmpty
  <2> HIDE DEF B, ks
  <2>2. Stands(Made(t, t.none, 0, WordsOf(ks), both), t, {})
    BY <1>1, <1>5, <1>8, <2>1, MadeEmpty DEF n
  <2> QED
    BY <1>6, <1>7, <1>8, <2>2 DEF B
<1>9. CASE B # {}
  <2>1. /\ y \in B /\ \A x \in B : y <= x
        /\ rest \in Clusters(n) /\ Held(rest) = B \ {y} /\ Names(WordsOf(NonEmpty(rest)), rest)
        /\ \A x \in Held(rest) : y < x
    <3> HIDE DEF B
    <3> QED
      BY <1>2, <1>5, <1>9, TakenIs
  <2>2. old \in Places /\ (t.max \in T => old = t.max) /\ (t.max \notin T => old = 0)
    BY <1>3, <1>4, Bounds
  <2> HIDE DEF old, y, rest
  <2>3. /\ top \in {old} \cup Held(rest) /\ top \in Places
        /\ old <= top /\ \A x \in Held(rest) : x <= top
    BY <1>2, <2>1, <2>2, TopsAre DEF top
  <2>4. top \in Nat /\ y \in Nat /\ y \in 0 .. t.last /\ \A x \in Held(rest) : x \in Nat
    BY <1>1, <1>3, <2>1, <2>3, Bounds
  <2>5. Top(rest, y, top)
    <3>1. CASE t.max \in T
      <4>1. t.max \in B /\ old = t.max
        BY <1>3, <2>2, <3>1
      <4>2. top = t.max
        <5>1. top <= t.max /\ t.max <= top /\ t.max \in Nat
          BY <1>3, <2>1, <2>3, <4>1
        <5> QED
          BY <2>4, <5>1
      <4>3. t.max = y => Held(rest) = {}
        <5>1. \A x \in Held(rest) : x \in Nat /\ x <= t.max /\ y < x /\ y \in Nat
          BY <1>3, <2>1, <2>4
        <5> QED
          BY <5>1
      <4> QED
        BY <2>1, <2>3, <4>1, <4>2, <4>3 DEF Top
    <3>2. CASE t.max \notin T
      <4>1. PICK x \in B : x # y
        BY <2>1, <3>2
      <4>2. x \in Held(rest) /\ y < x /\ x <= top /\ x \in Nat
        BY <2>1, <2>3, <2>4, <4>1
      <4>3. top # 0
        BY <2>4, <4>2
      <4> QED
        BY <2>2, <2>3, <3>2, <4>2, <4>3 DEF Top
    <3> QED
      BY <3>1, <3>2
  <2>6. Held(rest) \cup {y} = B /\ Held(rest) \subseteq 0 .. t.last
    BY <1>1, <2>1
  <2>7. Stands(Made(t, y, top, WordsOf(NonEmpty(rest)), rest), t, Held(rest) \cup {y})
    BY <1>1, <2>1, <2>4, <2>5, <2>6, MadeStands DEF n
  <2> QED
    BY <1>6, <1>7, <1>9, <2>6, <2>7
<1> QED
  BY <1>8, <1>9

\* AndTree is the intersection, where two trees of several elements are such
\* that AndClusters is.
LEMMA AndStands ==
    ASSUME NEW t, NEW S, Rep(t, S), NEW r, NEW T, Stands(r, t, T),
           S # {} /\ S # {t.min} /\ T # {} /\ T # {r.min} =>
               /\ t.min \notin T /\ r.min \notin S
               /\ t.max \in T \/ \A x \in S \cap T : \E y \in S \cap T : y # x
    PROVE  Stands(AndTree(t, r), t, S \cap T)
<1>1. Rep(r, T) /\ r.last = t.last /\ S \subseteq 0 .. t.last /\ T \subseteq 0 .. t.last
  BY DEF Stands, Rep
<1>2. /\ (HasAny(t) <=> S # {}) /\ (HasOne(t) <=> S = {t.min}) /\ (S # {} => t.min \in S)
      /\ (HasAny(r) <=> T # {}) /\ (HasOne(r) <=> T = {r.min}) /\ (T # {} => r.min \in T)
  BY <1>1, RepIs
<1>3. Stands(ClearTree(t), t, {})
  BY ClearStands
<1>4. CASE T = {}
  <2>1. AndTree(t, r) = ClearTree(t)
    BY <1>2, <1>4, Zenon DEF AndTree
  <2> QED
    BY <1>3, <1>4, <2>1
<1>5. CASE T # {} /\ HasOne(r)
  <2>1. AndTree(t, r) = IF FHasElement(t, r.min) THEN Insert(ClearTree(t), r.min) ELSE ClearTree(t)
    BY <1>2, <1>5, Zenon DEF AndTree
  <2>2. r.min \in T /\ r.min \in 0 .. t.last /\ T = {r.min}
    BY <1>1, <1>2, <1>5
  <2>3. FHasElement(t, r.min) <=> r.min \in S
    BY <2>2, RepHas
  <2>4. CASE r.min \in S
    <3>1. ClearTree(t).last = t.last /\ Rep(ClearTree(t), {})
      BY <1>3 DEF Stands
    <3>2. Stands(Insert(ClearTree(t), r.min), ClearTree(t), {} \cup {r.min})
      BY <2>2, <3>1, InsertStands
    <3>3. Stands(Insert(ClearTree(t), r.min), t, {} \cup {r.min})
      BY <1>3, <3>2, StandsAgain
    <3>4. S \cap T = {} \cup {r.min}
      BY <2>2, <2>4
    <3> QED
      BY <2>1, <2>3, <2>4, <3>3, <3>4
  <2>5. CASE r.min \notin S
    <3>1. S \cap T = {}
      BY <2>2, <2>5
    <3> QED
      BY <1>3, <2>1, <2>3, <2>5, <3>1
  <2> QED
    BY <2>4, <2>5
<1>6. CASE T # {} /\ ~HasOne(r) /\ S # {} /\ HasOne(t)
  <2>1. AndTree(t, r) = IF FHasElement(r, t.min) THEN t ELSE ClearTree(t)
    BY <1>2, <1>6, Zenon DEF AndTree
  <2>2. t.min \in 0 .. t.last /\ S = {t.min}
    BY <1>1, <1>2, <1>6
  <2>3. FHasElement(r, t.min) <=> t.min \in T
    BY <1>1, <2>2, RepHas
  <2>4. CASE t.min \in T
    <3>1. S \cap T = S
      BY <2>2, <2>4
    <3> QED
      BY <2>1, <2>3, <2>4, <3>1, ItStands
  <2>5. CASE t.min \notin T
    <3>1. S \cap T = {}
      BY <2>2, <2>5
    <3> QED
      BY <1>3, <2>1, <2>3, <2>5, <3>1
  <2> QED
    BY <2>4, <2>5
<1>7. CASE T # {} /\ ~HasOne(r) /\ S # {} /\ ~HasOne(t)
  <2>1. AndTree(t, r) = AndClusters(t, r)
    BY <1>2, <1>7, Zenon DEF AndTree
  <2>2. Stands(AndClusters(t, r), t, S \cap T)
    BY <1>2, <1>7, AndClustersStands
  <2> QED
    BY <2>1, <2>2
<1>8. CASE T # {} /\ ~HasOne(r) /\ S = {}
  <2>1. AndTree(t, r) = t
    BY <1>2, <1>8, Zenon DEF AndTree
  <2>2. S \cap T = S
    BY <1>8
  <2> QED
    BY <2>1, <2>2, ItStands
<1> QED
  BY <1>4, <1>5, <1>6, <1>7, <1>8

\* ^= of two trees of several elements, where they have nothing in common and
\* every cluster of t that is not empty is visited: the clusters of r are.
LEMMA XorVisitedStands ==
    ASSUME NEW t, NEW S, Rep(t, S), NEW r, NEW T, Stands(r, t, T), T # {}, T # {r.min},
           NonEmpty(t.cl) \subseteq NonEmpty(r.cl), S \cap T = {}
    PROVE  Stands(XorVisited(t, r), t, (S \ {t.min}) \cup (T \ {r.min}))
<1> DEFINE n == NCluster(t.last)
           ks == Numbers(r.sum)
           c == Mixed(t, r)
           B == (S \ {t.min}) \cup (T \ {r.min})
<1>1. /\ Rep(r, T) /\ r.last = t.last /\ IsTree(t) /\ IsTree(r)
      /\ S \subseteq 0 .. t.last /\ T \subseteq 0 .. t.last
  <2>1. Rep(r, T) /\ r.last = t.last /\ IsTree(t)
    BY DEF Stands, Rep
  <2> QED
    BY <2>1 DEF Rep
<1>2. /\ n \in Els /\ DOMAIN t.cl = 0 .. n /\ t.cl \in Clusters(n) /\ r.cl \in Clusters(n) /\ DOMAIN r.cl = 0 .. n
      /\ Held(t.cl) = S \ {t.min} /\ Held(r.cl) = T \ {r.min} /\ t.last \in Places /\ Names(r.sum, r.cl)
  BY <1>1, TreeIs DEF Rep
<1>3. r.min \in T
  BY <1>1, RepIs
<1>4. \A k \in 0 .. n : k \in ks <=> FHasAnyElements(r.cl[k])
  <2>1. \A k \in 0 .. n : k \in Els
    BY <1>2, ClusterNos
  <2> QED
    BY <1>2, <2>1, HasIsNumber DEF Names
<1>5. c \in Clusters(n) /\ Held(c) = B
  <2>1. c = XorOf(t.cl, r.cl, ks)
    BY DEF Mixed, XorOf
  <2>2. \A k \in 0 .. n : k \notin ks => ~FHasAnyElements(r.cl[k])
    BY <1>4
  <2> HIDE DEF c, n, ks
  <2>3. XorOf(t.cl, r.cl, ks) \in Clusters(n)
        /\ Held(XorOf(t.cl, r.cl, ks)) = (Held(t.cl) \ Held(r.cl)) \cup (Held(r.cl) \ Held(t.cl))
    BY <1>2, <2>2, ClustersXor
  <2> QED
    BY <1>2, <2>1, <2>3
<1>6. NonEmpty(c) \cap ks = NonEmpty(c)
  <2>1. \A k \in 0 .. n : k \notin ks => c[k] = t.cl[k] /\ ~FHasAnyElements(t.cl[k])
    BY <1>2, <1>4 DEF NonEmpty, Mixed
  <2>2. DOMAIN c = 0 .. n
    BY <1>5 DEF Clusters
  <2> QED
    BY <2>1, <2>2 DEF NonEmpty
<1> HIDE DEF c, ks, B
<1>7. B # {} /\ B \subseteq 0 .. t.last
  BY <1>1, <1>3 DEF B
<1>8. NonEmpty(c) # {}
  <2>1. PICK x \in Held(c) : TRUE
    BY <1>5, <1>7
  <2>2. NCluster(x) \in 0 .. n /\ DOMAIN c = 0 .. n
    BY <1>5, <2>1 DEF Held, In, Clusters
  <2>3. FHasAnyElements(c[NCluster(x)])
    BY <1>2, <1>5, <2>1, <2>2, HeldAnyAt
  <2> QED
    BY <2>2, <2>3 DEF NonEmpty
<1>9. XorVisited(t, r) = Rebuilt(t, c, NonEmpty(c))
  BY <1>6, <1>8, Zenon DEF XorVisited, c, ks
<1>10. Stands(Rebuilt(t, c, NonEmpty(c)), t, Held(c))
  BY <1>1, <1>5, <1>7, RebuiltStands DEF n
<1> QED
  BY <1>5, <1>9, <1>10 DEF B

\* A maximum that is no smaller is kept.
LEMMA MaxKept ==
    ASSUME NEW w, NEW S, Rep(w, S), NEW x \in S
    PROVE  [w EXCEPT !.max = Max({@, x})] = w
<1>1. /\ IsTree(w) /\ S \subseteq Nat /\ w.max \in S /\ x <= w.max
  BY RepIs DEF Rep
<1>2. Max({w.max, x}) = w.max
  <2>1. {w.max, x} \subseteq 0 .. w.max /\ w.max \in Nat /\ w.max \in {w.max, x} /\ \A y \in {w.max, x} : y <= w.max
    <3>1. w.max \in Nat /\ x \in Nat /\ x <= w.max
      BY <1>1
    <3> QED
      BY <3>1
  <2> QED
    BY <2>1, IsMax
<1>3. SUFFICES ASSUME NEW v, v = [w EXCEPT !.max = w.max]
               PROVE  v = w
  BY <1>2
<1> QED
  BY <1>1, <1>3 DEF IsTree, Made

\* XorTree is the symmetric difference, where two trees of several elements have
\* nothing in common and every cluster of t that is not empty is visited.
LEMMA XorStands ==
    ASSUME NEW t, NEW S, Rep(t, S), NEW r, NEW T, Stands(r, t, T),
           S # {} /\ T # {} /\ T # {r.min} =>
               S \cap T = {} /\ NonEmpty(t.cl) \subseteq NonEmpty(r.cl)
    PROVE  Stands(XorTree(t, r), t, (S \ T) \cup (T \ S))
<1>1. Rep(r, T) /\ r.last = t.last /\ S \subseteq 0 .. t.last /\ T \subseteq 0 .. t.last /\ IsTree(t)
  BY DEF Stands, Rep
<1>2. /\ (HasAny(t) <=> S # {}) /\ (HasOne(t) <=> S = {t.min}) /\ (S # {} => t.min \in S /\ t.max \in S)
      /\ (HasAny(r) <=> T # {}) /\ (HasOne(r) <=> T = {r.min}) /\ (T # {} => r.min \in T)
  BY <1>1, RepIs
<1>3. CASE T = {}
  <2>1. XorTree(t, r) = t
    BY <1>2, <1>3, Zenon DEF XorTree
  <2>2. (S \ T) \cup (T \ S) = S
    BY <1>3
  <2> QED
    BY <2>1, <2>2, ItStands
<1>4. CASE T # {} /\ HasOne(r)
  <2>1. XorTree(t, r) = IF FHasElement(t, r.min) THEN Delete(t, r.min) ELSE Insert(t, r.min)
    BY <1>2, <1>4, Zenon DEF XorTree
  <2>2. r.min \in T /\ r.min \in 0 .. t.last /\ T = {r.min}
    BY <1>1, <1>2, <1>4
  <2>3. FHasElement(t, r.min) <=> r.min \in S
    BY <2>2, RepHas
  <2>4. CASE r.min \in S
    <3>1. (S \ T) \cup (T \ S) = S \ {r.min}
      BY <2>2, <2>4
    <3> QED
      BY <2>1, <2>3, <2>4, <3>1, DeleteStands
  <2>5. CASE r.min \notin S
    <3>1. (S \ T) \cup (T \ S) = S \cup {r.min}
      BY <2>2, <2>5
    <3> QED
      BY <2>1, <2>2, <2>3, <2>5, <3>1, InsertStands
  <2> QED
    BY <2>4, <2>5
<1>5. CASE T # {} /\ ~HasOne(r)
  <2> DEFINE B == (S \ {t.min}) \cup (T \ {r.min})
             u == XorVisited(t, r)
             v == Insert(u, r.min)
             w == Insert(v, t.min)
  <2>1. XorTree(t, r) = XorClusters(t, r)
    BY <1>2, <1>5, Zenon DEF XorTree
  <2>2. S \cap T = {} /\ NonEmpty(t.cl) \subseteq NonEmpty(r.cl)
    <3>1. CASE S = {}
      <4>1. Held(t.cl) = {} /\ NCluster(t.last) \in Els /\ t.cl \in Clusters(NCluster(t.last))
            /\ DOMAIN t.cl = 0 .. NCluster(t.last)
        BY <1>1, <3>1, TreeIs DEF Rep
      <4>2. \A k \in 0 .. NCluster(t.last) : ~FHasAnyElements(t.cl[k])
        BY <4>1, HeldAnyAt
      <4> QED
        BY <3>1, <4>1, <4>2 DEF NonEmpty
    <3>2. CASE S # {}
      BY <1>2, <1>5, <3>2
    <3> QED
      BY <3>1, <3>2
  <2>3. Stands(u, t, B)
    BY <1>2, <1>5, <2>2, XorVisitedStands
  <2>4. r.min \in T /\ r.min \notin S /\ r.min \in 0 .. t.last
    BY <1>1, <1>2, <1>5, <2>2
  <2> HIDE DEF u, B
  <2>5. Stands(v, t, B \cup {r.min})
    <3>1. Rep(u, B) /\ u.last = t.last
      BY <2>3 DEF Stands
    <3>2. r.min \notin B
      BY <2>4 DEF B
    <3>3. Stands(v, u, B \cup {r.min})
      BY <2>4, <3>1, <3>2, InsertStands
    <3> QED
      BY <2>3, <3>3, StandsAgain
  <2> HIDE DEF v
  <2>6. (S \ T) \cup (T \ S) = S \cup T
    BY <2>2
  <2>7. CASE S = {}
    <3>1. XorClusters(t, r) = v
      BY <1>2, <2>7, Zenon DEF XorClusters, u, v
    <3>2. B \cup {r.min} = S \cup T
      BY <2>4, <2>7 DEF B
    <3> QED
      BY <2>1, <2>5, <2>6, <3>1, <3>2
  <2>8. CASE S # {}
    <3>1. t.min \in S /\ t.max \in S /\ t.min \notin T /\ t.max \notin T /\ t.min \in 0 .. t.last /\ t.max \in 0 .. t.last
      BY <1>1, <1>2, <2>2, <2>8
    <3>2. ~FHasElement(t, r.min) /\ ~FHasElement(r, t.min) /\ ~FHasElement(r, t.max)
      BY <1>1, <2>4, <3>1, RepHas
    <3>3. XorClusters(t, r) = [w EXCEPT !.max = Max({@, t.max})]
      BY <1>2, <2>8, <3>2, Zenon DEF XorClusters, u, v
    <3>4. Stands(w, t, S \cup T)
      <4>1. Rep(v, B \cup {r.min}) /\ v.last = t.last
        BY <2>5 DEF Stands
      <4>2. t.min \notin B \cup {r.min} /\ B \cup {r.min} \cup {t.min} = S \cup T
        BY <2>4, <3>1 DEF B
      <4>3. Stands(w, v, B \cup {r.min} \cup {t.min})
        BY <3>1, <4>1, <4>2, InsertStands
      <4> QED
        BY <2>5, <4>2, <4>3, StandsAgain
    <3> HIDE DEF w
    <3>5. [w EXCEPT !.max = Max({@, t.max})] = w
      <4>1. Rep(w, S \cup T) /\ t.max \in S \cup T
        BY <3>1, <3>4 DEF Stands
      <4> QED
        BY <4>1, MaxKept
    <3> QED
      BY <2>1, <2>6, <3>3, <3>4, <3>5
  <2> QED
    BY <2>7, <2>8
<1> QED
  BY <1>3, <1>4, <1>5

\* What CutAfter leaves of the cluster of x, of the summary, and the maximum.
CutCluster(c, x) ==
    IF NElInCluster(x + 1) # 0 THEN FDeleteAllAfterW(c[NCluster(x)], NElInCluster(x)) ELSE c[NCluster(x)]
CutSum(s, c, x) == IF FHasAnyElements(CutCluster(c, x)) THEN s ELSE DeleteW(s, NCluster(x))
CutMax(mn, s, c, x) ==
    LET prev == NPredecessorW(CutSum(s, c, x), NCluster(x))
    IN  CASE FHasAnyElements(CutCluster(c, x)) -> NIndex(NCluster(x), NMaxW(CutCluster(c, x)))
          [] ~FHasAnyElements(CutCluster(c, x)) /\ prev = NoPredecessorW -> mn
          [] OTHER -> NIndex(prev, NMaxW(c[prev]))
UpTo(S, x) == {z \in S : z <= x}

\* s names the clusters of c that are not empty, up to cluster k.
NamesTo(s, c, k) == s \in Words /\ \A j \in 0 .. k : FHasElementW(s, j) <=> FHasAnyElements(c[j])

LEMMA AfterLast ==
    ASSUME NEW x \in Places
    PROVE  NElInCluster(x + 1) = 0 <=> NElInCluster(x) = Universe - 1
<1> DEFINE k == NCluster(x)
           e == NElInCluster(x)
<1>1. k \in Els /\ e \in Els /\ k \in Nat /\ e \in 0 .. Universe - 1 /\ Universe \in Nat \ {0} /\ x = k * Universe + e
  BY PlaceOf, Bounds, Ranges DEF NIndex, Els
<1> HIDE DEF k, e
<1>2. CASE e = Universe - 1
  <2>1. (k + 1) * Universe = k * Universe + Universe
    BY <1>1
  <2>2. x + 1 = (k + 1) * Universe + 0
    BY <1>1, <1>2, <2>1
  <2>3. k + 1 \in Nat /\ 0 \in 0 .. Universe - 1
    BY <1>1
  <2>4. ((k + 1) * Universe + 0) % Universe = 0
    BY <1>1, <2>3, Joined
  <2> QED
    BY <1>2, <2>2, <2>4 DEF NElInCluster, e
<1>3. CASE e # Universe - 1
  <2>1. e + 1 \in 0 .. Universe - 1 /\ e + 1 # 0
    BY <1>1, <1>3
  <2>2. (k * Universe + (e + 1)) % Universe = e + 1
    BY <1>1, <2>1, Joined
  <2>3. k * Universe \in Nat
    BY <1>1
  <2>4. x + 1 = k * Universe + (e + 1)
    BY <1>1, <2>3
  <2> QED
    BY <1>3, <2>1, <2>2, <2>4 DEF NElInCluster, e
<1> QED
  BY <1>2, <1>3

LEMMA CutClusterIs ==
    ASSUME NEW n \in Els, NEW c \in Clusters(n), NEW x \in Places, NCluster(x) \in 0 .. n
    PROVE  /\ CutCluster(c, x) \in Words
           /\ \A e \in Els : FHasElementW(CutCluster(c, x), e) <=> FHasElementW(c[NCluster(x)], e) /\ e <= NElInCluster(x)
<1>1. c[NCluster(x)] \in Words /\ NElInCluster(x) \in Els
  BY PlaceOf DEF Clusters
<1>2. CASE NElInCluster(x) = Universe - 1
  <2>1. CutCluster(c, x) = c[NCluster(x)]
    BY <1>2, AfterLast DEF CutCluster
  <2>2. \A e \in Els : e <= Universe - 1
    BY Ranges DEF Els
  <2> QED
    BY <1>1, <1>2, <2>1, <2>2
<1>3. CASE NElInCluster(x) # Universe - 1
  <2>1. CutCluster(c, x) = FDeleteAllAfterW(c[NCluster(x)], NElInCluster(x))
    BY <1>3, AfterLast DEF CutCluster
  <2> QED
    BY <1>1, <1>3, <2>1, FDeleteAllAfterWIs
<1> QED
  BY <1>2, <1>3

LEMMA UpToIs ==
    ASSUME NEW n \in Els, NEW c \in Clusters(n), NEW x \in Places, NCluster(x) \in 0 .. n, NEW z \in Places
    PROVE  z \in UpTo(Held(c), x) <=>
               \/ NCluster(z) < NCluster(x) /\ z \in Held(c)
               \/ NCluster(z) = NCluster(x) /\ FHasElementW(CutCluster(c, x), NElInCluster(z))
<1>1. /\ NCluster(z) \in Els /\ NElInCluster(z) \in Els /\ NCluster(z) \in Nat /\ NElInCluster(z) \in Nat
      /\ NCluster(x) \in Nat /\ NElInCluster(x) \in Nat /\ z \in Nat /\ x \in Nat
  BY PlaceOf, Bounds
<1>2. /\ NCluster(z) < NCluster(x) => z < x
      /\ NCluster(x) < NCluster(z) => x < z
      /\ NCluster(z) = NCluster(x) => (x < z <=> NElInCluster(x) < NElInCluster(z))
  BY PlaceOrder
<1>3. NCluster(z) = NCluster(x) => (z \in Held(c) <=> FHasElementW(c[NCluster(x)], NElInCluster(z)))
  BY DEF Held, In, Clusters
<1>4. FHasElementW(CutCluster(c, x), NElInCluster(z)) <=>
          FHasElementW(c[NCluster(x)], NElInCluster(z)) /\ NElInCluster(z) <= NElInCluster(x)
  BY <1>1, CutClusterIs
<1>5. CASE NCluster(z) < NCluster(x)
  BY <1>1, <1>2, <1>5 DEF UpTo
<1>6. CASE NCluster(x) < NCluster(z)
  BY <1>1, <1>2, <1>6 DEF UpTo
<1>7. CASE NCluster(z) = NCluster(x)
  BY <1>1, <1>2, <1>3, <1>4, <1>7 DEF UpTo
<1> QED
  BY <1>1, <1>5, <1>6, <1>7

LEMMA CutAnyIs ==
    ASSUME NEW n \in Els, NEW c \in Clusters(n), NEW x \in Places, NCluster(x) \in 0 .. n
    PROVE  FHasAnyElements(CutCluster(c, x)) <=> \E z \in UpTo(Held(c), x) : NCluster(z) = NCluster(x)
<1>1. CutCluster(c, x) \in Words /\ NCluster(x) \in Els /\ NCluster(x) \in Nat
  BY CutClusterIs, PlaceOf, Bounds
<1>2. ASSUME NEW e \in Els, FHasElementW(CutCluster(c, x), e)
      PROVE  \E z \in UpTo(Held(c), x) : NCluster(z) = NCluster(x)
  <2> DEFINE z == NIndex(NCluster(x), e)
  <2>1. z \in Places /\ NCluster(z) = NCluster(x) /\ NElInCluster(z) = e
    BY <1>1, IndexOf
  <2> HIDE DEF z
  <2> QED
    BY <1>2, <2>1, UpToIs
<1>3. ASSUME NEW z \in UpTo(Held(c), x), NCluster(z) = NCluster(x)
      PROVE  \E e \in Els : FHasElementW(CutCluster(c, x), e)
  <2>1. z \in Places /\ NElInCluster(z) \in Els
    BY PlaceOf DEF UpTo, Held
  <2>2. FHasElementW(CutCluster(c, x), NElInCluster(z))
    BY <1>1, <1>3, <2>1, UpToIs
  <2> QED
    BY <2>1, <2>2
<1> QED
  BY <1>1, <1>2, <1>3, HasAnyIs

\* Clusters d are clusters c up to x.
IsCut(d, c, x) ==
    \A j \in DOMAIN d : /\ j < NCluster(x) => d[j] = c[j]
                        /\ j = NCluster(x) => d[j] = CutCluster(c, x)
                        /\ j > NCluster(x) => ~FHasAnyElements(d[j])

LEMMA CutHeld ==
    ASSUME NEW n \in Els, NEW c \in Clusters(n), NEW x \in Places, NCluster(x) \in 0 .. n,
           NEW m \in Els, NCluster(x) \in 0 .. m, NEW d \in Clusters(m), IsCut(d, c, x)
    PROVE  Held(d) = UpTo(Held(c), x)
<1>1. DOMAIN d = 0 .. m /\ DOMAIN c = 0 .. n /\ NCluster(x) \in Nat /\ m \in Nat /\ n \in Nat
  BY PlaceOf, Bounds DEF Clusters
<1>2. ASSUME NEW z \in Places PROVE z \in Held(d) <=> z \in UpTo(Held(c), x)
  <2>1. NCluster(z) \in Nat /\ NElInCluster(z) \in Els
    BY PlaceOf, Bounds
  <2>2. z \in Held(d) <=> NCluster(z) \in 0 .. m /\ FHasElementW(d[NCluster(z)], NElInCluster(z))
    BY <1>1 DEF Held, In
  <2>3. z \in Held(c) <=> NCluster(z) \in 0 .. n /\ FHasElementW(c[NCluster(z)], NElInCluster(z))
    BY <1>1 DEF Held, In
  <2>4. CASE NCluster(z) < NCluster(x)
    <3>1. NCluster(z) \in 0 .. m /\ NCluster(z) \in 0 .. n
      BY <1>1, <2>1, <2>4
    <3>2. d[NCluster(z)] = c[NCluster(z)]
      BY <1>1, <2>4, <3>1 DEF IsCut
    <3> QED
      BY <1>1, <2>1, <2>2, <2>3, <2>4, <3>1, <3>2, UpToIs
  <2>5. CASE NCluster(z) = NCluster(x)
    <3>1. d[NCluster(z)] = CutCluster(c, x)
      BY <1>1, <2>5 DEF IsCut
    <3> QED
      BY <1>1, <2>2, <2>5, <3>1, UpToIs
  <2>6. CASE NCluster(z) > NCluster(x)
    <3>1. z \notin UpTo(Held(c), x)
      BY <1>1, <2>1, <2>6, UpToIs
    <3>2. z \notin Held(d)
      <4>1. SUFFICES ASSUME NCluster(z) \in 0 .. m PROVE ~FHasElementW(d[NCluster(z)], NElInCluster(z))
        BY <2>2
      <4>2. ~FHasAnyElements(d[NCluster(z)]) /\ d[NCluster(z)] \in Words
        BY <1>1, <2>6, <4>1 DEF IsCut, Clusters
      <4> QED
        BY <2>1, <4>2, HasAnyIs
    <3> QED
      BY <3>1, <3>2
  <2> QED
    BY <1>1, <2>1, <2>4, <2>5, <2>6
<1>3. Held(d) \subseteq Places /\ UpTo(Held(c), x) \subseteq Places
  BY DEF Held, UpTo
<1> QED
  BY <1>2, <1>3

\* What the summary says of the clusters before that of x, and of that one.
LEMMA CutSumIs ==
    ASSUME NEW n \in Els, NEW c \in Clusters(n), NEW x \in Places, NCluster(x) \in 0 .. n,
           NEW s, NamesTo(s, c, NCluster(x))
    PROVE  /\ CutSum(s, c, x) \in Words
           /\ \A j \in 0 .. NCluster(x) :
                 FHasElementW(CutSum(s, c, x), j) <=> \E z \in UpTo(Held(c), x) : NCluster(z) = j
<1> DEFINE k == NCluster(x)
           s2 == CutSum(s, c, x)
<1>1. k \in Els /\ k \in Nat /\ n \in Nat /\ 0 .. k \subseteq Els /\ s \in Words
  BY PlaceOf, Bounds, ClusterNos DEF NamesTo
<1>2. s2 \in Words /\ \A j \in Els : j # k => (FHasElementW(s2, j) <=> FHasElementW(s, j))
  BY <1>1, DeleteWIs DEF CutSum
<1>3. FHasElementW(s2, k) <=> FHasAnyElements(CutCluster(c, x))
  <2>1. CASE FHasAnyElements(CutCluster(c, x))
    <3>1. PICK z \in UpTo(Held(c), x) : NCluster(z) = k
      BY <2>1, CutAnyIs
    <3>2. FHasAnyElements(c[k])
      BY <3>1, HeldAnyAt DEF UpTo
    <3>3. FHasElementW(s, k)
      BY <1>1, <3>2 DEF NamesTo
    <3>4. s2 = s
      BY <2>1 DEF CutSum
    <3> QED
      BY <2>1, <3>3, <3>4
  <2>2. CASE ~FHasAnyElements(CutCluster(c, x))
    <3>1. s2 = DeleteW(s, k)
      BY <2>2 DEF CutSum
    <3> QED
      BY <1>1, <2>2, <3>1, DeleteWIs
  <2> QED
    BY <2>1, <2>2
<1>4. ASSUME NEW j \in 0 .. k, j # k
      PROVE  FHasElementW(s2, j) <=> \E z \in UpTo(Held(c), x) : NCluster(z) = j
  <2>1. j < k /\ j \in Els /\ j \in 0 .. n
    BY <1>1, <1>4
  <2>2. FHasElementW(s2, j) <=> FHasAnyElements(c[j])
    BY <1>2, <1>4, <2>1 DEF NamesTo
  <2>3. FHasAnyElements(c[j]) <=> \E z \in Held(c) : NCluster(z) = j
    BY <2>1, HeldAnyAt
  <2>4. \A z \in Held(c) : NCluster(z) = j => z \in UpTo(Held(c), x)
    BY <2>1, UpToIs DEF Held
  <2> QED
    BY <2>2, <2>3, <2>4 DEF UpTo
<1>5. FHasElementW(s2, k) <=> \E z \in UpTo(Held(c), x) : NCluster(z) = k
  BY <1>3, CutAnyIs
<1> QED
  BY <1>2, <1>4, <1>5

LEMMA CutNames ==
    ASSUME NEW n \in Els, NEW c \in Clusters(n), NEW x \in Places, NCluster(x) \in 0 .. n,
           NEW s, NamesTo(s, c, NCluster(x)), ~TypeWraps(NCluster(x)),
           NEW m \in Els, NEW d \in Clusters(m), Held(d) = UpTo(Held(c), x)
    PROVE  Names(FDeleteAllAfterW(CutSum(s, c, x), NCluster(x)), d)
<1> DEFINE k == NCluster(x)
           s2 == CutSum(s, c, x)
           s3 == FDeleteAllAfterW(s2, k)
<1>1. k \in Els /\ k \in Nat /\ s2 \in Words
  BY PlaceOf, Bounds, CutSumIs
<1>2. \A j \in 0 .. k : FHasElementW(s2, j) <=> \E z \in Held(d) : NCluster(z) = j
  BY CutSumIs
<1>3. s3 \in Words /\ \A j \in Els : FHasElementW(s3, j) <=> FHasElementW(s2, j) /\ j <= k
  <2>1. TypeMax > Universe - 1 \/ k # Universe - 1
    BY Ranges DEF TypeWraps
  <2> HIDE DEF k, s2
  <2> QED
    BY <1>1, <2>1, FDeleteAllAfterWIs
<1>4. \A z \in Held(d) : NCluster(z) \in Nat /\ NCluster(z) <= k
  <2>1. \A z \in UpTo(Held(c), x) : z \in Places
    BY DEF UpTo, Held
  <2>2. \A z \in UpTo(Held(c), x) : NCluster(z) \in Nat
    BY <2>1, PlaceOf, Bounds
  <2>3. \A z \in UpTo(Held(c), x) : NCluster(z) < k \/ NCluster(z) = k
    BY <2>1, UpToIs
  <2> QED
    BY <1>1, <2>2, <2>3
<1> HIDE DEF s2, s3
<1>5. ASSUME NEW j \in Els PROVE FHasElementW(s3, j) <=> \E z \in Held(d) : NCluster(z) = j
  <2>1. j \in Nat
    BY Bounds
  <2>2. CASE j <= k
    <3>1. j \in 0 .. k
      BY <1>1, <2>1, <2>2
    <3> QED
      BY <1>2, <1>3, <2>2, <3>1
  <2>3. CASE ~(j <= k)
    BY <1>3, <1>4, <2>3
  <2> QED
    BY <2>2, <2>3
<1> QED
  BY <1>3, <1>5, NamesIs DEF s2, s3

LEMMA CutMaxIs ==
    ASSUME NEW n \in Els, NEW c \in Clusters(n), NEW x \in Places, NCluster(x) \in 0 .. n,
           NEW s, NamesTo(s, c, NCluster(x)), NEW mn
    PROVE  LET D == UpTo(Held(c), x)
               mx == CutMax(mn, s, c, x)
           IN  /\ D = {} => mx = mn
               /\ D # {} => mx \in D /\ \A z \in D : z <= mx
<1> DEFINE k == NCluster(x)
           D == UpTo(Held(c), x)
           cl == CutCluster(c, x)
           sum == CutSum(s, c, x)
           prev == NPredecessorW(sum, k)
           mx == CutMax(mn, s, c, x)
<1>1. k \in Els /\ k \in Nat /\ n \in Nat /\ cl \in Words /\ sum \in Words /\ Universe - 1 \in Nat
  BY PlaceOf, Bounds, CutSumIs, CutClusterIs, Ranges
<1>2. \A z \in D : /\ z \in Places /\ z \in Held(c) /\ NCluster(z) \in 0 .. k /\ NCluster(z) \in Nat
                   /\ NElInCluster(z) \in Els /\ z \in Nat
  <2>1. \A z \in D : z \in Places /\ z \in Held(c)
    BY DEF UpTo, Held
  <2>2. \A z \in D : NCluster(z) \in Nat /\ NElInCluster(z) \in Els /\ z \in Nat
    BY <2>1, PlaceOf, Bounds
  <2>3. \A z \in D : NCluster(z) < k \/ NCluster(z) = k
    BY <2>1, UpToIs
  <2> QED
    BY <1>1, <2>1, <2>2, <2>3
<1>3. CASE FHasAnyElements(cl)
  <2> DEFINE e == NMaxW(cl)
             y == NIndex(k, e)
  <2>1. mx = y
    BY <1>3, Zenon DEF CutMax
  <2>2. e \in Els /\ FHasElementW(cl, e) /\ \A f \in Els : FHasElementW(cl, f) => f <= e
    BY <1>1, <1>3, NMaxWIs
  <2> HIDE DEF e
  <2>3. y \in Places /\ NCluster(y) = k /\ NElInCluster(y) = e /\ y \in Nat /\ e \in Nat
    BY <1>1, <2>2, IndexOf, Bounds
  <2> HIDE DEF y
  <2>4. y \in D
    BY <2>2, <2>3, UpToIs
  <2>5. ASSUME NEW z \in D PROVE z <= y
    <3>1. NCluster(z) = k => NElInCluster(z) <= e
      <4>1. NCluster(z) = k => FHasElementW(cl, NElInCluster(z))
        BY <1>1, <1>2, UpToIs
      <4> QED
        BY <1>2, <2>2, <4>1
    <3>2. y < z => k < NCluster(z) \/ (NCluster(z) = k /\ e < NElInCluster(z))
      BY <1>2, <2>3, PlaceOrder
    <3>3. NElInCluster(z) \in Nat /\ NCluster(z) <= k
      <4>1. NElInCluster(z) \in Els /\ NCluster(z) \in 0 .. k
        BY <1>2
      <4>2. NElInCluster(z) \in Nat
        BY <4>1, Bounds
      <4> QED
        BY <1>1, <4>1, <4>2
    <3> QED
      BY <1>1, <1>2, <2>3, <3>1, <3>2, <3>3
  <2> QED
    BY <2>1, <2>4, <2>5
<1>4. CASE ~FHasAnyElements(cl)
  <2>1. \A z \in D : NCluster(z) < k
    <3>1. \A z \in D : NCluster(z) # k
      BY <1>4, CutAnyIs
    <3> QED
      BY <1>1, <1>2, <3>1
  <2>2. \A j \in 0 .. k : FHasElementW(sum, j) <=> \E z \in D : NCluster(z) = j
    BY CutSumIs
  <2>3. \/ prev = NoPredecessorW /\ \A j \in Els : FHasElementW(sum, j) => j >= k
        \/ /\ prev \in Els /\ FHasElementW(sum, prev) /\ prev < k
           /\ \A j \in Els : FHasElementW(sum, j) /\ j < k => j <= prev
    <3> HIDE DEF sum, k
    <3> QED
      BY <1>1, NPredecessorWIs DEF NoPredecessorW
  <2>4. \A z \in D : NCluster(z) \in Els /\ FHasElementW(sum, NCluster(z)) /\ NCluster(z) < k
    BY <1>1, <1>2, <2>1, <2>2, PlaceOf
  <2> HIDE DEF sum, cl
  <2>5. CASE prev = NoPredecessorW
    <3>1. mx = mn
      BY <1>4, <2>5, Zenon DEF CutMax, sum, cl
    <3>2. ~(prev \in Els /\ prev < k)
      <4>1. k <= Universe - 1
        BY <1>1, Ranges DEF Els
      <4> QED
        BY <1>1, <2>5, <4>1 DEF NoPredecessorW
    <3>3. D = {}
      <4>1. SUFFICES ASSUME NEW z \in D PROVE FALSE
        OBVIOUS
      <4> QED
        BY <1>1, <1>2, <2>3, <2>4, <3>2
    <3> QED
      BY <3>1, <3>3
  <2>6. CASE prev # NoPredecessorW
    <3> DEFINE e == NMaxW(c[prev])
               y == NIndex(prev, e)
    <3>1. mx = y
      BY <1>4, <2>6, Zenon DEF CutMax, sum, cl
    <3>2. /\ prev \in Els /\ prev \in Nat /\ prev < k /\ prev \in 0 .. k /\ prev \in 0 .. n /\ FHasElementW(sum, prev)
          /\ \A j \in Els : FHasElementW(sum, j) /\ j < k => j <= prev
      <4>1. /\ prev \in Els /\ prev < k /\ FHasElementW(sum, prev)
            /\ \A j \in Els : FHasElementW(sum, j) /\ j < k => j <= prev
        BY <2>3, <2>6
      <4>2. prev \in Nat
        BY <4>1, Bounds
      <4>3. prev \in 0 .. k /\ prev \in 0 .. n
        BY <1>1, <4>1, <4>2
      <4> QED
        BY <4>1, <4>2, <4>3
    <3> HIDE DEF prev
    <3>3. FHasAnyElements(c[prev]) /\ c[prev] \in Words
      <4>1. PICK z \in D : NCluster(z) = prev
        BY <2>2, <3>2
      <4> QED
        BY <1>2, <3>2, <4>1, HeldAnyAt DEF Clusters
    <3>4. e \in Els /\ FHasElementW(c[prev], e) /\ \A f \in Els : FHasElementW(c[prev], f) => f <= e
      BY <3>3, NMaxWIs
    <3> HIDE DEF e
    <3>5. /\ y \in Places /\ NCluster(y) = prev /\ NElInCluster(y) = e /\ y \in Nat /\ e \in Nat
          /\ y \in Held(c)
      BY <3>2, <3>4, IndexOf, HeldAt, Bounds
    <3> HIDE DEF y
    <3>6. y \in D
      BY <3>2, <3>5, UpToIs
    <3>7. ASSUME NEW z \in D PROVE z <= y
      <4>1. NCluster(z) <= prev
        BY <2>4, <3>2
      <4>2. NCluster(z) = prev => NElInCluster(z) <= e
        <5>1. NCluster(z) = prev => FHasElementW(c[prev], NElInCluster(z))
          BY <1>2 DEF Held, In
        <5> QED
          BY <1>2, <3>4, <5>1
      <4>3. y < z => prev < NCluster(z) \/ (NCluster(z) = prev /\ e < NElInCluster(z))
        BY <1>2, <3>5, PlaceOrder
      <4>4. NElInCluster(z) \in Nat
        BY <1>2, Bounds
      <4> QED
        BY <1>2, <3>2, <3>5, <4>1, <4>2, <4>3, <4>4
    <3> QED
      BY <3>1, <3>6, <3>7
  <2> QED
    BY <2>5, <2>6
<1> QED
  BY <1>3, <1>4

LEMMA CutAfterMade ==
    ASSUME NEW t, t = Made(t, t.min, t.max, t.sum, t.cl), NEW x
    PROVE  CutAfter(t, x) = Made(t, t.min, CutMax(t.min, t.sum, t.cl, x), CutSum(t.sum, t.cl, x),
                                 [t.cl EXCEPT ![NCluster(x)] = CutCluster(t.cl, x)])
<1> DEFINE mx == CutMax(t.min, t.sum, t.cl, x)
           s == CutSum(t.sum, t.cl, x)
           v == CutCluster(t.cl, x)
<1>1. SUFFICES ASSUME NEW u, u = CutAfter(t, x)
               PROVE  u = Made(t, t.min, mx, s, [t.cl EXCEPT ![NCluster(x)] = v])
  OBVIOUS
<1>2. u = [t EXCEPT !.cl[NCluster(x)] = v, !.sum = s, !.max = mx]
  BY <1>1, Zenon DEF CutAfter, CutMax, CutSum, CutCluster
<1> HIDE DEF mx, s, v
<1> QED
  BY <1>2 DEF Made

\* What DeleteAllAfter leaves of the clusters.
CutClusters(c, x) ==
    [j \in DOMAIN c |-> IF j > NCluster(x) THEN ZeroWords ELSE [c EXCEPT ![NCluster(x)] = CutCluster(c, x)][j]]

LEMMA DeleteAllAfterMade ==
    ASSUME NEW t, IsTree(t), HasAny(t), NEW x, ~(x < t.min), ~(x > t.max)
    PROVE  DeleteAllAfter(t, x) = Made(t, t.min, CutMax(t.min, t.sum, t.cl, x),
                                       FDeleteAllAfterW(CutSum(t.sum, t.cl, x), NCluster(x)), CutClusters(t.cl, x))
<1> DEFINE k == NCluster(x)
           mx == CutMax(t.min, t.sum, t.cl, x)
           s == CutSum(t.sum, t.cl, x)
           c == [t.cl EXCEPT ![k] = CutCluster(t.cl, x)]
           u == CutAfter(t, x)
<1>1. u = Made(t, t.min, mx, s, c)
  BY CutAfterMade DEF IsTree
<1>2. DeleteAllAfter(t, x) = [u EXCEPT !.cl = [j \in DOMAIN @ |-> IF j > k THEN ZeroWords ELSE @[j]],
                                       !.sum = FDeleteAllAfterW(@, k)]
  BY Zenon DEF DeleteAllAfter
<1>3. CutClusters(t.cl, x) = [j \in DOMAIN c |-> IF j > k THEN ZeroWords ELSE c[j]]
  BY DEF CutClusters
<1> HIDE DEF u, mx, s, c
<1>4. u.cl = c /\ u.sum = s
  BY <1>1 DEF Made
<1>5. DeleteAllAfter(t, x) = [u EXCEPT !.cl = CutClusters(t.cl, x), !.sum = FDeleteAllAfterW(s, k)]
  BY <1>2, <1>3, <1>4
<1>6. SUFFICES ASSUME NEW v, v = DeleteAllAfter(t, x)
               PROVE  v = Made(t, t.min, mx, FDeleteAllAfterW(s, k), CutClusters(t.cl, x))
  BY DEF mx, s
<1> QED
  BY <1>1, <1>5, <1>6 DEF Made

LEMMA CutClustersAre ==
    ASSUME NEW n \in Els, NEW c \in Clusters(n), NEW x \in Places, NCluster(x) \in 0 .. n
    PROVE  CutClusters(c, x) \in Clusters(n) /\ IsCut(CutClusters(c, x), c, x)
<1>1. DOMAIN c = 0 .. n /\ CutCluster(c, x) \in Words /\ ZeroWords \in Words /\ ~FHasAnyElements(ZeroWords)
      /\ NCluster(x) \in Nat /\ n \in Nat
  BY CutClusterIs, ZeroWordsIs, PlaceOf, Bounds DEF Clusters
<1>2. ASSUME NEW j \in 0 .. n
      PROVE  /\ c[j] \in Words
             /\ CutClusters(c, x)[j] = IF j > NCluster(x) THEN ZeroWords
                                       ELSE IF j = NCluster(x) THEN CutCluster(c, x) ELSE c[j]
  BY <1>1 DEF CutClusters, Clusters
<1>3. CutClusters(c, x) = [j \in 0 .. n |-> CutClusters(c, x)[j]]
  BY <1>1 DEF CutClusters
<1>4. \A j \in 0 .. n : CutClusters(c, x)[j] \in Words
  BY <1>1, <1>2
<1>5. DOMAIN CutClusters(c, x) = 0 .. n
  BY <1>1 DEF CutClusters
<1>6. CutClusters(c, x) \in Clusters(n)
  BY <1>3, <1>4, <1>5 DEF Clusters
<1>7. IsCut(CutClusters(c, x), c, x)
  BY <1>1, <1>2, <1>5 DEF IsCut
<1> QED
  BY <1>6, <1>7

\* A tree that is cut: its clusters hold what they held up to x.
LEMMA CutStands ==
    ASSUME NEW t, IsTree(t), NEW n \in Els, NEW c \in Clusters(n), NEW x \in 0 .. t.last, NCluster(x) \in 0 .. n,
           NEW s, NamesTo(s, c, NCluster(x)), ~TypeWraps(NCluster(x)),
           NEW d \in Clusters(NCluster(t.last)), IsCut(d, c, x),
           NEW mn \in 0 .. t.last, \A z \in Held(c) : mn < z
    PROVE  Stands(Made(t, mn, CutMax(mn, s, c, x), FDeleteAllAfterW(CutSum(s, c, x), NCluster(x)), d), t,
                  UpTo(Held(c), x) \cup {mn})
<1> DEFINE m == NCluster(t.last)
           D == UpTo(Held(c), x)
           mx == CutMax(mn, s, c, x)
           s3 == FDeleteAllAfterW(CutSum(s, c, x), NCluster(x))
<1>1. m \in Els /\ x \in Places /\ NCluster(x) \in 0 .. m
  BY TreeIs
<1>2. Held(d) = D
  BY <1>1, CutHeld
<1>3. Names(s3, d)
  BY <1>1, <1>2, CutNames
<1>4. Top(d, mn, mx)
  BY <1>1, <1>2, CutMaxIs DEF Top
<1>5. Held(d) \subseteq 0 .. t.last /\ \A z \in Held(d) : mn < z
  <2>1. \A z \in Held(d) : z \in Held(c) /\ z <= x /\ z \in Nat
    BY <1>2, Bounds DEF UpTo, Held
  <2>2. t.last \in Nat
    BY TreeIs, Bounds
  <2> QED
    BY <2>1, <2>2
<1> HIDE DEF mx, s3, D
<1>6. Stands(Made(t, mn, mx, s3, d), t, Held(d) \cup {mn})
  BY <1>3, <1>4, <1>5, MadeStands
<1> QED
  BY <1>2, <1>6 DEF mx, s3, D

LEMMA DeleteAllAfterStands ==
    ASSUME NEW t, NEW S, Rep(t, S), NEW x \in 0 .. t.last, ~TypeWraps(NCluster(x))
    PROVE  Stands(DeleteAllAfter(t, x), t, UpTo(S, x))
<1>1. /\ IsTree(t) /\ S \subseteq 0 .. t.last /\ Held(t.cl) = S \ {t.min} /\ S \subseteq Nat /\ (HasAny(t) <=> S # {})
      /\ S # {} => t.min \in S /\ t.max \in S /\ t.min \in Nat /\ t.max \in Nat /\ \A z \in S : t.min <= z /\ z <= t.max
      /\ x \in Nat
  <2>1. IsTree(t) /\ S \subseteq 0 .. t.last /\ Held(t.cl) = S \ {t.min}
    BY DEF Rep
  <2>2. t.last \in Nat
    BY <2>1, TreeIs, Bounds
  <2>3. x \in Nat
    BY <2>2
  <2> QED
    BY <2>1, <2>3, RepIs
<1>2. CASE S = {}
  <2>1. DeleteAllAfter(t, x) = t
    BY <1>1, <1>2, Zenon DEF DeleteAllAfter
  <2>2. UpTo(S, x) = S
    BY <1>2 DEF UpTo
  <2> QED
    BY <2>1, <2>2, ItStands
<1>3. CASE S # {} /\ x < t.min
  <2>1. DeleteAllAfter(t, x) = ClearTree(t)
    BY <1>1, <1>3, Zenon DEF DeleteAllAfter
  <2>2. UpTo(S, x) = {}
    <3>1. \A z \in S : z \in Nat /\ t.min <= z /\ t.min \in Nat
      BY <1>1, <1>3
    <3>2. \A z \in S : ~(z <= x)
      BY <1>1, <1>3, <3>1
    <3> QED
      BY <3>2 DEF UpTo
  <2> QED
    BY <2>1, <2>2, ClearStands
<1>4. CASE S # {} /\ ~(x < t.min) /\ x > t.max
  <2>1. DeleteAllAfter(t, x) = t
    BY <1>1, <1>4, Zenon DEF DeleteAllAfter
  <2>2. UpTo(S, x) = S
    <3>1. \A z \in S : z \in Nat /\ z <= t.max /\ t.max \in Nat
      BY <1>1, <1>4
    <3>2. \A z \in S : z <= x
      BY <1>1, <1>4, <3>1
    <3> QED
      BY <3>2 DEF UpTo
  <2> QED
    BY <2>1, <2>2, ItStands
<1>5. CASE S # {} /\ ~(x < t.min) /\ ~(x > t.max)
  <2> DEFINE n == NCluster(t.last)
             d == CutClusters(t.cl, x)
  <2>1. DeleteAllAfter(t, x) = Made(t, t.min, CutMax(t.min, t.sum, t.cl, x),
                                    FDeleteAllAfterW(CutSum(t.sum, t.cl, x), NCluster(x)), d)
    BY <1>1, <1>5, DeleteAllAfterMade
  <2>2. n \in Els /\ t.cl \in Clusters(n) /\ x \in Places /\ NCluster(x) \in 0 .. n /\ t.min \in 0 .. t.last
        /\ DOMAIN t.cl = 0 .. n
    BY <1>1, <1>5, TreeIs
  <2>3. NamesTo(t.sum, t.cl, NCluster(x))
    <3>1. t.sum \in Words /\ Names(t.sum, t.cl)
      BY <1>1, TreeIs
    <3>2. 0 .. NCluster(x) \subseteq 0 .. n /\ 0 .. n \subseteq Els
      BY <2>2, ClusterNos, Bounds
    <3> QED
      BY <2>2, <3>1, <3>2 DEF Names, NamesTo
  <2>4. d \in Clusters(n) /\ IsCut(d, t.cl, x)
    BY <2>2, CutClustersAre
  <2>5. \A z \in Held(t.cl) : t.min < z
    <3>1. \A z \in S : z \in Nat /\ t.min <= z /\ t.min \in Nat
      BY <1>1, <1>5
    <3>2. \A z \in Held(t.cl) : z \in S /\ z # t.min
      BY <1>1
    <3> QED
      BY <3>1, <3>2
  <2> HIDE DEF d
  <2>6. Stands(DeleteAllAfter(t, x), t, UpTo(Held(t.cl), x) \cup {t.min})
    <3>1. IsTree(t) /\ d \in Clusters(NCluster(t.last)) /\ NCluster(x) \in 0 .. n
      BY <1>1, <2>2, <2>4
    <3> HIDE DEF n
    <3>2. Stands(Made(t, t.min, CutMax(t.min, t.sum, t.cl, x), FDeleteAllAfterW(CutSum(t.sum, t.cl, x), NCluster(x)), d),
                 t, UpTo(Held(t.cl), x) \cup {t.min})
      BY <2>2, <2>3, <2>4, <2>5, <3>1, CutStands
    <3> QED
      BY <2>1, <3>2
  <2>7. UpTo(Held(t.cl), x) \cup {t.min} = UpTo(S, x)
    BY <1>1, <1>5 DEF UpTo
  <2> QED
    BY <2>6, <2>7
<1> QED
  BY <1>2, <1>3, <1>4, <1>5

Wrapping(n, mn, mx, s, c) ==
    [kind |-> "wrap", last |-> n - 1, none |-> LastOfAll, min |-> mn, max |-> mx, sum |-> s, cl |-> c]

LEMMA WrapMade ==
    ASSUME NEW n \in 1 .. LastOfAll + 1, NEW mn, NEW mx, NEW s, NEW c
    PROVE  /\ Wrapping(n, mn, mx, s, c) = Made(Blank("wrap", n), mn, mx, s, c)
           /\ IsTree(Blank("wrap", n)) /\ Blank("wrap", n).last = n - 1 /\ Blank("wrap", n).kind = "wrap"
           /\ Blank("wrap", n).none = LastOfAll
           /\ n - 1 \in Places /\ NCluster(n - 1) \in Els
<1> DEFINE b == Blank("wrap", n)
<1>1. Rep(b, {}) /\ b.kind = "wrap" /\ b.last = n - 1
  BY BlankStands
<1> HIDE DEF b
<1>2. IsTree(b) /\ b.none = LastOfAll
  BY <1>1 DEF Rep, IsTree
<1>3. n - 1 \in Places /\ NCluster(n - 1) \in Els
  BY <1>1, <1>2, TreeIs
<1>4. Wrapping(n, mn, mx, s, c) = Made(b, mn, mx, s, c)
  BY <1>1, <1>2 DEF Wrapping, Made
<1> QED
  BY <1>1, <1>2, <1>3, <1>4 DEF b

LEMMA WrapRep ==
    ASSUME NEW n \in 1 .. LastOfAll + 1, NEW S, S \subseteq 0 .. n - 1, NEW mn, NEW mx, NEW s, NEW c,
           c \in Clusters(NCluster(n - 1)), Names(s, c), Held(c) = S \ {mn},
           S = {} => mn = LastOfAll /\ mx = 0,
           S # {} => mn \in S /\ mx \in S /\ \A x \in S : mn <= x /\ x <= mx
    PROVE  Rep(Wrapping(n, mn, mx, s, c), S)
<1> DEFINE b == Blank("wrap", n)
<1>1. Wrapping(n, mn, mx, s, c) = Made(b, mn, mx, s, c) /\ IsTree(b) /\ b.last = n - 1 /\ b.none = LastOfAll
  BY WrapMade
<1> HIDE DEF b
<1>2. S \subseteq 0 .. b.last /\ c \in Clusters(NCluster(b.last)) /\ (S = {} => mn = b.none /\ mx = 0)
  BY <1>1
<1>3. Rep(Made(b, mn, mx, s, c), S)
  BY <1>1, <1>2, MadeRep
<1> QED
  BY <1>1, <1>3

LEMMA WrapTree ==
    ASSUME NEW t, IsTree(t), t.kind = "wrap"
    PROVE  t = Wrapping(t.last + 1, t.min, t.max, t.sum, t.cl)
<1>1. t.none = LastOfAll /\ t.last \in Nat
  BY TreeIs, Bounds DEF IsTree
<1>2. t.last + 1 - 1 = t.last
  BY <1>1
<1>3. t = Made(t, t.min, t.max, t.sum, t.cl)
  BY DEF IsTree
<1>4. Wrapping(t.last + 1, t.min, t.max, t.sum, t.cl) = Made(t, t.min, t.max, t.sum, t.cl)
  BY <1>1, <1>2 DEF Made, Wrapping
<1> QED
  BY <1>3, <1>4

LEMMA ClusterCount ==
    ASSUME NEW t, IsTree(t)
    PROVE  NClusters(t) = NCluster(t.last) + 1
<1>1. NCluster(t.last) \in Nat /\ DOMAIN t.cl = 0 .. NCluster(t.last)
  BY TreeIs, Bounds
<1>2. Cardinality(0 .. NCluster(t.last)) = NCluster(t.last) - 0 + 1
  BY <1>1, FS_Interval
<1> QED
  BY <1>1, <1>2 DEF NClusters

LEMMA NamesCut ==
    ASSUME NEW n \in Els, NEW c \in Clusters(n), NEW s, Names(s, c), NEW k \in Els, ~TypeWraps(k),
           NEW d, d \in Clusters(k), Held(d) = Held(c), \A z \in Held(c) : NCluster(z) <= k
    PROVE  Names(FDeleteAllAfterW(s, k), d)
<1>1. s \in Words /\ \A j \in Els : FHasElementW(s, j) <=> \E z \in Held(c) : NCluster(z) = j
  BY NamesSay
<1>2. TypeMax > Universe - 1 \/ k # Universe - 1
  BY Ranges DEF TypeWraps
<1>3. FDeleteAllAfterW(s, k) \in Words
      /\ \A j \in Els : FHasElementW(FDeleteAllAfterW(s, k), j) <=> FHasElementW(s, j) /\ j <= k
  BY <1>1, <1>2, FDeleteAllAfterWIs
<1>4. \A j \in Els : FHasElementW(FDeleteAllAfterW(s, k), j) <=> \E z \in Held(d) : NCluster(z) = j
  BY <1>1, <1>3
<1> QED
  BY <1>3, <1>4, NamesIs

\* The first clusters of c, and empty ones after them.
Spread(c, m) == [k \in 0 .. m |-> IF k \in DOMAIN c THEN c[k] ELSE ZeroWords]

LEMMA SpreadIs ==
    ASSUME NEW n \in Els, NEW c \in Clusters(n), NEW m \in Els
    PROVE  /\ Spread(c, m) \in Clusters(m)
           /\ \A k \in 0 .. m : k \in 0 .. n => Spread(c, m)[k] = c[k]
           /\ Held(Spread(c, m)) = {z \in Held(c) : NCluster(z) <= m}
<1> DEFINE d == Spread(c, m)
<1>1. DOMAIN c = 0 .. n /\ ZeroWords \in Words /\ (\A k \in 0 .. n : c[k] \in Words) /\ m \in Nat /\ n \in Nat
  BY ZeroWordsIs, Bounds DEF Clusters
<1>2. d = [k \in 0 .. m |-> IF k \in 0 .. n THEN c[k] ELSE ZeroWords]
  BY <1>1 DEF Spread
<1> HIDE DEF d
<1>3. d \in Clusters(m) /\ DOMAIN d = 0 .. m
  BY <1>1, <1>2 DEF Clusters
<1>4. ASSUME NEW z \in Places PROVE z \in Held(d) <=> z \in Held(c) /\ NCluster(z) <= m
  <2>1. NCluster(z) \in Nat /\ NElInCluster(z) \in Els
    BY PlaceOf, Bounds
  <2>2. z \in Held(d) <=> NCluster(z) \in 0 .. m /\ FHasElementW(d[NCluster(z)], NElInCluster(z))
    BY <1>3 DEF Held, In
  <2>3. z \in Held(c) <=> NCluster(z) \in 0 .. n /\ FHasElementW(c[NCluster(z)], NElInCluster(z))
    BY <1>1 DEF Held, In
  <2>4. NCluster(z) \in 0 .. m <=> NCluster(z) <= m
    BY <1>1, <2>1
  <2>5. CASE NCluster(z) \in 0 .. m /\ NCluster(z) \in 0 .. n
    <3>1. d[NCluster(z)] = c[NCluster(z)]
      BY <1>2, <2>5
    <3> QED
      BY <2>2, <2>3, <2>4, <2>5, <3>1
  <2>6. CASE NCluster(z) \in 0 .. m /\ NCluster(z) \notin 0 .. n
    <3>1. d[NCluster(z)] = ZeroWords
      BY <1>2, <2>6
    <3>2. ~FHasElementW(d[NCluster(z)], NElInCluster(z))
      BY <2>1, <3>1, ZeroWordsIs
    <3> QED
      BY <2>2, <2>3, <2>6, <3>2
  <2>7. CASE NCluster(z) \notin 0 .. m
    BY <2>2, <2>4, <2>7
  <2> QED
    BY <2>5, <2>6, <2>7
<1>5. Held(d) \subseteq Places /\ Held(c) \subseteq Places
  BY DEF Held
<1>6. Held(d) = {z \in Held(c) : NCluster(z) <= m}
  BY <1>4, <1>5
<1>7. \A k \in 0 .. m : k \in 0 .. n => d[k] = c[k]
  BY <1>2
<1> QED
  BY <1>1, <1>3, <1>6, <1>7 DEF d

\* A tree that grows keeps its elements.
LEMMA GrownRep ==
    ASSUME NEW S, Rep(tree, S), tree.kind = "wrap", NEW n \in 1 .. LastOfAll + 1, n > tree.last + 1,
           NEW m, m = NCluster(n - 1) + 1, ~TypeWraps(m - 1) \/ NClusters(tree) = m
    PROVE  Rep(Grown(n, m), S) /\ Grown(n, m).last = n - 1 /\ Grown(n, m).kind = "wrap"
<1> DEFINE k == NCluster(tree.last)
           j == NCluster(n - 1)
<1>1. /\ IsTree(tree) /\ S \subseteq 0 .. tree.last /\ Held(tree.cl) = S \ {tree.min}
      /\ S = {} => tree.min = tree.none /\ tree.max = 0
      /\ S # {} => tree.min \in S /\ tree.max \in S /\ \A x \in S : tree.min <= x /\ x <= tree.max
  BY DEF Rep, Extremes
<1>2. /\ tree.last \in Places /\ k \in Els /\ DOMAIN tree.cl = 0 .. k /\ tree.cl \in Clusters(k)
      /\ Names(tree.sum, tree.cl) /\ tree.last \in Nat
  BY <1>1, TreeIs, Bounds
<1>3. n - 1 \in Places /\ j \in Els /\ j \in Nat /\ k \in Nat
  BY <1>2, WrapMade, Bounds
<1>4. tree.none = LastOfAll /\ tree.last < n - 1 /\ S \subseteq 0 .. n - 1
  BY <1>1, <1>2 DEF IsTree
<1>5. k <= j
  <2>1. tree.last <= n - 1
    BY <1>2, <1>4
  <2> QED
    BY <1>2, <1>3, <2>1, PlaceOrder
<1>6. m - 1 = j /\ NClusters(tree) = k + 1
  BY <1>1, <1>3, ClusterCount
<1> HIDE DEF k, j
<1>7. CASE m = NClusters(tree)
  <2>1. j = k
    BY <1>3, <1>6, <1>7
  <2>2. Grown(n, m) = Wrapping(n, tree.min, tree.max, tree.sum, tree.cl)
    <3>1. SUFFICES ASSUME NEW u, u = Grown(n, m) PROVE u = Wrapping(n, tree.min, tree.max, tree.sum, tree.cl)
      OBVIOUS
    <3>2. u = [tree EXCEPT !.last = n - 1]
      BY <1>7, <3>1, Zenon DEF Grown
    <3> QED
      BY <1>1, <1>4, <3>2 DEF IsTree, Made, Wrapping
  <2>3. tree.cl \in Clusters(NCluster(n - 1))
    BY <1>2, <2>1 DEF j
  <2>4. Rep(Wrapping(n, tree.min, tree.max, tree.sum, tree.cl), S)
    BY <1>1, <1>2, <1>4, <2>3, WrapRep
  <2> QED
    BY <2>2, <2>4 DEF Wrapping
<1>8. CASE m # NClusters(tree)
  <2> DEFINE s == FDeleteAllAfterW(tree.sum, j)
             d == Spread(tree.cl, j)
  <2>1. Grown(n, m) = Wrapping(n, tree.min, tree.max, s, d)
    <3>1. SUFFICES ASSUME NEW u, u = Grown(n, m) PROVE u = Wrapping(n, tree.min, tree.max, s, d)
      OBVIOUS
    <3>2. u = [tree EXCEPT !.last = n - 1,
                 !.cl = [i \in 0 .. m - 1 |-> IF i \in DOMAIN tree.cl THEN tree.cl[i] ELSE ZeroWords],
                 !.sum = FDeleteAllAfterW(@, m - 1)]
      BY <1>8, <3>1, Zenon DEF Grown
    <3>3. u = [tree EXCEPT !.last = n - 1, !.cl = d, !.sum = s]
      BY <1>6, <3>2 DEF Spread
    <3> HIDE DEF d, s
    <3> QED
      BY <1>1, <1>4, <3>3 DEF IsTree, Made, Wrapping
  <2>2. d \in Clusters(j) /\ Held(d) = Held(tree.cl) /\ \A z \in Held(tree.cl) : NCluster(z) <= j
    <3>1. \A z \in Held(tree.cl) : NCluster(z) \in 0 .. k
      BY <1>2 DEF Held, In
    <3>2. \A z \in Held(tree.cl) : NCluster(z) <= j
      BY <1>3, <1>5, <3>1
    <3>3. d \in Clusters(j) /\ Held(d) = {z \in Held(tree.cl) : NCluster(z) <= j}
      BY <1>2, <1>3, SpreadIs
    <3> QED
      BY <3>2, <3>3
  <2> HIDE DEF d
  <2>3. Names(s, d)
    BY <1>2, <1>3, <1>6, <1>8, <2>2, NamesCut
  <2> HIDE DEF s
  <2>4. d \in Clusters(NCluster(n - 1)) /\ Held(d) = S \ {tree.min}
    BY <1>1, <2>2 DEF j
  <2>5. Rep(Wrapping(n, tree.min, tree.max, s, d), S)
    BY <1>1, <1>4, <2>3, <2>4, WrapRep
  <2> QED
    BY <2>1, <2>5 DEF Wrapping
<1> QED
  BY <1>7, <1>8

\* The array of clusters, cut; the minimum and the maximum are as they were.
LEMMA CutArray ==
    ASSUME NEW S, Rep(tree, S), tree.kind = "wrap", NEW n \in 1 .. LastOfAll + 1, n < tree.last + 1,
           NEW m, m = NCluster(n - 1) + 1
    PROVE  LET j == NCluster(n - 1)
               d == Spread(tree.cl, j)
           IN  /\ [tree EXCEPT !.last = n - 1, !.cl = [k \in 0 .. m - 1 |-> tree.cl[k]]]
                     = Wrapping(n, tree.min, tree.max, tree.sum, d)
               /\ d \in Clusters(j) /\ Held(d) = {z \in S \ {tree.min} : NCluster(z) <= j}
               /\ NamesTo(tree.sum, d, j) /\ j \in Els /\ j \in Nat /\ m - 1 = j /\ n - 1 \in Places
               /\ \A z \in S : z < n => NCluster(z) <= j
<1> DEFINE k == NCluster(tree.last)
           j == NCluster(n - 1)
           d == Spread(tree.cl, j)
           c == [i \in 0 .. m - 1 |-> tree.cl[i]]
<1>1. IsTree(tree) /\ S \subseteq 0 .. tree.last /\ Held(tree.cl) = S \ {tree.min} /\ S \subseteq Places /\ S \subseteq Nat
  BY RepIs DEF Rep
<1>2. /\ tree.last \in Places /\ k \in Els /\ DOMAIN tree.cl = 0 .. k /\ tree.cl \in Clusters(k)
      /\ Names(tree.sum, tree.cl) /\ tree.last \in Nat
  BY <1>1, TreeIs, Bounds
<1>3. n - 1 \in Places /\ j \in Els /\ j \in Nat /\ k \in Nat /\ n - 1 \in Nat /\ m - 1 = j
  <2>1. n - 1 \in Places /\ j \in Els
    BY WrapMade
  <2>2. j \in Nat /\ k \in Nat /\ n - 1 \in Nat
    BY <1>2, <2>1, Bounds
  <2> HIDE DEF k
  <2> QED
    BY <2>1, <2>2
<1>4. tree.none = LastOfAll /\ n - 1 <= tree.last
  BY <1>1, <1>2, <1>3 DEF IsTree
<1>5. j <= k /\ 0 .. j \subseteq 0 .. k
  <2>1. j <= k
    BY <1>2, <1>3, <1>4, PlaceOrder
  <2> QED
    BY <1>3, <2>1
<1>6. \A z \in S : z < n => NCluster(z) <= j
  <2>1. SUFFICES ASSUME NEW z \in S, z < n PROVE NCluster(z) <= j
    OBVIOUS
  <2>2. z \in Places /\ z <= n - 1
    BY <1>1, <1>3, <2>1
  <2> QED
    BY <1>3, <2>2, PlaceOrder
<1>7. c = d
  <2>1. c = [i \in 0 .. j |-> tree.cl[i]]
    BY <1>3
  <2>2. \A i \in 0 .. j : i \in DOMAIN tree.cl
    BY <1>2, <1>5
  <2> QED
    BY <2>1, <2>2 DEF Spread
<1>8. /\ d \in Clusters(j) /\ Held(d) = {z \in Held(tree.cl) : NCluster(z) <= j}
      /\ \A i \in 0 .. j : i \in 0 .. k => d[i] = tree.cl[i]
  <2> HIDE DEF k, j
  <2> QED
    BY <1>2, <1>3, SpreadIs
<1> HIDE DEF d, c, k, j
<1>9. [tree EXCEPT !.last = n - 1, !.cl = c] = Wrapping(n, tree.min, tree.max, tree.sum, d)
  <2>1. SUFFICES ASSUME NEW u, u = [tree EXCEPT !.last = n - 1, !.cl = d]
                 PROVE  u = Wrapping(n, tree.min, tree.max, tree.sum, d)
    BY <1>7
  <2> QED
    BY <1>1, <1>4, <2>1 DEF IsTree, Made, Wrapping
<1>10. NamesTo(tree.sum, d, j)
  <2>1. \A i \in 0 .. j : i \in 0 .. k /\ i \in Els /\ i \in DOMAIN tree.cl
    BY <1>2, <1>5, ClusterNos
  <2>2. \A i \in 0 .. j : FHasElementW(tree.sum, i) <=> FHasAnyElements(d[i])
    BY <1>2, <1>8, <2>1 DEF Names
  <2> QED
    BY <1>2, <2>2 DEF NamesTo, Names
<1> QED
  BY <1>1, <1>3, <1>6, <1>8, <1>9, <1>10 DEF d, c, j

LEMMA NamesToCut ==
    ASSUME NEW k \in Els, NEW s, NEW d \in Clusters(k), NamesTo(s, d, k), ~TypeWraps(k)
    PROVE  Names(FDeleteAllAfterW(s, k), d)
<1>1. TypeMax > Universe - 1 \/ k # Universe - 1
  BY Ranges DEF TypeWraps
<1>2. FDeleteAllAfterW(s, k) \in Words
      /\ \A j \in Els : FHasElementW(FDeleteAllAfterW(s, k), j) <=> FHasElementW(s, j) /\ j <= k
  BY <1>1, FDeleteAllAfterWIs DEF NamesTo
<1>3. DOMAIN d = 0 .. k /\ k \in Nat
  BY Bounds DEF Clusters
<1>4. \A j \in Els : j \in 0 .. k <=> j <= k
  BY <1>3, Bounds
<1>5. \A j \in 0 .. k : FHasElementW(s, j) <=> FHasAnyElements(d[j])
  BY DEF NamesTo
<1> QED
  BY <1>2, <1>3, <1>4, <1>5 DEF Names

\* A tree that shrinks keeps its elements below its new size; the code relies on
\* the minimum being one, unless the tree holds one element or none.
LEMMA ShrunkRep ==
    ASSUME NEW S, Rep(tree, S), tree.kind = "wrap", NEW n \in 1 .. LastOfAll + 1, n < tree.last + 1,
           NEW m, m = NCluster(n - 1) + 1, ~TypeWraps(m - 1),
           ~HasAny(tree) \/ HasOne(tree) \/ tree.min < n
    PROVE  /\ Rep(Shrunk(n, m), {x \in S : x < n})
           /\ Shrunk(n, m).last = n - 1 /\ Shrunk(n, m).kind = "wrap"
<1> DEFINE j == NCluster(n - 1)
           d == Spread(tree.cl, j)
           cut == [tree EXCEPT !.last = n - 1, !.cl = [k \in 0 .. m - 1 |-> tree.cl[k]]]
           trimmed == IF ~HasAny(cut) \/ cut.max < n THEN cut
                      ELSE IF cut.min < n THEN CutAfter(cut, n - 1)
                      ELSE ClearTree(cut)
           T == {x \in S : x < n}
           s == FDeleteAllAfterW(tree.sum, j)
<1>1. /\ cut = Wrapping(n, tree.min, tree.max, tree.sum, d)
      /\ d \in Clusters(j) /\ Held(d) = {z \in S \ {tree.min} : NCluster(z) <= j}
      /\ NamesTo(tree.sum, d, j) /\ j \in Els /\ j \in Nat /\ m - 1 = j /\ n - 1 \in Places
      /\ \A z \in S : z < n => NCluster(z) <= j
  BY CutArray, ZenonT(60)
<1>2. /\ (HasAny(tree) <=> S # {}) /\ (HasOne(tree) <=> S = {tree.min}) /\ S \subseteq Nat /\ n \in Nat
      /\ S = {} => tree.min = LastOfAll /\ tree.max = 0
      /\ S # {} => tree.min \in S /\ tree.max \in S /\ tree.min \in Nat /\ tree.max \in Nat
                   /\ \A x \in S : tree.min <= x /\ x <= tree.max
  <2>1. tree.none = LastOfAll
    BY DEF Rep, IsTree
  <2> QED
    BY <2>1, RepIs, Bounds
<1>3. Shrunk(n, m) = [trimmed EXCEPT !.sum = FDeleteAllAfterW(@, m - 1)]
  BY Zenon DEF Shrunk
<1> HIDE DEF j, d, cut
<1>4. /\ cut.min = tree.min /\ cut.max = tree.max /\ cut.sum = tree.sum /\ cut.cl = d /\ cut.none = LastOfAll
      /\ (HasAny(cut) <=> HasAny(tree)) /\ (HasOne(cut) <=> HasOne(tree))
  BY <1>1 DEF Wrapping, HasAny, HasOne
<1>5. T \subseteq 0 .. n - 1
  <2>1. \A x \in S : x \in Nat
    BY <1>2
  <2>2. n \in Nat
    BY <1>2
  <2>3. \A x \in T : x \in 0 .. n - 1
    BY <2>1, <2>2
  <2> QED
    BY <2>3
<1>6. d \in Clusters(NCluster(n - 1)) /\ Names(s, d)
  BY <1>1, NamesToCut DEF j
<1> HIDE DEF s
<1>7. CASE S = {} \/ (S # {} /\ tree.max < n)
  <2>1. trimmed = cut
    BY <1>2, <1>4, <1>7
  <2>2. Shrunk(n, m) = Wrapping(n, tree.min, tree.max, s, d)
    <3>1. SUFFICES ASSUME NEW u, u = Shrunk(n, m) PROVE u = Wrapping(n, tree.min, tree.max, s, d)
      OBVIOUS
    <3>2. u = [cut EXCEPT !.sum = FDeleteAllAfterW(@, j)]
      BY <1>1, <1>3, <2>1, <3>1
    <3> QED
      BY <1>1, <3>2 DEF Wrapping, s
  <2>3. T = S
    <3>1. \A x \in S : x < n
      <4>1. \A x \in S : x \in Nat
        BY <1>2
      <4> QED
        BY <1>2, <1>7, <4>1
    <3> QED
      BY <3>1
  <2>4. Held(d) = S \ {tree.min}
    BY <1>1, <2>3
  <2>5. Rep(Wrapping(n, tree.min, tree.max, s, d), S)
    <3> HIDE DEF T
    <3> QED
      BY <1>2, <1>5, <1>6, <2>3, <2>4, WrapRep
  <2> QED
    BY <2>2, <2>3, <2>5 DEF Wrapping
<1>8. CASE S # {} /\ ~(tree.max < n) /\ tree.min < n
  <2> DEFINE mx == CutMax(tree.min, tree.sum, d, n - 1)
             s2 == CutSum(tree.sum, d, n - 1)
             s3 == FDeleteAllAfterW(s2, j)
             e == [d EXCEPT ![j] = CutCluster(d, n - 1)]
             b == Blank("wrap", n)
  <2>1. trimmed = CutAfter(cut, n - 1)
    BY <1>2, <1>4, <1>8
  <2>2. CutAfter(cut, n - 1) = Made(cut, tree.min, mx, s2, e)
    <3>1. cut = Made(cut, cut.min, cut.max, cut.sum, cut.cl)
      BY <1>1 DEF Wrapping, Made
    <3> QED
      BY <1>4, <3>1, CutAfterMade DEF j
  <2>3. CutCluster(d, n - 1) \in Words
    BY <1>1, CutClusterIs DEF j
  <2> HIDE DEF mx, s2
  <2>4. Shrunk(n, m) = Wrapping(n, tree.min, mx, s3, e)
    <3>1. SUFFICES ASSUME NEW u, u = Shrunk(n, m) PROVE u = Wrapping(n, tree.min, mx, s3, e)
      OBVIOUS
    <3> HIDE DEF e
    <3>2. u = [Made(cut, tree.min, mx, s2, e) EXCEPT !.sum = FDeleteAllAfterW(@, j)]
      BY <1>1, <1>3, <2>1, <2>2, <3>1
    <3> QED
      BY <1>1, <3>2 DEF Wrapping, Made
  <2>5. b.last = n - 1 /\ IsTree(b) /\ b.kind = "wrap" /\ Wrapping(n, tree.min, mx, s3, e) = Made(b, tree.min, mx, s3, e)
    BY WrapMade
  <2> HIDE DEF b
  <2>6. e \in Clusters(j) /\ IsCut(e, d, n - 1)
    <3>1. DOMAIN d = 0 .. j /\ j \in Nat
      BY <1>1 DEF Clusters
    <3>2. e \in Clusters(j) /\ DOMAIN e = 0 .. j /\ e[j] = CutCluster(d, n - 1) /\ \A i \in 0 .. j : i # j => e[i] = d[i]
      BY <1>1, <2>3, <3>1 DEF Clusters
    <3> HIDE DEF e
    <3>3. \A i \in 0 .. j : ~(i > j) /\ (i < j => i # j)
      BY <3>1
    <3> QED
      BY <3>2, <3>3 DEF IsCut, j
  <2> HIDE DEF e
  <2>7. Stands(Made(b, tree.min, mx, s3, e), b, UpTo(Held(d), n - 1) \cup {tree.min})
    <3>1. j \in 0 .. j /\ n - 1 \in 0 .. n - 1 /\ tree.min \in 0 .. n - 1
      BY <1>1, <1>2, <1>8, Bounds
    <3>2. \A z \in Held(d) : tree.min < z
      <4>1. \A z \in Held(d) : z \in S /\ z # tree.min
        BY <1>1
      <4>2. \A z \in S : z \in Nat /\ tree.min <= z /\ tree.min \in Nat
        BY <1>2, <1>8
      <4> QED
        BY <4>1, <4>2
    <3>3. /\ d \in Clusters(j) /\ NCluster(n - 1) = j /\ e \in Clusters(NCluster(b.last)) /\ NamesTo(tree.sum, d, NCluster(n - 1))
          /\ ~TypeWraps(NCluster(n - 1)) /\ n - 1 \in 0 .. b.last /\ NCluster(n - 1) \in 0 .. j /\ tree.min \in 0 .. b.last
      BY <1>1, <2>5, <2>6, <3>1 DEF j
    <3>4. Stands(Made(b, tree.min, CutMax(tree.min, tree.sum, d, n - 1),
                      FDeleteAllAfterW(CutSum(tree.sum, d, n - 1), NCluster(n - 1)), e), b, UpTo(Held(d), n - 1) \cup {tree.min})
      BY <1>1, <2>5, <2>6, <3>2, <3>3, CutStands
    <3> QED
      BY <3>3, <3>4 DEF mx, s2
  <2>8. UpTo(Held(d), n - 1) \cup {tree.min} = T
    <3>1. \A z \in S : z <= n - 1 <=> z < n
      BY <1>2
    <3>2. \A z \in S \ {tree.min} : z < n => z \in Held(d)
      BY <1>1
    <3>3. \A z \in Held(d) : z \in S
      BY <1>1
    <3> QED
      BY <1>2, <1>8, <3>1, <3>2, <3>3 DEF UpTo
  <2> HIDE DEF T
  <2> QED
    BY <2>4, <2>5, <2>7, <2>8 DEF Stands, Wrapping, T
<1>9. CASE S # {} /\ ~(tree.max < n) /\ ~(tree.min < n)
  <2>1. trimmed = ClearTree(cut)
    BY <1>2, <1>4, <1>9
  <2>2. HasOne(cut) /\ HasAny(cut) /\ S = {tree.min}
    BY <1>2, <1>4, <1>9
  <2>3. ClearTree(cut) = SetEmptyMinMax(cut)
    BY <2>2, Zenon DEF ClearTree
  <2>4. Shrunk(n, m) = Wrapping(n, LastOfAll, 0, s, d)
    <3>1. SUFFICES ASSUME NEW u, u = Shrunk(n, m) PROVE u = Wrapping(n, LastOfAll, 0, s, d)
      OBVIOUS
    <3>2. u = [SetEmptyMinMax(cut) EXCEPT !.sum = FDeleteAllAfterW(@, j)]
      BY <1>1, <1>3, <2>1, <2>3, <3>1
    <3> QED
      BY <1>1, <3>2 DEF Wrapping, SetEmptyMinMax, s
  <2>5. T = {} /\ Held(d) = {}
    BY <1>1, <1>9, <2>2
  <2> HIDE DEF T
  <2>6. Rep(Wrapping(n, LastOfAll, 0, s, d), {})
    <3>1. {} \subseteq 0 .. n - 1 /\ Held(d) = {} \ {LastOfAll}
      BY <2>5
    <3> QED
      BY <1>6, <3>1, WrapRep
  <2> QED
    BY <2>4, <2>5, <2>6 DEF Wrapping, T
<1> QED
  BY <1>7, <1>8, <1>9

-----------------------------------------------------------------------------
\* What is left of a tree that is moved from.
Moved(t) ==
    /\ t.kind = "wrap" /\ t.last \in Places /\ DOMAIN t.cl = {} /\ t.sum = ZeroWords
    /\ t.min = LastOfAll /\ t.max = 0

\* The invariant: the tree represents the set of its elements, or was moved from.
TreeInv == IF InUse THEN Rep(tree, Members(tree)) ELSE Moved(tree)

\* The assertions of the class hold of a tree that represents a set.
LEMMA RepValid ==
    ASSUME NEW t, NEW S, Rep(t, S)
    PROVE  AssertValid(t)
<1> DEFINE n == NCluster(t.last)
<1>1. /\ IsTree(t) /\ S \subseteq 0 .. t.last /\ Held(t.cl) = S \ {t.min} /\ t.last \in Nat
      /\ n \in Els /\ DOMAIN t.cl = 0 .. n /\ t.cl \in Clusters(n) /\ Names(t.sum, t.cl)
  BY TreeIs, Bounds DEF Rep
<1>2. /\ (HasAny(t) <=> S # {}) /\ (HasOne(t) <=> S = {t.min})
      /\ S = {} => t.min = t.none /\ t.max = 0
      /\ S # {} => t.min \in S /\ t.max \in S
  BY RepIs
<1>3. NonEmpty(t.cl) = Numbers(t.sum)
  <2>1. Numbers(t.sum) = {k \in Els : FHasElementW(t.sum, k)}
    BY HasIsNumber
  <2>2. 0 .. n \subseteq Els
    BY <1>1, ClusterNos
  <2> HIDE DEF n
  <2> QED
    BY <1>1, <2>1, <2>2 DEF Names, NonEmpty
<1>4. ~HasAny(t) \/ HasOne(t) => Numbers(t.sum) = {}
  <2>1. SUFFICES ASSUME Held(t.cl) = {} PROVE NonEmpty(t.cl) = {}
    BY <1>1, <1>2, <1>3
  <2>2. \A k \in 0 .. n : ~FHasAnyElements(t.cl[k])
    BY <1>1, <2>1, HeldAnyAt
  <2> QED
    BY <1>1, <2>2 DEF NonEmpty
<1>5. ASSUME HasAny(t), ~HasOne(t)
      PROVE  /\ ~FHasElementW(t.cl[NCluster(t.min)], NElInCluster(t.min))
             /\ t.max = MaxOfClusters(t) /\ t.max <= t.last
  <2>1. t.min \in 0 .. t.last /\ t.max \in 0 .. t.last
    BY <1>1, <1>2, <1>5
  <2>2. S \ {t.min} # {}
    BY <1>2, <1>5
  <2> QED
    BY <1>1, <2>1, <2>2, RepHas, RepClusters
<1> QED
  BY <1>2, <1>3, <1>4, <1>5 DEF AssertValid

LEMMA InUseIs ==
    ASSUME TreeInv, InUse
    PROVE  /\ Rep(tree, Members(tree)) /\ IsTree(tree) /\ Members(tree) \subseteq 0 .. tree.last
           /\ Numbered = 0 .. tree.last /\ Size = tree.last + 1 /\ tree.last \in Nat
<1>1. Rep(tree, Members(tree))
  BY DEF TreeInv
<1>2. IsTree(tree) /\ Members(tree) \subseteq 0 .. tree.last
  BY <1>1 DEF Rep
<1>3. tree.last \in Nat
  BY <1>2, TreeIs, Bounds
<1> QED
  BY <1>1, <1>2, <1>3 DEF InUse, Numbered, Size

\* The invariant says what the runs check of a tree.
LEMMA TreeInvSound == TreeInv => TreeIsSound
<1> SUFFICES ASSUME TreeInv PROVE TreeIsSound
  OBVIOUS
<1>1. CASE InUse
  <2> DEFINE S == Members(tree)
  <2>1. /\ Rep(tree, S) /\ IsTree(tree) /\ S \subseteq 0 .. tree.last
        /\ Numbered = 0 .. tree.last /\ tree.last \in Nat
    BY <1>1, InUseIs
  <2>2. TreeTypeOK
    <3>1. /\ tree.last \in Places /\ NCluster(tree.last) \in Els /\ tree.sum \in Words
          /\ DOMAIN tree.cl = 0 .. NCluster(tree.last) /\ tree.cl \in Clusters(NCluster(tree.last))
      BY <2>1, TreeIs
    <3>2. \A k \in DOMAIN tree.cl : tree.cl[k] \in Words
      BY <3>1 DEF Clusters
    <3>3. tree.kind \in {"wrap", "fixed"} /\ tree.none \in 0 .. LastOfAll + 1
      BY <2>1, Bounds DEF IsTree
    <3>4. tree.min \in 0 .. LastOfAll + 1 /\ tree.max \in 0 .. LastOfAll
      <4>1. CASE S = {}
        BY <2>1, <3>3, <4>1, RepIs, Bounds
      <4>2. CASE S # {}
        <5>1. tree.min \in Places /\ tree.max \in Places
          BY <2>1, <4>2, RepIs
        <5> QED
          BY <5>1, Bounds DEF Places
      <4> QED
        BY <4>1, <4>2
    <3> QED
      BY <3>1, <3>2, <3>3, <3>4 DEF TreeTypeOK, Places
  <2>3. Canonical
    BY <2>1, RepValid DEF Canonical
  <2>4. SearchesAgree
    <3>1. SUFFICES ASSUME NEW x \in Numbered
                   PROVE  LET T == {y \in S : y > x}
                              R == {y \in S : y < x}
                          IN  /\ NSuccessor(tree, x) = IF T = {} THEN None ELSE Min(T)
                              /\ NPredecessor(tree, x) = IF R = {} THEN None ELSE Max(R)
      BY DEF SearchesAgree
    <3>2. x \in 0 .. tree.last /\ x \in Nat /\ x \in -1 .. tree.last /\ x \in 0 .. tree.last + 1
          /\ S \subseteq Nat
      BY <2>1, <3>1
    <3> HIDE DEF S
    <3>3. NSuccessor(tree, x) = IF {y \in S : y > x} = {} THEN None ELSE Min({y \in S : y > x})
      <4>1. CASE NSuccessor(tree, x) = None /\ \A z \in S : z <= x
        <5>1. \A y \in S : ~(y > x)
          BY <3>2, <4>1
        <5> QED
          BY <4>1, <5>1
      <4>2. CASE IsNext(S, x, NSuccessor(tree, x))
        BY <3>2, <4>2, NextIs
      <4> QED
        BY <2>1, <3>2, <4>1, <4>2, SuccessorFinds
    <3>4. NPredecessor(tree, x) = IF {y \in S : y < x} = {} THEN None ELSE Max({y \in S : y < x})
      <4>1. CASE NPredecessor(tree, x) = None /\ \A z \in S : x <= z
        <5>1. \A y \in S : ~(y < x)
          BY <3>2, <4>1
        <5> QED
          BY <4>1, <5>1
      <4>2. CASE IsPrev(S, x, NPredecessor(tree, x))
        BY <2>1, <3>2, <4>2, PrevIs
      <4> QED
        BY <2>1, <3>2, <4>1, <4>2, PredecessorFinds
    <3> QED
      BY <3>3, <3>4 DEF S
  <2> QED
    BY <2>2, <2>3, <2>4 DEF TreeIsSound
<1>2. CASE ~InUse
  <2>1. Moved(tree)
    BY <1>2 DEF TreeInv
  <2>2. TreeTypeOK
    BY <1>2, <2>1, ZeroWordsIs, Bounds DEF TreeTypeOK, Moved, Places, InUse
  <2>3. Canonical /\ SearchesAgree
    BY <1>2 DEF Canonical, SearchesAgree, Numbered
  <2> QED
    BY <2>2, <2>3 DEF TreeIsSound
<1> QED
  BY <1>1, <1>2

LEMMA Stays ==
    ASSUME TreeInv, InUse, NEW t, NEW T, Stands(t, tree, T), NEW o, NEW r, Becomes(t, o, r)
    PROVE  TreeInv' /\ Members(tree)' = T /\ Size' = Size /\ op' = o /\ ret' = r
<1>1. tree' = t /\ op' = o /\ ret' = r
  BY DEF Becomes
<1>2. Rep(t, T) /\ t.last = tree.last
  BY DEF Stands
<1>3. Members(t) = T /\ DOMAIN t.cl # {}
  BY <1>2, RepMembers
<1>4. InUse' /\ Size' = t.last + 1 /\ Size = tree.last + 1 /\ Members(tree)' = T /\ Rep(tree, Members(tree))'
  BY <1>1, <1>2, <1>3, SMTT(60) DEF InUse, Size
<1> QED
  BY <1>1, <1>2, <1>4 DEF TreeInv

\* The steps of a set, by the name of the operation.
LEMMA SetSteps ==
    /\ op'[1] = "Insert" => (Set!Next <=> Set!Insert(op'[2]))
    /\ op'[1] = "CheckInsert" => (Set!Next <=> Set!CheckInsert(op'[2]))
    /\ op'[1] = "Delete" => (Set!Next <=> Set!Delete(op'[2]))
    /\ op'[1] = "CheckDelete" => (Set!Next <=> Set!CheckDelete(op'[2]))
    /\ op'[1] = "TakeAfter" => (Set!Next <=> Set!TakeAfter(op'[2]))
    /\ op'[1] = "TakeBefore" => (Set!Next <=> Set!TakeBefore(op'[2]))
    /\ op'[1] = "Truncate" => (Set!Next <=> Set!Truncate(op'[2]))
    /\ op'[1] = "Resize" => (Set!Next <=> Set!Resize(op'[2]))
    /\ op'[1] = "Fill" => (Set!Next <=> Set!Becomes(Set!All, None))
    /\ op'[1] = "Clear" => (Set!Next <=> Set!Becomes({}, None))
    /\ op'[1] = "Invert" => (Set!Next <=> Set!Becomes(Set!All \ Members(tree), None))
    /\ op'[1] = "Or" => (Set!Next <=> Set!Becomes(Members(tree) \cup op'[2], None))
    /\ op'[1] = "And" => (Set!Next <=> Set!Becomes(Members(tree) \cap op'[2], None))
    /\ op'[1] = "Xor" =>
          (Set!Next <=> Set!Becomes((Members(tree) \ op'[2]) \cup (op'[2] \ Members(tree)), None))
  BY DEF Set!Next

LEMMA InsertXStep ==
    ASSUME TreeInv, NEW x \in Numbered, InsertX(x)
    PROVE  TreeInv' /\ Set!Next
<1> DEFINE S == Members(tree)
           t == Insert(tree, x)
<1>1. InUse
  BY DEF Numbered
<1>2. /\ Rep(tree, S) /\ IsTree(tree) /\ S \subseteq 0 .. tree.last
      /\ Numbered = 0 .. tree.last /\ Size = tree.last + 1 /\ tree.last \in Nat
  BY <1>1, InUseIs
<1>3. x \notin S /\ x \in 0 .. tree.last /\ Becomes(t, <<"Insert", x>>, None)
  BY <1>2 DEF InsertX
<1>4. Stands(t, tree, S \cup {x})
  BY <1>2, <1>3, InsertStands
<1> HIDE DEF t
<1>5. TreeInv' /\ Members(tree)' = S \cup {x} /\ Size' = Size /\ op' = <<"Insert", x>> /\ ret' = None
  BY <1>1, <1>3, <1>4, Stays
<1>6. op'[1] = "Insert" /\ op'[2] = x /\ x \in 0 .. Size - 1
  BY <1>2, <1>3, <1>5
<1>7. Set!Insert(x)
  BY <1>3, <1>5, <1>6 DEF Set!Insert, Set!All, Set!Becomes
<1> QED
  BY <1>5, <1>6, <1>7, SetSteps

LEMMA FCheckInsertStep ==
    ASSUME TreeInv, NEW x \in Numbered, FCheckInsert(x)
    PROVE  TreeInv' /\ Set!Next
<1> DEFINE S == Members(tree)
           t == IF ~FHasElement(tree, x) THEN Insert(tree, x) ELSE tree
<1>1. InUse
  BY DEF Numbered
<1>2. /\ Rep(tree, S) /\ IsTree(tree) /\ S \subseteq 0 .. tree.last
      /\ Numbered = 0 .. tree.last /\ Size = tree.last + 1 /\ tree.last \in Nat
  BY <1>1, InUseIs
<1>3. x \in 0 .. tree.last /\ Becomes(t, <<"CheckInsert", x>>, ~FHasElement(tree, x))
  BY <1>2 DEF FCheckInsert
<1>4. FHasElement(tree, x) <=> x \in S
  BY <1>2, <1>3, RepHas
<1>5. Stands(t, tree, S \cup {x})
  <2>1. CASE x \in S
    <3>1. t = tree /\ S \cup {x} = S
      BY <1>4, <2>1
    <3> QED
      BY <1>2, <3>1, ItStands
  <2>2. CASE x \notin S
    <3>1. t = Insert(tree, x)
      BY <1>4, <2>2
    <3> QED
      BY <1>2, <1>3, <2>2, <3>1, InsertStands
  <2> QED
    BY <2>1, <2>2
<1> HIDE DEF t
<1>6. /\ TreeInv' /\ Members(tree)' = S \cup {x} /\ Size' = Size /\ op' = <<"CheckInsert", x>>
      /\ ret' = ~FHasElement(tree, x)
  BY <1>1, <1>3, <1>5, Stays
<1>7. op'[1] = "CheckInsert" /\ op'[2] = x /\ x \in 0 .. Size - 1
  BY <1>2, <1>3, <1>6
<1>8. ret' = (x \notin S)
  BY <1>4, <1>6
<1>9. Set!CheckInsert(x)
  BY <1>6, <1>7, <1>8 DEF Set!CheckInsert, Set!All, Set!Becomes
<1> QED
  BY <1>6, <1>7, <1>9, SetSteps

LEMMA DeleteXStep ==
    ASSUME TreeInv, NEW x \in Numbered, DeleteX(x)
    PROVE  TreeInv' /\ Set!Next
<1> DEFINE S == Members(tree)
           t == Delete(tree, x)
<1>1. InUse
  BY DEF Numbered
<1>2. /\ Rep(tree, S) /\ IsTree(tree) /\ S \subseteq 0 .. tree.last
      /\ Numbered = 0 .. tree.last /\ Size = tree.last + 1 /\ tree.last \in Nat
  BY <1>1, InUseIs
<1>3. x \in S /\ Becomes(t, <<"Delete", x>>, None)
  BY DEF DeleteX
<1>4. Stands(t, tree, S \ {x})
  BY <1>2, <1>3, DeleteStands
<1> HIDE DEF t
<1>5. TreeInv' /\ Members(tree)' = S \ {x} /\ Size' = Size /\ op' = <<"Delete", x>> /\ ret' = None
  BY <1>1, <1>3, <1>4, Stays
<1>6. op'[1] = "Delete" /\ op'[2] = x
  BY <1>5
<1>7. Set!Delete(x)
  BY <1>3, <1>5 DEF Set!Delete, Set!Becomes
<1> QED
  BY <1>5, <1>6, <1>7, SetSteps

LEMMA FCheckDeleteStep ==
    ASSUME TreeInv, WithinLimits, NEW x \in Numbered, FCheckDelete(x)
    PROVE  TreeInv' /\ Set!Next
<1> DEFINE S == Members(tree)
           t == IF FHasElement(tree, x) THEN Delete(tree, x) ELSE tree
<1>1. InUse
  BY DEF Numbered
<1>2. /\ Rep(tree, S) /\ IsTree(tree) /\ S \subseteq 0 .. tree.last
      /\ Numbered = 0 .. tree.last /\ Size = tree.last + 1 /\ tree.last \in Nat
  BY <1>1, InUseIs
<1>3. x \in 0 .. tree.last /\ Becomes(t, <<"CheckDelete", x>>, FHasElement(tree, x))
  BY <1>2, Zenon DEF FCheckDelete
<1>4. FHasElement(tree, x) = (x \in S)
  <2>1. FHasElement(tree, x) <=> x \in S
    BY <1>2, <1>3, RepHas
  <2>2. FHasElement(tree, x) \in BOOLEAN
    BY Zenon DEF FHasElement
  <2> QED
    BY <2>1, <2>2
<1>5. Stands(t, tree, S \ {x})
  <2>1. CASE x \in S
    <3>1. t = Delete(tree, x)
      BY <1>4, <2>1
    <3> QED
      BY <1>2, <2>1, <3>1, DeleteStands
  <2>2. CASE x \notin S
    <3>1. t = tree /\ S \ {x} = S
      BY <1>4, <2>2
    <3> QED
      BY <1>2, <3>1, ItStands
  <2> QED
    BY <2>1, <2>2
<1> HIDE DEF t
<1>6. /\ TreeInv' /\ Members(tree)' = S \ {x} /\ Size' = Size /\ op' = <<"CheckDelete", x>>
      /\ ret' = FHasElement(tree, x)
  BY <1>1, <1>3, <1>5, Stays
<1>7. op'[1] = "CheckDelete" /\ op'[2] = x /\ x \in 0 .. Size - 1 /\ ret' = (x \in S)
  BY <1>2, <1>3, <1>4, <1>6
<1>8. Set!CheckDelete(x)
  BY <1>6, <1>7 DEF Set!CheckDelete, Set!All, Set!Becomes
<1> QED
  BY <1>6, <1>7, <1>8, SetSteps

LEMMA NSuccessorDeleteStep ==
    ASSUME TreeInv, NEW x, NSuccessorDelete(x)
    PROVE  TreeInv' /\ Set!Next
<1> DEFINE S == Members(tree)
           t == SuccessorDelete(tree, x)
<1>1. InUse
  BY DEF NSuccessorDelete
<1>2. /\ Rep(tree, S) /\ IsTree(tree) /\ S \subseteq 0 .. tree.last
      /\ Numbered = 0 .. tree.last /\ Size = tree.last + 1 /\ tree.last \in Nat
  BY <1>1, InUseIs
<1> DEFINE y == NSuccessor(tree, x)
           A == {z \in S : z > x}
<1>3. x \in -1 .. tree.last /\ x \in Int /\ Becomes(t, <<"TakeAfter", x>>, y) /\ S \subseteq Nat
  BY <1>2 DEF NSuccessorDelete
<1>4. Stands(t, tree, S \ {y})
  BY <1>2, <1>3, SuccessorDeleteStands
<1>5. y = IF A = {} THEN None ELSE Min(A)
  <2>1. CASE y = None /\ \A z \in S : z <= x
    <3>1. \A z \in S : ~(z > x)
      BY <1>3, <2>1
    <3> QED
      BY <2>1, <3>1
  <2>2. CASE IsNext(S, x, y)
    BY <1>3, <2>2, NextIs
  <2> QED
    BY <1>2, <1>3, <2>1, <2>2, SuccessorFinds
<1> HIDE DEF t, y
<1>6. TreeInv' /\ Members(tree)' = S \ {y} /\ Size' = Size /\ op' = <<"TakeAfter", x>> /\ ret' = y
  BY <1>1, <1>3, <1>4, Stays
<1>7. op'[1] = "TakeAfter" /\ op'[2] = x
  BY <1>6
<1>8. Set!TakeAfter(x)
  BY <1>5, <1>6 DEF Set!TakeAfter, Set!Becomes, Set!Least, Set!Min, Min
<1> QED
  BY <1>6, <1>7, <1>8, SetSteps

LEMMA NPredecessorDeleteStep ==
    ASSUME TreeInv, NEW x, NPredecessorDelete(x)
    PROVE  TreeInv' /\ Set!Next
<1> DEFINE S == Members(tree)
           t == PredecessorDelete(tree, x)
<1>1. InUse
  BY DEF NPredecessorDelete
<1>2. /\ Rep(tree, S) /\ IsTree(tree) /\ S \subseteq 0 .. tree.last
      /\ Numbered = 0 .. tree.last /\ Size = tree.last + 1 /\ tree.last \in Nat
  BY <1>1, InUseIs
<1> DEFINE y == NPredecessor(tree, x)
           A == {z \in S : z < x}
<1>3. x \in 0 .. tree.last + 1 /\ x \in Int /\ Becomes(t, <<"TakeBefore", x>>, y) /\ S \subseteq Nat
  BY <1>2 DEF NPredecessorDelete
<1>4. Stands(t, tree, S \ {y})
  BY <1>2, <1>3, PredecessorDeleteStands
<1>5. y = IF A = {} THEN None ELSE Max(A)
  <2>1. CASE y = None /\ \A z \in S : x <= z
    <3>1. \A z \in S : ~(z < x)
      BY <1>3, <2>1
    <3> QED
      BY <2>1, <3>1
  <2>2. CASE IsPrev(S, x, y)
    BY <1>2, <1>3, <2>2, PrevIs
  <2> QED
    BY <1>2, <1>3, <2>1, <2>2, PredecessorFinds
<1> HIDE DEF t, y
<1>6. TreeInv' /\ Members(tree)' = S \ {y} /\ Size' = Size /\ op' = <<"TakeBefore", x>> /\ ret' = y
  BY <1>1, <1>3, <1>4, Stays
<1>7. op'[1] = "TakeBefore" /\ op'[2] = x
  BY <1>6
<1>8. Set!TakeBefore(x)
  BY <1>5, <1>6 DEF Set!TakeBefore, Set!Becomes, Set!Greatest, Set!Max, Max
<1> QED
  BY <1>6, <1>7, <1>8, SetSteps

LEMMA FDeleteAllAfterStep ==
    ASSUME TreeInv, WithinLimits, NEW x \in Numbered, FDeleteAllAfter(x)
    PROVE  TreeInv' /\ Set!Next
<1> DEFINE S == Members(tree)
           t == DeleteAllAfter(tree, x)
<1>1. InUse
  BY DEF Numbered
<1>2. /\ Rep(tree, S) /\ IsTree(tree) /\ S \subseteq 0 .. tree.last
      /\ Numbered = 0 .. tree.last /\ Size = tree.last + 1 /\ tree.last \in Nat
  BY <1>1, InUseIs
<1>3. /\ x \in 0 .. tree.last /\ ~TypeWraps(NCluster(x))
      /\ Becomes(t, <<"Truncate", x>>, ~HasAny(tree) \/ x < tree.min)
  BY <1>2 DEF FDeleteAllAfter
<1>4. Stands(t, tree, UpTo(S, x))
  BY <1>2, <1>3, DeleteAllAfterStands
<1> HIDE DEF t
<1>5. /\ TreeInv' /\ Members(tree)' = UpTo(S, x) /\ Size' = Size /\ op' = <<"Truncate", x>>
      /\ ret' = (~HasAny(tree) \/ x < tree.min)
  BY <1>1, <1>3, <1>4, Stays
<1>6. op'[1] = "Truncate" /\ op'[2] = x
  BY <1>5
<1>7. ~HasAny(tree) \/ x < tree.min <=> UpTo(S, x) = {}
  <2>1. CASE S = {}
    BY <1>2, <2>1, RepIs DEF UpTo
  <2>2. CASE S # {}
    <3>1. HasAny(tree) /\ tree.min \in S /\ tree.min \in Nat /\ \A z \in S : z \in Nat /\ tree.min <= z
      BY <1>2, <2>2, RepIs
    <3>2. x \in Nat
      BY <1>3
    <3>3. CASE x < tree.min
      BY <3>1, <3>2, <3>3 DEF UpTo
    <3>4. CASE ~(x < tree.min)
      <4>1. tree.min \in UpTo(S, x)
        BY <3>1, <3>2, <3>4 DEF UpTo
      <4> QED
        BY <3>1, <3>4, <4>1
    <3> QED
      BY <3>3, <3>4
  <2> QED
    BY <2>1, <2>2
<1>8. Set!Truncate(x)
  BY <1>5, <1>7 DEF Set!Truncate, Set!Becomes, UpTo
<1> QED
  BY <1>5, <1>6, <1>8, SetSteps

LEMMA InsertEveryStep ==
    ASSUME TreeInv, InsertEvery
    PROVE  TreeInv' /\ Set!Next
<1> DEFINE S == Members(tree)
           t == InsertAll(tree, 0, tree.last)
<1>1. InUse
  BY DEF InsertEvery
<1>2. /\ Rep(tree, S) /\ IsTree(tree) /\ S \subseteq 0 .. tree.last
      /\ Numbered = 0 .. tree.last /\ Size = tree.last + 1 /\ tree.last \in Nat
  BY <1>1, InUseIs
<1>3. Becomes(t, <<"Fill">>, None)
  BY DEF InsertEvery
<1>4. Stands(t, tree, 0 .. tree.last)
  BY <1>2, FillStands
<1> HIDE DEF t
<1>5. TreeInv' /\ Members(tree)' = 0 .. tree.last /\ Size' = Size /\ op' = <<"Fill">> /\ ret' = None
  BY <1>1, <1>3, <1>4, Stays
<1>6. op'[1] = "Fill" /\ 0 .. Size - 1 = 0 .. tree.last
  BY <1>2, <1>5
<1>7. Set!Becomes(Set!All, None)
  BY <1>2, <1>5, <1>6 DEF Set!Becomes, Set!All
<1> QED
  BY <1>5, <1>6, <1>7, SetSteps

LEMMA ClearAllStep ==
    ASSUME TreeInv, ClearAll
    PROVE  TreeInv' /\ Set!Next
<1> DEFINE S == Members(tree)
           t == ClearTree(tree)
<1>1. InUse
  BY DEF ClearAll
<1>2. /\ Rep(tree, S) /\ IsTree(tree) /\ S \subseteq 0 .. tree.last
      /\ Numbered = 0 .. tree.last /\ Size = tree.last + 1 /\ tree.last \in Nat
  BY <1>1, InUseIs
<1>3. Becomes(t, <<"Clear">>, None)
  BY DEF ClearAll
<1>4. Stands(t, tree, {})
  BY <1>2, ClearStands
<1> HIDE DEF t
<1>5. TreeInv' /\ Members(tree)' = {} /\ Size' = Size /\ op' = <<"Clear">> /\ ret' = None
  BY <1>1, <1>3, <1>4, Stays
<1>6. op'[1] = "Clear" /\ 0 .. Size - 1 = 0 .. tree.last
  BY <1>2, <1>5
<1>7. Set!Becomes({}, None)
  BY <1>2, <1>5, <1>6 DEF Set!Becomes, Set!All
<1> QED
  BY <1>5, <1>6, <1>7, SetSteps

LEMMA InvertStep ==
    ASSUME TreeInv, Invert
    PROVE  TreeInv' /\ Set!Next
<1> DEFINE S == Members(tree)
           t == BitwiseInvert(tree)
<1>1. InUse
  BY DEF Invert
<1>2. /\ Rep(tree, S) /\ IsTree(tree) /\ S \subseteq 0 .. tree.last
      /\ Numbered = 0 .. tree.last /\ Size = tree.last + 1 /\ tree.last \in Nat
  BY <1>1, InUseIs
<1>3. Becomes(t, <<"Invert">>, None)
  BY DEF Invert
<1>4. Stands(t, tree, (0 .. tree.last) \ S)
  BY <1>2, InvertStands
<1> HIDE DEF t
<1>5. TreeInv' /\ Members(tree)' = (0 .. tree.last) \ S /\ Size' = Size /\ op' = <<"Invert">> /\ ret' = None
  BY <1>1, <1>3, <1>4, Stays
<1>6. op'[1] = "Invert" /\ 0 .. Size - 1 = 0 .. tree.last
  BY <1>2, <1>5
<1>7. Set!Becomes(Set!All \ S, None)
  BY <1>2, <1>5, <1>6 DEF Set!Becomes, Set!All
<1> QED
  BY <1>5, <1>6, <1>7, SetSteps

\* A set that has not exactly one element has another beside each.
Another(S) == \A x \in S : \E y \in S : y # x

LEMMA NotAlone ==
    ASSUME NEW S, Cardinality(S) # 1
    PROVE  Another(S)
<1>1. SUFFICES ASSUME NEW x \in S, ~(\E y \in S : y # x)
               PROVE  FALSE
  BY DEF Another
<1>2. S = {x}
  BY <1>1
<1> QED
  BY <1>2, FS_Singleton

LEMMA SeveralAre ==
    ASSUME NEW n \in Nat, NEW S, S \subseteq 0 .. n, NEW x \in S, S # {x}
    PROVE  Cardinality(S) > 1
<1>1. IsFiniteSet(0 .. n)
  BY FS_Interval
<1>2. IsFiniteSet(S) /\ Cardinality(S) \in Nat
  BY <1>1, FS_Subset, FS_CardinalityType
<1>3. PICK y \in S : y # x
  OBVIOUS
<1>4. Cardinality({x}) = 1 /\ IsFiniteSet({x})
  BY FS_Singleton
<1>5. Cardinality({x} \cup {y}) = 2
  <2>1. y \notin {x}
    BY <1>3
  <2>2. Cardinality({x} \cup {y}) = IF y \in {x} THEN Cardinality({x}) ELSE Cardinality({x}) + 1
    BY <1>4, FS_AddElement
  <2> QED
    BY <1>4, <2>1, <2>2
<1>6. Cardinality({x} \cup {y}) <= Cardinality(S)
  <2>1. {x} \cup {y} \subseteq S
    BY <1>3
  <2> QED
    BY <1>2, <2>1, FS_Subset
<1> QED
  BY <1>2, <1>5, <1>6

\* An operand is a tree of the same shape, which holds the operand's set.
LEMMA OperandIs ==
    ASSUME TreeInv, InUse, NEW T \in Operands
    PROVE  /\ T \subseteq 0 .. tree.last /\ Stands(Holding(tree, T), tree, T)
           /\ T # {} => Holding(tree, T).min = Min(T)
<1>1. IsTree(tree) /\ Numbered = 0 .. tree.last /\ tree.last \in Nat
  BY InUseIs
<1>2. T \subseteq 0 .. tree.last
  BY <1>1 DEF Operands, kSubset
<1>3. Stands(Holding(tree, T), tree, T)
  BY <1>1, <1>2, HoldingStands
<1>4. ASSUME T # {} PROVE Holding(tree, T).min = Min(T)
  <2> DEFINE r == Holding(tree, T)
  <2>1. Rep(r, T)
    BY <1>3 DEF Stands
  <2> HIDE DEF r
  <2>2. r.min \in T /\ T \subseteq Nat /\ \A x \in T : r.min <= x
    BY <1>4, <2>1, RepIs
  <2> QED
    BY <2>2, IsMin DEF r
<1> QED
  BY <1>2, <1>3, <1>4

LEMMA OrStep ==
    ASSUME TreeInv, WithinLimits, NEW T \in Operands, Or(T)
    PROVE  TreeInv' /\ Set!Next
<1> DEFINE S == Members(tree)
           t == OrTree(tree, Holding(tree, T))
<1>1. InUse
  BY DEF Or
<1>2. /\ Rep(tree, S) /\ IsTree(tree) /\ S \subseteq 0 .. tree.last
      /\ Numbered = 0 .. tree.last /\ Size = tree.last + 1 /\ tree.last \in Nat
  BY <1>1, InUseIs
<1> DEFINE r == Holding(tree, T)
<1>3. Becomes(t, <<"Or", T>>, None)
  BY DEF Or
<1>4. T \subseteq 0 .. tree.last /\ Stands(r, tree, T) /\ (T # {} => r.min = Min(T)) /\ Rep(r, T)
  BY <1>1, OperandIs DEF Stands
<1>5. Stands(t, tree, S \cup T)
  BY <1>2, <1>4, OrStands
<1> HIDE DEF t
<1>6. TreeInv' /\ Members(tree)' = S \cup T /\ Size' = Size /\ op' = <<"Or", T>> /\ ret' = None
  BY <1>1, <1>3, <1>5, Stays
<1>7. op'[1] = "Or" /\ op'[2] = T
  BY <1>6
<1>8. Set!Becomes(S \cup T, None)
  BY <1>6 DEF Set!Becomes
<1> QED
  BY <1>6, <1>7, <1>8, SetSteps

LEMMA AndStep ==
    ASSUME TreeInv, WithinLimits, NEW T \in Operands, And(T)
    PROVE  TreeInv' /\ Set!Next
<1> DEFINE S == Members(tree)
           t == AndTree(tree, Holding(tree, T))
<1>1. InUse
  BY DEF And
<1>2. /\ Rep(tree, S) /\ IsTree(tree) /\ S \subseteq 0 .. tree.last
      /\ Numbered = 0 .. tree.last /\ Size = tree.last + 1 /\ tree.last \in Nat
  BY <1>1, InUseIs
<1> DEFINE r == Holding(tree, T)
<1>3. Becomes(t, <<"And", T>>, None) /\ AndIsRight(T)
  BY DEF And
<1>4. T \subseteq 0 .. tree.last /\ Stands(r, tree, T) /\ (T # {} => r.min = Min(T)) /\ Rep(r, T)
  BY <1>1, OperandIs DEF Stands
<1>5. Stands(t, tree, S \cap T)
  <2>1. ASSUME S # {}, S # {tree.min}, T # {}, T # {r.min}
        PROVE  /\ tree.min \notin T /\ r.min \notin S
               /\ tree.max \in T \/ \A x \in S \cap T : \E y \in S \cap T : y # x
    <3>1. HasAny(tree) /\ ~HasOne(tree) /\ tree.min \in S /\ tree.max \in S /\ r.min \in T /\ r.min = Min(T)
      BY <1>2, <1>4, <2>1, RepIs
    <3>2. Cardinality(T) > 1
      BY <1>2, <1>4, <2>1, <3>1, SeveralAre
    <3>3. /\ tree.min \notin S \cap T /\ Min(T) \notin S \cap T
          /\ tree.max \in S \cap T \/ Cardinality(S \cap T) # 1
      BY <1>3, <3>1, <3>2 DEF AndIsRight
    <3>4. Cardinality(S \cap T) # 1 => Another(S \cap T)
      BY NotAlone
    <3> QED
      BY <3>1, <3>3, <3>4 DEF Another
  <2> HIDE DEF S, r
  <2> QED
    BY <1>2, <1>4, <2>1, AndStands DEF r
<1> HIDE DEF t
<1>6. TreeInv' /\ Members(tree)' = S \cap T /\ Size' = Size /\ op' = <<"And", T>> /\ ret' = None
  BY <1>1, <1>3, <1>5, Stays
<1>7. op'[1] = "And" /\ op'[2] = T
  BY <1>6
<1>8. Set!Becomes(S \cap T, None)
  BY <1>6 DEF Set!Becomes
<1> QED
  BY <1>6, <1>7, <1>8, SetSteps

LEMMA XorStep ==
    ASSUME TreeInv, WithinLimits, NEW T \in Operands, Xor(T)
    PROVE  TreeInv' /\ Set!Next
<1> DEFINE S == Members(tree)
           t == XorTree(tree, Holding(tree, T))
<1>1. InUse
  BY DEF Xor
<1>2. /\ Rep(tree, S) /\ IsTree(tree) /\ S \subseteq 0 .. tree.last
      /\ Numbered = 0 .. tree.last /\ Size = tree.last + 1 /\ tree.last \in Nat
  BY <1>1, InUseIs
<1> DEFINE r == Holding(tree, T)
<1>3. Becomes(t, <<"Xor", T>>, None) /\ XorIsRight(T)
  BY DEF Xor
<1>4. T \subseteq 0 .. tree.last /\ Stands(r, tree, T) /\ (T # {} => r.min = Min(T)) /\ Rep(r, T)
  BY <1>1, OperandIs DEF Stands
<1>5. Stands(t, tree, (S \ T) \cup (T \ S))
  <2>1. ASSUME S # {}, T # {}, T # {r.min}
        PROVE  S \cap T = {} /\ NonEmpty(tree.cl) \subseteq NonEmpty(r.cl)
    <3>1. HasAny(tree) /\ r.min \in T
      BY <1>2, <1>4, <2>1, RepIs
    <3>2. Cardinality(T) > 1
      BY <1>2, <1>4, <2>1, <3>1, SeveralAre
    <3> QED
      BY <1>3, <3>1, <3>2 DEF XorIsRight
  <2> HIDE DEF S, r
  <2> QED
    BY <1>2, <1>4, <2>1, XorStands DEF r
<1> HIDE DEF t
<1>6. TreeInv' /\ Members(tree)' = (S \ T) \cup (T \ S) /\ Size' = Size /\ op' = <<"Xor", T>> /\ ret' = None
  BY <1>1, <1>3, <1>5, Stays
<1>7. op'[1] = "Xor" /\ op'[2] = T
  BY <1>6
<1>8. Set!Becomes((S \ T) \cup (T \ S), None)
  BY <1>6 DEF Set!Becomes
<1> QED
  BY <1>6, <1>7, <1>8, SetSteps

LEMMA SizesAre ==
    ASSUME NEW n \in Sizes
    PROVE  n \in 1 .. LastOfAll + 1 /\ n \in Nat
<1>1. n \in 1 .. LastOfAll + 1
  BY TreeAssumption
<1>2. LastOfAll \in Nat
  BY Bounds
<1> QED
  BY <1>1, <1>2

\* A tree that represents S: what the abstract set sees of it.
LEMMA SeenAs ==
    ASSUME NEW S, Rep(tree', S)
    PROVE  TreeInv' /\ Members(tree)' = S /\ Size' = tree'.last + 1
<1>1. Members(tree') = S /\ DOMAIN tree'.cl # {}
  BY RepMembers
<1>2. Members(tree)' = S
  BY <1>1
<1>3. InUse'
  BY <1>1 DEF InUse
<1> QED
  BY <1>1, <1>2, <1>3 DEF TreeInv, Size

LEMMA MovedIs ==
    ASSUME NEW t, Moved(t)
    PROVE  Members(t) = {}
BY DEF Moved, Members

LEMMA ResizeTreeStep ==
    ASSUME TreeInv, WithinLimits, NEW n \in Sizes, ResizeTree(n)
    PROVE  TreeInv' /\ Set!Next
<1> DEFINE S == Members(tree)
           R == {x \in S : x < n}
           m == NCluster(n - 1) + 1
<1>1. n \in 1 .. LastOfAll + 1 /\ n \in Nat
  BY SizesAre
<1>2. /\ tree.kind = "wrap" /\ n # Size
      /\ ~TypeWraps(m - 1) \/ ~InUse \/ (NClusters(tree) = m /\ n > Size)
      /\ n < Size => ~HasAny(tree) \/ HasOne(tree) \/ tree.min < n
  BY DEF ResizeTree, IsWrap
<1>3. /\ ~InUse => Becomes(Blank("wrap", n), <<"Resize", n>>, None)
      /\ InUse /\ n > Size => Becomes(Grown(n, m), <<"Resize", n>>, None)
      /\ InUse /\ ~(n > Size) => Becomes(Shrunk(n, m), <<"Resize", n>>, None)
  BY Zenon DEF ResizeTree
<1> HIDE DEF m
<1>4. Rep(tree', R) /\ tree'.last = n - 1 /\ op' = <<"Resize", n>> /\ ret' = None
  <2>1. CASE ~InUse
    <3>1. tree' = Blank("wrap", n) /\ op' = <<"Resize", n>> /\ ret' = None
      BY <1>3, <2>1 DEF Becomes
    <3>2. Moved(tree)
      BY <2>1 DEF TreeInv
    <3>3. R = {}
      BY <3>2, MovedIs
    <3> QED
      BY <1>1, <3>1, <3>3, BlankStands
  <2>2. CASE InUse
    <3>1. /\ Rep(tree, S) /\ Size = tree.last + 1 /\ tree.last \in Nat /\ S \subseteq 0 .. tree.last
      BY <2>2, InUseIs
    <3>2. CASE n > Size
      <4>1. tree' = Grown(n, m) /\ op' = <<"Resize", n>> /\ ret' = None
        BY <1>3, <2>2, <3>2 DEF Becomes
      <4>2. R = S
        BY <1>1, <3>1, <3>2
      <4>3. ~TypeWraps(m - 1) \/ NClusters(tree) = m
        BY <1>2, <2>2
      <4>4. m = NCluster(n - 1) + 1
        BY DEF m
      <4>5. n > tree.last + 1
        BY <3>1, <3>2
      <4> HIDE DEF R, S
      <4> QED
        BY <1>1, <1>2, <3>1, <4>1, <4>2, <4>3, <4>4, <4>5, GrownRep
    <3>3. CASE ~(n > Size)
      <4>1. tree' = Shrunk(n, m) /\ op' = <<"Resize", n>> /\ ret' = None
        BY <1>3, <2>2, <3>3 DEF Becomes
      <4>2. n < tree.last + 1 /\ n < Size
        BY <1>1, <1>2, <3>1, <3>3
      <4>3. ~TypeWraps(m - 1) /\ (~HasAny(tree) \/ HasOne(tree) \/ tree.min < n)
        BY <1>1, <1>2, <2>2, <3>3, <4>2
      <4>4. m = NCluster(n - 1) + 1
        BY DEF m
      <4> HIDE DEF S
      <4> QED
        BY <1>1, <1>2, <3>1, <4>1, <4>2, <4>3, <4>4, ShrunkRep
    <3> QED
      BY <3>2, <3>3
  <2> QED
    BY <2>1, <2>2
<1> HIDE DEF R
<1>5. TreeInv' /\ Members(tree)' = R /\ Size' = tree'.last + 1
  BY <1>4, SeenAs
<1>6. Size' = n
  BY <1>1, <1>4, <1>5
<1>7. op'[1] = "Resize" /\ op'[2] = n
  BY <1>4
<1>8. Set!Resize(n)
  BY <1>4, <1>5, <1>6 DEF Set!Resize, R
<1> QED
  BY <1>5, <1>7, <1>8, SetSteps

LEMMA MoveFromStep ==
    ASSUME TreeInv, MoveFrom
    PROVE  TreeInv' /\ Set!Next
<1>1. /\ InUse /\ tree.kind = "wrap" /\ op' = <<"Resize", 0>> /\ ret' = None
      /\ tree' = [SetEmptyMinMax(tree) EXCEPT !.cl = [k \in {} |-> ZeroWords], !.sum = ZeroWords]
  BY DEF MoveFrom, IsWrap
<1>2. Rep(tree, Members(tree)) /\ IsTree(tree) /\ Members(tree) \subseteq 0 .. tree.last
  BY <1>1, InUseIs
<1>3. Moved(tree')
  <2>1. tree.none = LastOfAll /\ tree.last \in Places
    BY <1>1, <1>2 DEF IsTree
  <2>2. tree = Made(tree, tree.min, tree.max, tree.sum, tree.cl)
    BY <1>2, Zenon DEF IsTree
  <2> QED
    BY <1>1, <2>1, <2>2 DEF Moved, SetEmptyMinMax, Made
<1>4. DOMAIN tree'.cl = {}
  BY <1>3 DEF Moved
<1>5. TreeInv' /\ Size' = 0
  BY <1>3, <1>4 DEF TreeInv, InUse, Size
<1>6. Members(tree') = {}
  BY <1>3, MovedIs
<1>7. {x \in Members(tree) : x < 0} = {}
  <2>1. tree.last \in Nat
    BY <1>1, InUseIs
  <2> QED
    BY <1>2, <2>1
<1>8. op'[1] = "Resize" /\ op'[2] = 0
  BY <1>1
<1>9. Set!Resize(0)
  BY <1>1, <1>5, <1>6, <1>7 DEF Set!Resize
<1> QED
  BY <1>5, <1>8, <1>9, SetSteps

LEMMA InitTreeInv == InitTree => TreeInv /\ Set!Init
<1> SUFFICES ASSUME InitTree
             PROVE  TreeInv /\ Set!Init
  OBVIOUS
<1>1. PICK kind \in {"wrap", "fixed"}, n \in 1 .. LastOfAll + 1 :
          tree = Blank(kind, n) /\ (kind = "fixed" => n = LastOfAll + 1)
  <2>1. LastOfAll + 1 \in 1 .. LastOfAll + 1
    BY Bounds
  <2>2. CASE \E n \in Sizes : tree = Blank("wrap", n)
    BY <2>2, SizesAre
  <2>3. CASE tree = Blank("fixed", LastOfAll + 1)
    BY <2>1, <2>3
  <2> QED
    BY <2>2, <2>3 DEF InitTree
<1>2. Rep(tree, {}) /\ tree.last = n - 1
  BY <1>1, BlankStands
<1>3. Members(tree) = {} /\ DOMAIN tree.cl # {}
  BY <1>2, RepMembers
<1>4. TreeInv
  BY <1>2, <1>3 DEF TreeInv, InUse
<1>5. Size \in 0 .. LastOfAll + 1
  BY <1>1, <1>2, <1>3, Bounds DEF Size
<1> QED
  BY <1>3, <1>4, <1>5 DEF Set!Init, InitTree

LEMMA NextTreeInv ==
    ASSUME WithinLimits, TreeInv, NextTree
    PROVE  TreeInv' /\ Set!Next
<1>1. CASE \E x \in Numbered : InsertX(x)
  BY <1>1, InsertXStep
<1>2. CASE \E x \in Numbered : FCheckInsert(x)
  BY <1>2, FCheckInsertStep
<1>3. CASE \E x \in Numbered : DeleteX(x)
  BY <1>3, DeleteXStep
<1>4. CASE \E x \in Numbered : FCheckDelete(x)
  BY <1>4, FCheckDeleteStep
<1>5. CASE \E x \in Numbered : FDeleteAllAfter(x)
  BY <1>5, FDeleteAllAfterStep
<1>6. CASE \E x \in -1 .. tree.last + 1 : NSuccessorDelete(x)
  BY <1>6, NSuccessorDeleteStep
<1>7. CASE \E x \in -1 .. tree.last + 1 : NPredecessorDelete(x)
  BY <1>7, NPredecessorDeleteStep
<1>8. CASE InsertEvery
  BY <1>8, InsertEveryStep
<1>9. CASE ClearAll
  BY <1>9, ClearAllStep
<1>10. CASE Invert
  BY <1>10, InvertStep
<1>11. CASE \E T \in Operands : Or(T)
  BY <1>11, OrStep
<1>12. CASE \E T \in Operands : And(T)
  BY <1>12, AndStep
<1>13. CASE \E T \in Operands : Xor(T)
  BY <1>13, XorStep
<1>14. CASE \E n \in Sizes : ResizeTree(n)
  BY <1>14, ResizeTreeStep
<1>15. CASE MoveFrom
  BY <1>15, MoveFromStep
<1> QED
  BY <1>1, <1>2, <1>3, <1>4, <1>5, <1>6, <1>7, <1>8, <1>9, <1>10, <1>11, <1>12, <1>13, <1>14, <1>15
     DEF NextTree

\* Within the limits of the class every reachable tree represents the set of
\* its elements - its summary names the clusters in use, its minimum is kept
\* outside them and its maximum is their greatest - or was moved from.  The
\* invariant is inductive: SearchesAgree alone is not, since a search reads the
\* summary where the set does not have it.
THEOREM TreeInvariance ==
    ASSUME WithinLimits
    PROVE  SpecTree => []TreeInv
<1>1. InitTree => TreeInv
  BY InitTreeInv
<1>2. TreeInv /\ [NextTree]_treeVars => TreeInv'
  <2> SUFFICES ASSUME TreeInv, [NextTree]_treeVars
               PROVE  TreeInv'
    OBVIOUS
  <2>1. CASE NextTree
    BY <2>1, NextTreeInv
  <2>2. CASE UNCHANGED treeVars
    <3>1. tree' = tree
      BY <2>2 DEF treeVars
    <3> QED
      BY <3>1 DEF TreeInv, InUse
  <2> QED
    BY <2>1, <2>2
<1> QED
  BY <1>1, <1>2, PTL DEF SpecTree

\* What the class asserts of a tree holds after every sequence of operations
\* of trees of every size, and every search gives the neighbour in the set of
\* the tree's elements (_vebtree.h, NSuccessor, NPredecessor, AssertValid).
THEOREM TreesStaySound ==
    ASSUME WithinLimits
    PROVE  SpecTree => []TreeIsSound
<1>1. SpecTree => []TreeInv
  BY TreeInvariance
<1>2. TreeInv => TreeIsSound
  BY TreeInvSound
<1> QED
  BY <1>1, <1>2, PTL

\* The tree implements a set of numbers: each operation of the class, whatever
\* clusters it visits, changes the set and answers as the set's operation does.
THEOREM TreeIsASet ==
    ASSUME WithinLimits
    PROVE  SpecTree => Refinement
<1>1. SpecTree => []TreeInv
  BY TreeInvariance
<1>2. InitTree => Set!Init
  BY InitTreeInv
<1>3. TreeInv /\ [NextTree]_treeVars => [Set!Next]_(Set!vars)
  <2> SUFFICES ASSUME TreeInv, [NextTree]_treeVars
               PROVE  [Set!Next]_(Set!vars)
    OBVIOUS
  <2>1. CASE NextTree
    BY <2>1, NextTreeInv
  <2>2. CASE UNCHANGED treeVars
    <3>1. tree' = tree /\ op' = op /\ ret' = ret
      BY <2>2 DEF treeVars
    <3>2. Members(tree') = Members(tree) /\ Size' = Size
      BY <3>1 DEF Size
    <3> QED
      BY <3>1, <3>2 DEF Set!vars
  <2> QED
    BY <2>1, <2>2
<1> QED
  BY <1>1, <1>2, <1>3, PTL DEF SpecTree, Refinement

-----------------------------------------------------------------------------
\* The leaves used as sets by themselves.

LeafInv == \/ leaf.kind = "two" /\ leaf.w \subseteq {0, 1} /\ leaf = [kind |-> "two", w |-> leaf.w]
           \/ leaf.kind = "words" /\ leaf.w \in Words /\ leaf = [kind |-> "words", w |-> leaf.w]

LEMMA LeafIs ==
    ASSUME LeafInv
    PROVE  /\ IsTwo => Elements(leaf) = leaf.w /\ leaf.w \subseteq {0, 1} /\ LeafNumbers = {0, 1} /\ LeafSize = 2
           /\ ~IsTwo => /\ Elements(leaf) = Numbers(leaf.w) /\ leaf.w \in Words
                        /\ LeafNumbers = Els /\ LeafSize = Universe
           /\ Elements(leaf) \subseteq LeafNumbers /\ LeafNumbers \subseteq Nat
           /\ LeafSet!All = LeafNumbers
<1>1. LeafSet!All = LeafNumbers
  BY DEF LeafSet!All, LeafNumbers
<1>2. Els \subseteq Nat
  BY Bounds
<1>3. CASE IsTwo
  <2>1. LeafNumbers = {0, 1} /\ LeafSize = 2
    BY <1>3 DEF LeafNumbers, LeafSize
  <2>2. leaf.kind = "two" /\ leaf.w \subseteq {0, 1}
    BY <1>3 DEF LeafInv, IsTwo
  <2> QED
    BY <1>1, <1>3, <2>1, <2>2 DEF Elements
<1>4. CASE ~IsTwo
  <2>1. LeafNumbers = Els /\ LeafSize = Universe
    BY <1>4 DEF LeafNumbers, LeafSize, Els
  <2>2. leaf.kind # "two" /\ leaf.w \in Words
    BY <1>4 DEF LeafInv, IsTwo
  <2>3. Numbers(leaf.w) \subseteq Els
    BY DEF Numbers, Els
  <2> QED
    BY <1>1, <1>2, <1>4, <2>1, <2>2, <2>3 DEF Elements
<1> QED
  BY <1>3, <1>4

LEMMA LeafHas ==
    ASSUME LeafInv, NEW x \in LeafNumbers
    PROVE  HasElement(x) <=> x \in Elements(leaf)
<1>1. CASE IsTwo
  BY <1>1, LeafIs DEF HasElement
<1>2. CASE ~IsTwo
  BY <1>2, LeafIs, HasIsNumber DEF HasElement
<1> QED
  BY <1>1, <1>2

LEMMA LeafStays ==
    ASSUME LeafInv, NEW T, NEW two, NEW words, NEW o, NEW r, LeafBecomes(two, words, o, r),
           IsTwo => two = T /\ T \subseteq {0, 1},
           ~IsTwo => words \in Words /\ Numbers(words) = T
    PROVE  LeafInv' /\ Elements(leaf)' = T /\ LeafSize' = LeafSize /\ lop' = o /\ lret' = r
<1>1. leaf' = [leaf EXCEPT !.w = IF IsTwo THEN two ELSE words] /\ lop' = o /\ lret' = r
  BY DEF LeafBecomes
<1>2. CASE IsTwo
  <2>1. leaf = [kind |-> "two", w |-> leaf.w]
    BY <1>2 DEF LeafInv, IsTwo
  <2>2. leaf' = [kind |-> "two", w |-> T]
    BY <1>1, <1>2, <2>1
  <2>3. leaf'.kind = "two" /\ leaf'.w = T /\ leaf' = [kind |-> "two", w |-> leaf'.w]
    BY <2>2
  <2> QED
    BY <1>1, <1>2, <2>3 DEF LeafInv, Elements, LeafSize, IsTwo
<1>3. CASE ~IsTwo
  <2>1. leaf = [kind |-> "words", w |-> leaf.w]
    BY <1>3 DEF LeafInv, IsTwo
  <2>2. leaf' = [kind |-> "words", w |-> words]
    BY <1>1, <1>3, <2>1
  <2>3. leaf'.kind = "words" /\ leaf'.w = words /\ leaf' = [kind |-> "words", w |-> leaf'.w]
    BY <2>2
  <2>4. LeafInv'
    BY <1>3, <2>3, SMTT(60) DEF LeafInv
  <2> QED
    BY <1>1, <1>3, <2>3, <2>4 DEF Elements, LeafSize, IsTwo
<1> QED
  BY <1>2, <1>3

LEMMA LeafSteps ==
    /\ lop'[1] = "Insert" => (LeafSet!Next <=> LeafSet!Insert(lop'[2]))
    /\ lop'[1] = "CheckInsert" => (LeafSet!Next <=> LeafSet!CheckInsert(lop'[2]))
    /\ lop'[1] = "Delete" => (LeafSet!Next <=> LeafSet!Delete(lop'[2]))
    /\ lop'[1] = "CheckDelete" => (LeafSet!Next <=> LeafSet!CheckDelete(lop'[2]))
    /\ lop'[1] = "TakeAfter" => (LeafSet!Next <=> LeafSet!TakeAfter(lop'[2]))
    /\ lop'[1] = "TakeBefore" => (LeafSet!Next <=> LeafSet!TakeBefore(lop'[2]))
    /\ lop'[1] = "Truncate" => (LeafSet!Next <=> LeafSet!Truncate(lop'[2]))
    /\ lop'[1] = "Fill" => (LeafSet!Next <=> LeafSet!Becomes(LeafSet!All, None))
    /\ lop'[1] = "Clear" => (LeafSet!Next <=> LeafSet!Becomes({}, None))
    /\ lop'[1] = "Invert" => (LeafSet!Next <=> LeafSet!Becomes(LeafSet!All \ Elements(leaf), None))
    /\ lop'[1] = "Or" => (LeafSet!Next <=> LeafSet!Becomes(Elements(leaf) \cup lop'[2], None))
    /\ lop'[1] = "And" => (LeafSet!Next <=> LeafSet!Becomes(Elements(leaf) \cap lop'[2], None))
    /\ lop'[1] = "Xor" =>
          (LeafSet!Next <=> LeafSet!Becomes((Elements(leaf) \ lop'[2]) \cup (lop'[2] \ Elements(leaf)), None))
  BY DEF LeafSet!Next

\* An array of words inserts and deletes as a set does.
LEMMA WordSets ==
    ASSUME NEW w \in Words, NEW x \in Els
    PROVE  /\ InsertW(w, x) \in Words /\ Numbers(InsertW(w, x)) = Numbers(w) \cup {x}
           /\ DeleteW(w, x) \in Words /\ Numbers(DeleteW(w, x)) = Numbers(w) \ {x}
<1>1. Numbers(InsertW(w, x)) = Numbers(w) \cup {x}
  BY InsertWIs, HasIsNumber
<1>2. Numbers(DeleteW(w, x)) = Numbers(w) \ {x}
  BY DeleteWIs, HasIsNumber
<1> QED
  BY <1>1, <1>2, InsertWIs, DeleteWIs

LEMMA InsertLStep ==
    ASSUME LeafInv, NEW x \in LeafNumbers, InsertL(x)
    PROVE  LeafInv' /\ LeafSet!Next
<1> DEFINE S == Elements(leaf)
<1>1. x \notin S /\ LeafBecomes(leaf.w \cup {x}, InsertW(leaf.w, x), <<"Insert", x>>, None)
  BY LeafHas DEF InsertL
<1>2. IsTwo => leaf.w \cup {x} = S \cup {x} /\ S \cup {x} \subseteq {0, 1}
  BY LeafIs
<1>3. ~IsTwo => InsertW(leaf.w, x) \in Words /\ Numbers(InsertW(leaf.w, x)) = S \cup {x}
  BY LeafIs, WordSets
<1>4. /\ LeafInv' /\ Elements(leaf)' = S \cup {x} /\ LeafSize' = LeafSize
      /\ lop' = <<"Insert", x>> /\ lret' = None
  BY <1>1, <1>2, <1>3, LeafStays
<1>5. lop'[1] = "Insert" /\ lop'[2] = x
  BY <1>4
<1>6. LeafSet!Insert(x)
  BY <1>1, <1>4, LeafIs DEF LeafSet!Insert, LeafSet!Becomes
<1> QED
  BY <1>4, <1>5, <1>6, LeafSteps

LEMMA FCheckInsertLStep ==
    ASSUME LeafInv, NEW x \in LeafNumbers, FCheckInsertL(x)
    PROVE  LeafInv' /\ LeafSet!Next
<1> DEFINE S == Elements(leaf)
<1>1. CASE x \in S
  <2>1. LeafBecomes(leaf.w, leaf.w, <<"CheckInsert", x>>, FALSE)
    BY <1>1, LeafHas DEF FCheckInsertL
  <2>2. IsTwo => leaf.w = S /\ S \subseteq {0, 1}
    BY LeafIs
  <2>3. ~IsTwo => leaf.w \in Words /\ Numbers(leaf.w) = S
    BY LeafIs
  <2>4. /\ LeafInv' /\ Elements(leaf)' = S /\ LeafSize' = LeafSize
        /\ lop' = <<"CheckInsert", x>> /\ lret' = FALSE
    BY <2>1, <2>2, <2>3, LeafStays
  <2>5. lop'[1] = "CheckInsert" /\ lop'[2] = x /\ S \cup {x} = S
    BY <1>1, <2>4
  <2>6. LeafSet!CheckInsert(x)
    BY <1>1, <2>4, <2>5, LeafIs DEF LeafSet!CheckInsert, LeafSet!Becomes
  <2> QED
    BY <2>4, <2>5, <2>6, LeafSteps
<1>2. CASE x \notin S
  <2>1. LeafBecomes(leaf.w \cup {x}, InsertW(leaf.w, x), <<"CheckInsert", x>>, TRUE)
    BY <1>2, LeafHas DEF FCheckInsertL
  <2>2. IsTwo => leaf.w \cup {x} = S \cup {x} /\ S \cup {x} \subseteq {0, 1}
    BY LeafIs
  <2>3. ~IsTwo => InsertW(leaf.w, x) \in Words /\ Numbers(InsertW(leaf.w, x)) = S \cup {x}
    BY LeafIs, WordSets
  <2>4. /\ LeafInv' /\ Elements(leaf)' = S \cup {x} /\ LeafSize' = LeafSize
        /\ lop' = <<"CheckInsert", x>> /\ lret' = TRUE
    BY <2>1, <2>2, <2>3, LeafStays
  <2>5. lop'[1] = "CheckInsert" /\ lop'[2] = x
    BY <2>4
  <2>6. LeafSet!CheckInsert(x)
    BY <1>2, <2>4, LeafIs DEF LeafSet!CheckInsert, LeafSet!Becomes
  <2> QED
    BY <2>4, <2>5, <2>6, LeafSteps
<1> QED
  BY <1>1, <1>2

LEMMA DeleteLStep ==
    ASSUME LeafInv, NEW x \in LeafNumbers, DeleteL(x)
    PROVE  LeafInv' /\ LeafSet!Next
<1> DEFINE S == Elements(leaf)
<1>1. x \in S /\ LeafBecomes(leaf.w \ {x}, DeleteW(leaf.w, x), <<"Delete", x>>, None)
  BY LeafHas DEF DeleteL
<1>2. IsTwo => leaf.w \ {x} = S \ {x} /\ S \ {x} \subseteq {0, 1}
  BY LeafIs
<1>3. ~IsTwo => DeleteW(leaf.w, x) \in Words /\ Numbers(DeleteW(leaf.w, x)) = S \ {x}
  BY LeafIs, WordSets
<1>4. /\ LeafInv' /\ Elements(leaf)' = S \ {x} /\ LeafSize' = LeafSize
      /\ lop' = <<"Delete", x>> /\ lret' = None
  BY <1>1, <1>2, <1>3, LeafStays
<1>5. lop'[1] = "Delete" /\ lop'[2] = x
  BY <1>4
<1>6. LeafSet!Delete(x)
  BY <1>1, <1>4 DEF LeafSet!Delete, LeafSet!Becomes
<1> QED
  BY <1>4, <1>5, <1>6, LeafSteps

LEMMA FCheckDeleteLStep ==
    ASSUME LeafInv, NEW x \in LeafNumbers, FCheckDeleteL(x)
    PROVE  LeafInv' /\ LeafSet!Next
<1> DEFINE S == Elements(leaf)
<1>1. CASE x \notin S
  <2>1. LeafBecomes(leaf.w, leaf.w, <<"CheckDelete", x>>, FALSE)
    BY <1>1, LeafHas DEF FCheckDeleteL
  <2>2. IsTwo => leaf.w = S /\ S \subseteq {0, 1}
    BY LeafIs
  <2>3. ~IsTwo => leaf.w \in Words /\ Numbers(leaf.w) = S
    BY LeafIs
  <2>4. /\ LeafInv' /\ Elements(leaf)' = S /\ LeafSize' = LeafSize
        /\ lop' = <<"CheckDelete", x>> /\ lret' = FALSE
    BY <2>1, <2>2, <2>3, LeafStays
  <2>5. lop'[1] = "CheckDelete" /\ lop'[2] = x /\ S \ {x} = S
    BY <1>1, <2>4
  <2>6. Elements(leaf)' = S \ {x} /\ lret' = (x \in S)
    <3>1. (x \in S) = FALSE
      BY <1>1
    <3>2. lret' = (x \in S)
      BY <2>4, <3>1, Zenon
    <3> QED
      BY <2>4, <2>5, <3>2, Zenon
  <2>7. LeafSet!CheckDelete(x)
    BY <2>4, <2>6, LeafIs DEF LeafSet!CheckDelete, LeafSet!Becomes
  <2> QED
    BY <2>4, <2>5, <2>7, LeafSteps
<1>2. CASE x \in S
  <2>1. LeafBecomes(leaf.w \ {x}, DeleteW(leaf.w, x), <<"CheckDelete", x>>, TRUE)
    BY <1>2, LeafHas DEF FCheckDeleteL
  <2>2. IsTwo => leaf.w \ {x} = S \ {x} /\ S \ {x} \subseteq {0, 1}
    BY LeafIs
  <2>3. ~IsTwo => DeleteW(leaf.w, x) \in Words /\ Numbers(DeleteW(leaf.w, x)) = S \ {x}
    BY LeafIs, WordSets
  <2>4. /\ LeafInv' /\ Elements(leaf)' = S \ {x} /\ LeafSize' = LeafSize
        /\ lop' = <<"CheckDelete", x>> /\ lret' = TRUE
    BY <2>1, <2>2, <2>3, LeafStays
  <2>5. lop'[1] = "CheckDelete" /\ lop'[2] = x
    BY <2>4
  <2>6. LeafSet!CheckDelete(x)
    BY <1>2, <2>4, LeafIs DEF LeafSet!CheckDelete, LeafSet!Becomes
  <2> QED
    BY <2>4, <2>5, <2>6, LeafSteps
<1> QED
  BY <1>1, <1>2

\* The next number after x, and before it, that a leaf finds.
LEMMA LeafNext ==
    ASSUME LeafInv, NEW x \in LeafNumbers
    PROVE  LET y == OrNone(NSuccessorL(x), 0)
               S == Elements(leaf)
           IN  /\ y = LeafSet!Least({z \in S : z > x})
               /\ IsTwo => (IF NSuccessorL(x) # 0 THEN leaf.w \cap {0} ELSE leaf.w) = S \ {y}
               /\ ~IsTwo => /\ NSuccessorDeleteW(leaf.w, x) \in Words
                            /\ Numbers(NSuccessorDeleteW(leaf.w, x)) = S \ {y}
<1> DEFINE s == NSuccessorL(x)
           S == Elements(leaf)
           A == {z \in S : z > x}
<1>1. S \subseteq Nat /\ x \in Nat /\ None = -1 /\ S \subseteq LeafNumbers
  BY LeafIs DEF None
<1>2. CASE IsTwo
  <2>1. S = leaf.w /\ S \subseteq {0, 1} /\ x \in {0, 1} /\ s = IF x = 0 /\ 1 \in S THEN 1 ELSE 0
    BY <1>2, LeafIs DEF NSuccessorL, NSuccessor2
  <2>2. CASE x = 0 /\ 1 \in S
    <3>1. A = {1}
      BY <2>1, <2>2
    <3>2. Min(A) = 1
      BY <3>1, IsMin
    <3>3. s = 1 /\ OrNone(s, 0) = 1
      BY <2>1, <2>2 DEF OrNone
    <3>4. S \cap {0} = S \ {1}
      BY <2>1
    <3> QED
      BY <1>2, <2>1, <3>1, <3>2, <3>3, <3>4 DEF LeafSet!Least, LeafSet!Min, Min
  <2>3. CASE ~(x = 0 /\ 1 \in S)
    <3>1. A = {}
      BY <2>1, <2>3
    <3>2. s = 0 /\ OrNone(s, 0) = None
      BY <2>1, <2>3 DEF OrNone
    <3>3. S \ {None} = S
      BY <1>1
    <3> QED
      BY <1>2, <2>1, <3>1, <3>2, <3>3 DEF LeafSet!Least
  <2> QED
    BY <2>2, <2>3
<1>3. CASE ~IsTwo
  <2> DEFINE w == leaf.w
  <2>1. S = Numbers(w) /\ w \in Words /\ x \in Els /\ s = NSuccessorW(w, x)
    BY <1>3, LeafIs DEF NSuccessorL
  <2>2. S = {e \in Els : FHasElementW(w, e)}
    BY <2>1, HasIsNumber
  <2>3. NSuccessorDeleteW(w, x) = IF s = 0 THEN w ELSE DeleteW(w, s)
    BY <2>1, Zenon DEF NSuccessorDeleteW, NoSuccessorW
  <2>4. \/ s = 0 /\ \A e \in Els : FHasElementW(w, e) => e <= x
        \/ /\ s \in Els /\ FHasElementW(w, s) /\ x < s
           /\ \A e \in Els : FHasElementW(w, e) /\ x < e => s <= e
    BY <2>1, NSuccessorWIs
  <2> HIDE DEF w, s
  <2>5. CASE s = 0 /\ \A e \in Els : FHasElementW(w, e) => e <= x
    <3>1. A = {}
      BY <1>1, <2>2, <2>5
    <3>2. OrNone(s, 0) = None /\ S \ {None} = S
      BY <1>1, <2>5 DEF OrNone
    <3> QED
      BY <1>3, <2>1, <2>3, <2>5, <3>1, <3>2 DEF LeafSet!Least, s, w
  <2>6. CASE /\ s \in Els /\ FHasElementW(w, s) /\ x < s
             /\ \A e \in Els : FHasElementW(w, e) /\ x < e => s <= e
    <3>1. s \in A /\ A \subseteq Nat /\ \A e \in A : s <= e
      BY <1>1, <2>2, <2>6
    <3>2. Min(A) = s
      BY <3>1, IsMin
    <3>3. s # 0 /\ OrNone(s, 0) = s
      BY <1>1, <2>6 DEF OrNone, Els
    <3>4. NSuccessorDeleteW(w, x) \in Words /\ Numbers(NSuccessorDeleteW(w, x)) = S \ {s}
      BY <2>1, <2>3, <2>6, <3>3, WordSets
    <3> QED
      BY <1>3, <3>1, <3>2, <3>3, <3>4 DEF LeafSet!Least, LeafSet!Min, Min, s, w
  <2> QED
    BY <2>4, <2>5, <2>6
<1> QED
  BY <1>2, <1>3

LEMMA LeafPrevious ==
    ASSUME LeafInv, NEW x \in LeafNumbers
    PROVE  LET y == OrNone(NPredecessorL(x), LeafSize - 1)
               S == Elements(leaf)
           IN  /\ y = LeafSet!Greatest({z \in S : z < x})
               /\ IsTwo => (IF NPredecessorL(x) = 0 THEN leaf.w \cap {1} ELSE leaf.w) = S \ {y}
               /\ ~IsTwo => /\ NPredecessorDeleteW(leaf.w, x) \in Words
                            /\ Numbers(NPredecessorDeleteW(leaf.w, x)) = S \ {y}
<1> DEFINE p == NPredecessorL(x)
           S == Elements(leaf)
           A == {z \in S : z < x}
<1>1. S \subseteq Nat /\ x \in Nat /\ None = -1 /\ S \subseteq LeafNumbers
  BY LeafIs DEF None
<1>2. CASE IsTwo
  <2>1. /\ S = leaf.w /\ S \subseteq {0, 1} /\ x \in {0, 1} /\ LeafSize - 1 = 1
        /\ p = IF x = 0 \/ 0 \notin S THEN 1 ELSE 0
    BY <1>2, LeafIs DEF NPredecessorL, NPredecessor2
  <2>2. CASE x = 1 /\ 0 \in S
    <3>1. A = {0}
      BY <2>1, <2>2
    <3>2. Max(A) = 0
      BY <3>1, IsMax
    <3>3. p = 0 /\ OrNone(p, LeafSize - 1) = 0
      BY <2>1, <2>2 DEF OrNone
    <3>4. S \cap {1} = S \ {0}
      BY <2>1
    <3> QED
      BY <1>2, <2>1, <3>1, <3>2, <3>3, <3>4 DEF LeafSet!Greatest, LeafSet!Max, Max
  <2>3. CASE ~(x = 1 /\ 0 \in S)
    <3>1. A = {}
      BY <2>1, <2>3
    <3>2. p = 1 /\ OrNone(p, LeafSize - 1) = None
      BY <2>1, <2>3 DEF OrNone
    <3>3. S \ {None} = S
      BY <1>1
    <3> QED
      BY <1>2, <2>1, <3>1, <3>2, <3>3 DEF LeafSet!Greatest
  <2> QED
    BY <2>2, <2>3
<1>3. CASE ~IsTwo
  <2> DEFINE w == leaf.w
  <2>1. S = Numbers(w) /\ w \in Words /\ x \in Els /\ p = NPredecessorW(w, x) /\ LeafSize = Universe
    BY <1>3, LeafIs DEF NPredecessorL
  <2>2. S = {e \in Els : FHasElementW(w, e)}
    BY <2>1, HasIsNumber
  <2>3. NPredecessorDeleteW(w, x) = IF p = Universe - 1 THEN w ELSE DeleteW(w, p)
    BY <2>1, Zenon DEF NPredecessorDeleteW, NoPredecessorW
  <2>4. \/ p = Universe - 1 /\ \A e \in Els : FHasElementW(w, e) => e >= x
        \/ /\ p \in Els /\ FHasElementW(w, p) /\ p < x
           /\ \A e \in Els : FHasElementW(w, e) /\ e < x => e <= p
    BY <2>1, NPredecessorWIs
  <2> HIDE DEF w, p
  <2>5. CASE p = Universe - 1 /\ \A e \in Els : FHasElementW(w, e) => e >= x
    <3>1. A = {}
      BY <1>1, <2>2, <2>5
    <3>2. OrNone(p, LeafSize - 1) = None /\ S \ {None} = S
      BY <1>1, <2>1, <2>5 DEF OrNone
    <3> QED
      BY <1>3, <2>1, <2>3, <2>5, <3>1, <3>2 DEF LeafSet!Greatest, p, w
  <2>6. CASE /\ p \in Els /\ FHasElementW(w, p) /\ p < x
             /\ \A e \in Els : FHasElementW(w, e) /\ e < x => e <= p
    <3>1. p \in A /\ A \subseteq 0 .. Universe - 1 /\ \A e \in A : e <= p
      BY <1>1, <2>2, <2>6 DEF Els
    <3>2. Universe - 1 \in Nat
      BY Ranges
    <3>3. Max(A) = p
      BY <3>1, <3>2, IsMax
    <3>4. p # Universe - 1 /\ OrNone(p, LeafSize - 1) = p
      BY <1>1, <2>1, <2>6, <3>2 DEF OrNone, Els
    <3>5. NPredecessorDeleteW(w, x) \in Words /\ Numbers(NPredecessorDeleteW(w, x)) = S \ {p}
      BY <2>1, <2>3, <2>6, <3>4, WordSets
    <3> QED
      BY <1>3, <3>1, <3>3, <3>4, <3>5 DEF LeafSet!Greatest, LeafSet!Max, Max, p, w
  <2> QED
    BY <2>4, <2>5, <2>6
<1> QED
  BY <1>2, <1>3

LEMMA NSuccessorDeleteLStep ==
    ASSUME LeafInv, NEW x \in LeafNumbers, NSuccessorDeleteL(x)
    PROVE  LeafInv' /\ LeafSet!Next
<1> DEFINE S == Elements(leaf)
           y == OrNone(NSuccessorL(x), 0)
           two == IF NSuccessorL(x) # 0 THEN leaf.w \cap {0} ELSE leaf.w
           words == NSuccessorDeleteW(leaf.w, x)
<1>1. LeafBecomes(two, words, <<"TakeAfter", x>>, y)
  BY DEF NSuccessorDeleteL
<1>2. /\ y = LeafSet!Least({z \in S : z > x})
      /\ IsTwo => two = S \ {y}
      /\ ~IsTwo => words \in Words /\ Numbers(words) = S \ {y}
  BY LeafNext, Zenon
<1>3. IsTwo => S \ {y} \subseteq {0, 1}
  BY LeafIs
<1> HIDE DEF two, words, y
<1>4. LeafInv' /\ Elements(leaf)' = S \ {y} /\ LeafSize' = LeafSize /\ lop' = <<"TakeAfter", x>> /\ lret' = y
  BY <1>1, <1>2, <1>3, LeafStays
<1>5. lop'[1] = "TakeAfter" /\ lop'[2] = x
  BY <1>4
<1>6. LeafSet!TakeAfter(x)
  BY <1>2, <1>4 DEF LeafSet!TakeAfter, LeafSet!Becomes
<1> QED
  BY <1>4, <1>5, <1>6, LeafSteps

LEMMA NPredecessorDeleteLStep ==
    ASSUME LeafInv, NEW x \in LeafNumbers, NPredecessorDeleteL(x)
    PROVE  LeafInv' /\ LeafSet!Next
<1> DEFINE S == Elements(leaf)
           y == OrNone(NPredecessorL(x), LeafSize - 1)
           two == IF NPredecessorL(x) = 0 THEN leaf.w \cap {1} ELSE leaf.w
           words == NPredecessorDeleteW(leaf.w, x)
<1>1. LeafBecomes(two, words, <<"TakeBefore", x>>, y)
  BY DEF NPredecessorDeleteL
<1>2. /\ y = LeafSet!Greatest({z \in S : z < x})
      /\ IsTwo => two = S \ {y}
      /\ ~IsTwo => words \in Words /\ Numbers(words) = S \ {y}
  BY LeafPrevious, Zenon
<1>3. IsTwo => S \ {y} \subseteq {0, 1}
  BY LeafIs
<1> HIDE DEF two, words, y
<1>4. LeafInv' /\ Elements(leaf)' = S \ {y} /\ LeafSize' = LeafSize /\ lop' = <<"TakeBefore", x>> /\ lret' = y
  BY <1>1, <1>2, <1>3, LeafStays
<1>5. lop'[1] = "TakeBefore" /\ lop'[2] = x
  BY <1>4
<1>6. LeafSet!TakeBefore(x)
  BY <1>2, <1>4 DEF LeafSet!TakeBefore, LeafSet!Becomes
<1> QED
  BY <1>4, <1>5, <1>6, LeafSteps

LEMMA FDeleteAllAfterLStep ==
    ASSUME LeafInv, WithinLimits, NEW x \in LeafNumbers, FDeleteAllAfterL(x)
    PROVE  LeafInv' /\ LeafSet!Next
<1> DEFINE S == Elements(leaf)
           cut == FDeleteAllAfterW(leaf.w, x)
           T == {y \in S : y <= x}
<1>1. /\ ~IsTwo /\ (TypeMax > Universe - 1 \/ x # Universe - 1)
      /\ LeafBecomes({}, cut, <<"Truncate", x>>, ~FHasAnyElements(cut))
  BY DEF FDeleteAllAfterL
<1>2. S = Numbers(leaf.w) /\ leaf.w \in Words /\ x \in Els
  BY <1>1, LeafIs
<1>3. cut \in Words /\ \A e \in Els : FHasElementW(cut, e) <=> FHasElementW(leaf.w, e) /\ e <= x
  BY <1>1, <1>2, FDeleteAllAfterWIs
<1>4. Numbers(cut) = T
  BY <1>2, <1>3, HasIsNumber
<1>5. FHasAnyElements(cut) <=> T # {}
  BY <1>3, <1>4, HasAnyIs, HasIsNumber
<1> HIDE DEF cut
<1>6. /\ LeafInv' /\ Elements(leaf)' = T /\ LeafSize' = LeafSize
      /\ lop' = <<"Truncate", x>> /\ lret' = ~FHasAnyElements(cut)
  BY <1>1, <1>3, <1>4, LeafStays
<1>7. lop'[1] = "Truncate" /\ lop'[2] = x
  BY <1>6
<1>8. lret' = (T = {})
  BY <1>5, <1>6
<1>9. LeafSet!Truncate(x)
  BY <1>6, <1>8 DEF LeafSet!Truncate, LeafSet!Becomes
<1> QED
  BY <1>6, <1>7, <1>9, LeafSteps

\* Every word is before, or is, the one that holds the last number.
LEMMA LastWord ==
    ASSUME NEW e \in Els
    PROVE  Universe - 1 \in Els /\ WordOf(e) <= WordOf(Universe - 1) /\ e <= Universe - 1 /\ 0 <= e
<1>1. Universe - 1 \in Els /\ e <= Universe - 1 /\ 0 <= e /\ e \in Nat
  BY Ranges DEF Els
<1>2. WordOf(e) \in Nat
  BY Place DEF WordNos
<1>3. CASE e = Universe - 1
  BY <1>1, <1>2, <1>3
<1>4. CASE e # Universe - 1
  <2>1. e < Universe - 1
    BY <1>1, <1>4, Ranges
  <2> QED
    BY <1>1, <2>1, InOrder
<1> QED
  BY <1>3, <1>4

LEMMA InsertAllLStep ==
    ASSUME LeafInv, InsertAllL
    PROVE  LeafInv' /\ LeafSet!Next
<1> DEFINE words == InsertAllW(leaf.w, 0, Universe - 1)
<1>1. LeafBecomes({0, 1}, words, <<"Fill">>, None)
  BY DEF InsertAllL
<1>2. IsTwo => {0, 1} = LeafNumbers /\ LeafNumbers \subseteq {0, 1}
  BY LeafIs
<1>3. ~IsTwo => words \in Words /\ Numbers(words) = LeafNumbers
  <2> SUFFICES ASSUME ~IsTwo PROVE words \in Words /\ Numbers(words) = Els
    BY LeafIs
  <2>1. leaf.w \in Words /\ Universe - 1 \in Els
    BY LeafIs, Ranges
  <2>2. /\ words \in Words
        /\ \A e \in Els : WordOf(e) <= WordOf(Universe - 1) => (FHasElementW(words, e) <=> 0 <= e /\ e <= Universe - 1)
    BY <2>1, InsertAllWIs
  <2> HIDE DEF words
  <2>3. \A e \in Els : FHasElementW(words, e)
    BY <2>2, LastWord
  <2> QED
    BY <2>2, <2>3, HasIsNumber
<1> HIDE DEF words
<1>4. LeafInv' /\ Elements(leaf)' = LeafNumbers /\ LeafSize' = LeafSize /\ lop' = <<"Fill">> /\ lret' = None
  BY <1>1, <1>2, <1>3, LeafStays
<1>5. lop'[1] = "Fill"
  BY <1>4
<1>6. LeafSet!Becomes(LeafSet!All, None)
  BY <1>4, LeafIs DEF LeafSet!Becomes
<1> QED
  BY <1>4, <1>5, <1>6, LeafSteps

LEMMA ClearLStep ==
    ASSUME LeafInv, ClearL
    PROVE  LeafInv' /\ LeafSet!Next
<1>1. LeafBecomes({}, ZeroWords, <<"Clear">>, None)
  BY DEF ClearL
<1>2. ZeroWords \in Words /\ Numbers(ZeroWords) = {}
  BY ZeroWordsIs, HasIsNumber
<1>3. LeafInv' /\ Elements(leaf)' = {} /\ LeafSize' = LeafSize /\ lop' = <<"Clear">> /\ lret' = None
  BY <1>1, <1>2, LeafStays
<1>4. lop'[1] = "Clear"
  BY <1>3
<1>5. LeafSet!Becomes({}, None)
  BY <1>3 DEF LeafSet!Becomes
<1> QED
  BY <1>3, <1>4, <1>5, LeafSteps

LEMMA BitwiseInvertLStep ==
    ASSUME LeafInv, BitwiseInvertL
    PROVE  LeafInv' /\ LeafSet!Next
<1> DEFINE words == BitwiseInvertW(leaf.w, Universe - 1)
           T == LeafNumbers \ Elements(leaf)
<1>1. LeafBecomes({0, 1} \ leaf.w, words, <<"Invert">>, None)
  BY DEF BitwiseInvertL
<1>2. IsTwo => {0, 1} \ leaf.w = T /\ T \subseteq {0, 1}
  BY LeafIs
<1>3. ~IsTwo => words \in Words /\ Numbers(words) = T
  <2> SUFFICES ASSUME ~IsTwo PROVE words \in Words /\ Numbers(words) = Els \ Numbers(leaf.w)
    BY LeafIs
  <2>1. leaf.w \in Words /\ Universe - 1 \in Els
    BY LeafIs, Ranges
  <2>2. /\ words \in Words
        /\ \A e \in Els : WordOf(e) <= WordOf(Universe - 1) =>
              (FHasElementW(words, e) <=> ~FHasElementW(leaf.w, e) /\ e <= Universe - 1)
    BY <2>1, BitwiseInvertWIs
  <2> HIDE DEF words
  <2>3. \A e \in Els : FHasElementW(words, e) <=> ~FHasElementW(leaf.w, e)
    BY <2>2, LastWord
  <2> QED
    BY <2>2, <2>3, HasIsNumber
<1> HIDE DEF words
<1>4. LeafInv' /\ Elements(leaf)' = T /\ LeafSize' = LeafSize /\ lop' = <<"Invert">> /\ lret' = None
  BY <1>1, <1>2, <1>3, LeafStays
<1>5. lop'[1] = "Invert"
  BY <1>4
<1>6. LeafSet!Becomes(LeafSet!All \ Elements(leaf), None)
  BY <1>4, LeafIs DEF LeafSet!Becomes
<1> QED
  BY <1>4, <1>5, <1>6, LeafSteps

\* The bits of two arrays combined.
LEMMA WordsBoth ==
    ASSUME NEW w \in Words, NEW S, S \subseteq Els
    PROVE  /\ OrW(w, WordsOf(S)) \in Words /\ Numbers(OrW(w, WordsOf(S))) = Numbers(w) \cup S
           /\ AndW(w, WordsOf(S)) \in Words /\ Numbers(AndW(w, WordsOf(S))) = Numbers(w) \cap S
           /\ XorW(w, WordsOf(S)) \in Words
           /\ Numbers(XorW(w, WordsOf(S))) = (Numbers(w) \ S) \cup (S \ Numbers(w))
<1> DEFINE v == WordsOf(S)
<1>1. v \in Words /\ \A e \in Els : FHasElementW(v, e) <=> e \in S
  BY WordsOfIs
<1> HIDE DEF v
<1>2. /\ OrW(w, v) \in Words /\ AndW(w, v) \in Words /\ XorW(w, v) \in Words
      /\ \A e \in Els :
            /\ FHasElementW(OrW(w, v), e) <=> FHasElementW(w, e) \/ FHasElementW(v, e)
            /\ FHasElementW(AndW(w, v), e) <=> FHasElementW(w, e) /\ FHasElementW(v, e)
            /\ FHasElementW(XorW(w, v), e) <=> ~(FHasElementW(w, e) <=> FHasElementW(v, e))
  BY <1>1, BothW
<1>3. Numbers(OrW(w, v)) = Numbers(w) \cup S
  BY <1>1, <1>2, HasIsNumber
<1>4. Numbers(AndW(w, v)) = Numbers(w) \cap S
  BY <1>1, <1>2, HasIsNumber
<1>5. Numbers(XorW(w, v)) = (Numbers(w) \ S) \cup (S \ Numbers(w))
  BY <1>1, <1>2, HasIsNumber
<1> QED
  BY <1>2, <1>3, <1>4, <1>5 DEF v

LEMMA BothLStep ==
    ASSUME LeafInv, NEW S \in SUBSET LeafNumbers, OrL(S) \/ AndL(S) \/ XorL(S)
    PROVE  LeafInv' /\ LeafSet!Next
<1> DEFINE E == Elements(leaf)
<1>1. IsTwo => leaf.w = E /\ E \subseteq {0, 1} /\ S \subseteq {0, 1}
  BY LeafIs
<1>2. ~IsTwo => leaf.w \in Words /\ Numbers(leaf.w) = E /\ S \subseteq Els
  BY LeafIs
<1> HIDE DEF E
<1>3. CASE OrL(S)
  <2>1. LeafBecomes(leaf.w \cup S, OrW(leaf.w, WordsOf(S)), <<"Or", S>>, None)
    BY <1>3 DEF OrL
  <2>2. IsTwo => leaf.w \cup S = E \cup S /\ E \cup S \subseteq {0, 1}
    BY <1>1
  <2>3. ~IsTwo => OrW(leaf.w, WordsOf(S)) \in Words /\ Numbers(OrW(leaf.w, WordsOf(S))) = E \cup S
    BY <1>2, WordsBoth
  <2>4. LeafInv' /\ Elements(leaf)' = E \cup S /\ LeafSize' = LeafSize /\ lop' = <<"Or", S>> /\ lret' = None
    BY <2>1, <2>2, <2>3, LeafStays
  <2>5. lop'[1] = "Or" /\ lop'[2] = S
    BY <2>4
  <2> QED
    BY <2>4, <2>5, LeafSteps DEF LeafSet!Becomes, E
<1>4. CASE AndL(S)
  <2>1. LeafBecomes(leaf.w \cap S, AndW(leaf.w, WordsOf(S)), <<"And", S>>, None)
    BY <1>4 DEF AndL
  <2>2. IsTwo => leaf.w \cap S = E \cap S /\ E \cap S \subseteq {0, 1}
    BY <1>1
  <2>3. ~IsTwo => AndW(leaf.w, WordsOf(S)) \in Words /\ Numbers(AndW(leaf.w, WordsOf(S))) = E \cap S
    BY <1>2, WordsBoth
  <2>4. LeafInv' /\ Elements(leaf)' = E \cap S /\ LeafSize' = LeafSize /\ lop' = <<"And", S>> /\ lret' = None
    BY <2>1, <2>2, <2>3, LeafStays
  <2>5. lop'[1] = "And" /\ lop'[2] = S
    BY <2>4
  <2> QED
    BY <2>4, <2>5, LeafSteps DEF LeafSet!Becomes, E
<1>5. CASE XorL(S)
  <2> DEFINE T == (E \ S) \cup (S \ E)
  <2>1. LeafBecomes((leaf.w \ S) \cup (S \ leaf.w), XorW(leaf.w, WordsOf(S)), <<"Xor", S>>, None)
    BY <1>5 DEF XorL
  <2>2. IsTwo => (leaf.w \ S) \cup (S \ leaf.w) = T /\ T \subseteq {0, 1}
    BY <1>1
  <2>3. ~IsTwo => XorW(leaf.w, WordsOf(S)) \in Words /\ Numbers(XorW(leaf.w, WordsOf(S))) = T
    BY <1>2, WordsBoth
  <2> HIDE DEF T
  <2>4. LeafInv' /\ Elements(leaf)' = T /\ LeafSize' = LeafSize /\ lop' = <<"Xor", S>> /\ lret' = None
    BY <2>1, <2>2, <2>3, LeafStays
  <2>5. lop'[1] = "Xor" /\ lop'[2] = S
    BY <2>4
  <2> QED
    BY <2>4, <2>5, LeafSteps DEF LeafSet!Becomes, E, T
<1> QED
  BY <1>3, <1>4, <1>5

LEMMA NextLeafInv ==
    ASSUME WithinLimits, LeafInv, NextLeaf
    PROVE  LeafInv' /\ LeafSet!Next
<1>1. CASE \E x \in LeafNumbers : InsertL(x)
  BY <1>1, InsertLStep
<1>2. CASE \E x \in LeafNumbers : FCheckInsertL(x)
  BY <1>2, FCheckInsertLStep
<1>3. CASE \E x \in LeafNumbers : DeleteL(x)
  BY <1>3, DeleteLStep
<1>4. CASE \E x \in LeafNumbers : FCheckDeleteL(x)
  BY <1>4, FCheckDeleteLStep
<1>5. CASE \E x \in LeafNumbers : NSuccessorDeleteL(x)
  BY <1>5, NSuccessorDeleteLStep
<1>6. CASE \E x \in LeafNumbers : NPredecessorDeleteL(x)
  BY <1>6, NPredecessorDeleteLStep
<1>7. CASE \E x \in LeafNumbers : FDeleteAllAfterL(x)
  BY <1>7, FDeleteAllAfterLStep
<1>8. CASE InsertAllL
  BY <1>8, InsertAllLStep
<1>9. CASE ClearL
  BY <1>9, ClearLStep
<1>10. CASE BitwiseInvertL
  BY <1>10, BitwiseInvertLStep
<1>11. CASE \E S \in SUBSET LeafNumbers : OrL(S) \/ AndL(S) \/ XorL(S)
  BY <1>11, BothLStep
<1> QED
  BY <1>1, <1>2, <1>3, <1>4, <1>5, <1>6, <1>7, <1>8, <1>9, <1>10, <1>11 DEF NextLeaf

\* A leaf of any width implements a set of numbers, although its searches
\* answer with a number of the universe when they find none: what they answer
\* then is never a true answer (_vebtree.h, NSuccessor and NPredecessor of
\* _VebFixedBase and of VebTreeFixed< 2 >).
THEOREM LeafIsASet ==
    ASSUME WithinLimits
    PROVE  SpecLeaf => LeafRefinement
<1>1. InitLeaf => LeafInv /\ LeafSet!Init
  <2> SUFFICES ASSUME InitLeaf PROVE LeafInv /\ LeafSet!Init
    OBVIOUS
  <2>1. LeafInv
    BY ZeroWordsIs DEF InitLeaf, LeafInv
  <2>2. Elements(leaf) = {}
    BY ZeroWordsIs, HasIsNumber DEF InitLeaf, Elements
  <2>3. LeafSize \in 0 .. Universe - 1 + 1
    BY Ranges DEF LeafSize
  <2> QED
    BY <2>1, <2>2, <2>3 DEF LeafSet!Init, InitLeaf
<1>2. LeafInv /\ [NextLeaf]_leafVars => LeafInv' /\ [LeafSet!Next]_(LeafSet!vars)
  <2> SUFFICES ASSUME LeafInv, [NextLeaf]_leafVars
               PROVE  LeafInv' /\ [LeafSet!Next]_(LeafSet!vars)
    OBVIOUS
  <2>1. CASE NextLeaf
    BY <2>1, NextLeafInv
  <2>2. CASE UNCHANGED leafVars
    BY <2>2 DEF leafVars, LeafInv, LeafSet!vars, Elements, LeafSize, IsTwo
  <2> QED
    BY <2>1, <2>2
<1> QED
  BY <1>1, <1>2, PTL DEF SpecLeaf, LeafRefinement
=============================================================================
