--------------------------- MODULE MemFile_proofs ---------------------------
(***************************************************************************)
(* Whatever the number of threads, the values and the sizes:               *)
(*                                                                         *)
(*   - the mutex of a MemFile guards its array: whoever is between         *)
(*     LockMutex and the end of the lock's scope is there alone, and a     *)
(*     free mutex means that no call has left the array half-written;      *)
(*   - the state is of its type, and the segments of the array back the    *)
(*     bytes it counts (FileInv, which also says how far each call has     *)
(*     got with its chunks);                                               *)
(*   - what a call is given is a piece of one file;                        *)
(*   - the file implements AtomicFile: a call that copies chunk by chunk   *)
(*     takes effect when it lets the mutex go.                             *)
(***************************************************************************)
EXTENDS MemFile, TLAPS

-----------------------------------------------------------------------------
(* Positions and segments. *)

LEMMA DivMod ==
    ASSUME NEW per \in Nat \ {0}, NEW i \in Nat
    PROVE  /\ i \div per \in Nat /\ i % per \in 0..per-1
           /\ i = per * (i \div per) + (i % per)
           /\ per * (i \div per) \in Nat
<1>1. i \div per \in Nat /\ i % per \in 0..per-1 /\ i = per * (i \div per) + (i % per)
  BY SMT
<1>2. \A q \in Nat : per * q \in Nat
  BY SMT
<1> QED
  BY <1>1, <1>2

\* A segment and a place in it determine the position, and the other way round.
LEMMA OnePlace ==
    ASSUME NEW per \in Nat \ {0}, NEW i \in Nat, NEW s \in Nat, NEW k \in 0..per-1, i = per * s + k
    PROVE  i \div per = s /\ i % per = k
  BY SMT

\* Positions that stay within a segment.
LEMMA SameSegment ==
    ASSUME NEW per \in Nat \ {0}, NEW at \in Nat, NEW j \in Nat, (at % per) + j < per
    PROVE  (at + j) \div per = at \div per /\ (at + j) % per = (at % per) + j
<1>1. PICK q \in Nat, m \in 0..per-1 : q = at \div per /\ m = at % per /\ at = per * q + m
  BY DivMod
<1>2. m + j \in 0..per-1 /\ at + j \in Nat
  BY <1>1
<1>3. at + j = per * q + (m + j)
  <2>1. per * q \in Nat
    BY <1>1
  <2> QED
    BY <1>1, <2>1
<1>4. (at + j) \div per = q /\ (at + j) % per = m + j
  BY <1>2, <1>3
<1> QED
  BY <1>1, <1>4

LEMMA SegmentsInOrder ==
    ASSUME NEW per \in Nat \ {0}, NEW i \in Nat, NEW j \in Nat, i <= j
    PROVE  i \div per <= j \div per
  BY SMT

LEMMA BackOffBounds ==
    ASSUME NEW per \in Nat \ {0}, NEW end \in Nat \ {0}
    PROVE  BackOff(per, end) \in 1..per
<1>1. PICK e \in Nat : e = end - 1
  OBVIOUS
<1>2. e % per \in 0..per-1
  BY DivMod
<1>3. BackOff(per, end) = (e % per) + 1
  BY <1>1, Zenon DEF BackOff
<1> QED
  BY <1>2, <1>3

\* A chunk that ends at "end" and is no longer than BackOff lies in one segment.
LEMMA ChunkFits ==
    ASSUME NEW per \in Nat \ {0}, NEW end \in Nat \ {0}, NEW len \in Nat, len <= BackOff(per, end)
    PROVE  /\ BackOff(per, end) \in 1..per /\ BackOff(per, end) <= end
           /\ end - len \in Nat
           /\ len > 0 => ((end - len) % per) + len <= per /\ (end - len) \div per = (end - 1) \div per
<1>1. PICK q \in Nat, m \in 0..per-1 :
          q = (end - 1) \div per /\ m = (end - 1) % per /\ end - 1 = per * q + m
  <2>1. PICK e \in Nat : e = end - 1
    OBVIOUS
  <2>2. e \div per \in Nat /\ e % per \in 0..per-1 /\ e = per * (e \div per) + (e % per)
    BY DivMod
  <2> QED
    BY <2>1, <2>2, Zenon
<1>2. BackOff(per, end) = m + 1
  BY <1>1 DEF BackOff
<1>3. per * q \in Nat
  BY <1>1
<1>4. BackOff(per, end) \in 1..per /\ BackOff(per, end) <= end /\ end - len \in Nat
  BY <1>1, <1>2, <1>3
<1>5. ASSUME len > 0 PROVE ((end - len) % per) + len <= per /\ (end - len) \div per = q
  <2>1. m + 1 - len \in 0..per-1
    BY <1>1, <1>2, <1>5
  <2>2. end - len = per * q + (m + 1 - len)
    BY <1>1, <1>3
  <2>3. (end - len) \div per = q /\ (end - len) % per = m + 1 - len
    BY <1>4, <2>1, <2>2
  <2> QED
    BY <1>1, <2>3
<1> QED
  BY <1>1, <1>4, <1>5

-----------------------------------------------------------------------------
(* Arrays of plain memory. *)

SegOf(sa, i) == i \div sa.per
PlaceOf(sa, i) == i % sa.per

\* A well-formed array with cells in V: its first n elements are in segments
\* that are there.
Shaped(sa, V) ==
    /\ sa = [seg |-> sa.seg, blocks |-> sa.blocks, n |-> sa.n, per |-> sa.per]
    /\ sa.per \in Nat \ {0} /\ sa.blocks \in Nat /\ sa.n \in Nat
    /\ sa.seg \in [0..sa.blocks-1 -> [0..sa.per-1 -> V] \cup {Null}]
    /\ \A i \in 0..sa.n-1 :
          SegOf(sa, i) \in 0..sa.blocks-1 /\ sa.seg[SegOf(sa, i)] \in [0..sa.per-1 -> V]

LEMMA Places ==
    ASSUME NEW sa, sa.per \in Nat \ {0}, NEW i \in Nat
    PROVE  /\ SegOf(sa, i) \in Nat /\ PlaceOf(sa, i) \in 0..sa.per-1
           /\ Cell(sa, i) = sa.seg[SegOf(sa, i)][PlaceOf(sa, i)]
  BY DivMod DEF SegOf, PlaceOf, Cell

\* The same in numbers: where the segment of a position begins.
LEMMA SegmentStart ==
    ASSUME NEW sa, sa.per \in Nat \ {0}, NEW i \in Nat
    PROVE  /\ SegOf(sa, i) \in Nat /\ PlaceOf(sa, i) \in 0..sa.per-1
           /\ sa.per * SegOf(sa, i) \in Nat /\ i = sa.per * SegOf(sa, i) + PlaceOf(sa, i)
<1>1. PICK per \in Nat \ {0} : per = sa.per
  OBVIOUS
<1>2. /\ i \div per \in Nat /\ i % per \in 0..per-1
      /\ i = per * (i \div per) + (i % per)
      /\ per * (i \div per) \in Nat
  BY <1>1, DivMod
<1> QED
  BY <1>1, <1>2, Zenon DEF SegOf, PlaceOf

LEMMA EmptyShaped ==
    ASSUME NEW V, NEW per \in Nat \ {0}
    PROVE  Shaped(Empty(per), V) /\ Empty(per).n = 0 /\ Empty(per).per = per
  BY DEF Shaped, Empty

\* The elements of an array, as a sequence.
LEMMA ElementsOf ==
    ASSUME NEW V, NEW sa, Shaped(sa, V)
    PROVE  /\ Elements(sa) \in Seq(V) /\ Len(Elements(sa)) = sa.n
           /\ \A k \in 1..sa.n : Elements(sa)[k] = Cell(sa, k - 1)
<1>1. Elements(sa) = [k \in 1..sa.n |-> Cell(sa, k - 1)]
  BY DEF Elements, Load, Shaped
<1>2. ASSUME NEW k \in 1..sa.n PROVE Cell(sa, k - 1) \in V
  <2>1. k - 1 \in Nat /\ k - 1 \in 0..sa.n-1
    BY DEF Shaped
  <2> QED
    BY <2>1, Places, SMTT(60) DEF Shaped
<1> QED
  BY <1>1, <1>2, SMTT(60) DEF Shaped

\* vals are where they were stored, and all else is as it was.
Stored(st, sa, at, vals) ==
    \A i \in 0..sa.n-1 :
        Cell(st, i) = IF i \in at..at+Len(vals)-1 THEN vals[i - at + 1] ELSE Cell(sa, i)

\* A store within one segment changes the cells it names and no other.
LEMMA StoreEffect ==
    ASSUME NEW V, NEW sa, Shaped(sa, V),
           NEW at \in Nat, NEW vals \in Seq(V), Len(vals) > 0,
           PlaceOf(sa, at) + Len(vals) <= sa.per, at + Len(vals) <= sa.n,
           NEW st, st = Store(sa, at, vals)
    PROVE  /\ Shaped(st, V) /\ st.n = sa.n /\ st.per = sa.per
           /\ Stored(st, sa, at, vals)
<1> DEFINE L == Len(vals)
<1>0. L \in Nat /\ L > 0 /\ \A j \in 1..L : vals[j] \in V
  OBVIOUS
<1>a. sa.per \in Nat \ {0} /\ sa.n \in Nat /\ at \in 0..sa.n-1
  BY <1>0 DEF Shaped
<1>1. PICK s \in Nat, m \in 0..sa.per-1, p \in Nat :
          s = SegOf(sa, at) /\ m = PlaceOf(sa, at) /\ p = sa.per * s /\ at = p + m
  <2>1. /\ SegOf(sa, at) \in Nat /\ PlaceOf(sa, at) \in 0..sa.per-1
        /\ sa.per * SegOf(sa, at) \in Nat /\ at = sa.per * SegOf(sa, at) + PlaceOf(sa, at)
    BY <1>a, SegmentStart
  <2> QED
    BY <2>1, Zenon
<1>b. s \in Nat /\ m \in 0..sa.per-1 /\ p \in Nat /\ at = p + m
  BY <1>1
<1>2. m + L <= sa.per /\ s \in 0..sa.blocks-1 /\ sa.seg[s] \in [0..sa.per-1 -> V]
  BY <1>a, <1>1 DEF Shaped
<1> DEFINE new == [k \in 0..sa.per-1 |-> IF k - m + 1 \in 1..L THEN vals[k - m + 1] ELSE sa.seg[s][k]]
<1>3. st = [seg |-> [sa.seg EXCEPT ![s] = new], blocks |-> sa.blocks, n |-> sa.n, per |-> sa.per]
  <2>1. st = [sa EXCEPT !.seg = [sa.seg EXCEPT ![s] = new]]
    BY <1>1 DEF Store, SegOf, PlaceOf
  <2> HIDE DEF new
  <2> QED
    BY <2>1 DEF Shaped
<1>4. new \in [0..sa.per-1 -> V]
  BY <1>0, <1>1, <1>2 DEF Shaped
<1> HIDE DEF new
<1>5. /\ st.n = sa.n /\ st.per = sa.per /\ st.blocks = sa.blocks
      /\ st.seg = [sa.seg EXCEPT ![s] = new]
  BY <1>3
<1>6. \A i : SegOf(st, i) = SegOf(sa, i) /\ PlaceOf(st, i) = PlaceOf(sa, i)
  BY <1>5 DEF SegOf, PlaceOf
<1>7. Shaped(st, V)
  <2>1. st = [seg |-> st.seg, blocks |-> st.blocks, n |-> st.n, per |-> st.per]
    BY <1>3
  <2>2. st.seg \in [0..sa.blocks-1 -> [0..sa.per-1 -> V] \cup {Null}]
    BY <1>2, <1>4, <1>5 DEF Shaped
  <2>3. ASSUME NEW i \in 0..sa.n-1
        PROVE  SegOf(sa, i) \in 0..sa.blocks-1 /\ st.seg[SegOf(sa, i)] \in [0..sa.per-1 -> V]
    BY <1>2, <1>4, <1>5 DEF Shaped
  <2> QED
    BY <1>5, <1>6, <2>1, <2>2, <2>3 DEF Shaped
<1>8. ASSUME NEW i \in 0..sa.n-1
      PROVE  Cell(st, i) = IF i \in at..at+L-1 THEN vals[i - at + 1] ELSE Cell(sa, i)
  <2>0. i \in Nat
    BY <1>a
  <2>1. PICK q \in Nat, k \in 0..sa.per-1, r \in Nat :
            q = SegOf(sa, i) /\ k = PlaceOf(sa, i) /\ r = sa.per * q /\ i = r + k
    <3>1. /\ SegOf(sa, i) \in Nat /\ PlaceOf(sa, i) \in 0..sa.per-1
          /\ sa.per * SegOf(sa, i) \in Nat /\ i = sa.per * SegOf(sa, i) + PlaceOf(sa, i)
      BY <1>a, <2>0, SegmentStart
    <3> QED
      BY <3>1, Zenon
  <2>a. q \in Nat /\ k \in 0..sa.per-1 /\ r \in Nat /\ i = r + k
    BY <2>1
  <2>2. q \in 0..sa.blocks-1 /\ Cell(sa, i) = sa.seg[q][k]
    <3>1. i \in Nat
      BY DEF Shaped
    <3> QED
      BY <2>1, <3>1, Places DEF Shaped
  <2>3. Cell(st, i) = st.seg[q][k]
    <3>1. st.per = sa.per
      BY <1>5
    <3> QED
      BY <2>1, <3>1, Zenon DEF Cell, SegOf, PlaceOf
  <2>4. CASE q = s
    <3>1. Cell(st, i) = new[k]
      BY <1>2, <1>5, <2>2, <2>3, <2>4 DEF Shaped
    <3>2. i - at = k - m
      <4>1. r = p
        BY <1>1, <2>1, <2>4
      <4> QED
        BY <1>a, <1>b, <2>0, <2>a, <4>1
    <3>3. i \in at..at+L-1 <=> k - m + 1 \in 1..L
      <4>1. i \in Int /\ at \in Int /\ k \in Int /\ m \in Int /\ L \in Nat
        BY <1>0, <1>1, <2>1, SMTT(60)
      <4> HIDE DEF L
      <4> QED
        BY <3>2, <4>1
    <3>4. i - at + 1 = k - m + 1
      BY <3>2
    <3> QED
      BY <2>1, <2>2, <2>4, <3>1, <3>3, <3>4 DEF new
  <2>5. CASE q # s
    <3>1. Cell(st, i) = sa.seg[q][k]
      BY <1>2, <1>5, <2>2, <2>3, <2>5 DEF Shaped
    <3>2. i \notin at..at+L-1
      <4>1. SUFFICES ASSUME i \in at..at+L-1 PROVE q = s
        BY <2>5
      <4>2. PICK j \in 0..sa.per-1 : i = p + j
        <5>1. i - at + m \in 0..sa.per-1 /\ i = p + (i - at + m)
          BY <1>0, <1>a, <1>b, <1>2, <2>0, <4>1
        <5> QED
          BY <5>1
      <4>3. i = sa.per * s + j
        BY <1>1, <4>2
      <4>4. i \div sa.per = s
        BY <1>a, <2>0, <4>3, OnePlace
      <4> QED
        BY <2>1, <4>4 DEF SegOf
    <3> QED
      BY <2>2, <3>1, <3>2
  <2> QED
    BY <2>4, <2>5
<1> QED
  BY <1>5, <1>7, <1>8 DEF Stored

-----------------------------------------------------------------------------
(* Making room. *)

\* Arrays are records of four fields.
LEMMA FieldsChanged ==
    ASSUME NEW sa, sa = [seg |-> sa.seg, blocks |-> sa.blocks, n |-> sa.n, per |-> sa.per],
           NEW g, NEW k, NEW m
    PROVE  /\ [sa EXCEPT !.seg = g] = [seg |-> g, blocks |-> sa.blocks, n |-> sa.n, per |-> sa.per]
           /\ [sa EXCEPT !.n = m] = [seg |-> sa.seg, blocks |-> sa.blocks, n |-> m, per |-> sa.per]
           /\ [sa EXCEPT !.blocks = k, !.seg = g]
                 = [seg |-> g, blocks |-> k, n |-> sa.n, per |-> sa.per]
<1>1. PICK g0, k0, m0, p0 : sa = [seg |-> g0, blocks |-> k0, n |-> m0, per |-> p0]
  OBVIOUS
<1>2. [sa EXCEPT !.seg = g] = [seg |-> g, blocks |-> k0, n |-> m0, per |-> p0]
  BY <1>1
<1>3. [sa EXCEPT !.n = m] = [seg |-> g0, blocks |-> k0, n |-> m, per |-> p0]
  BY <1>1
<1>4. [sa EXCEPT !.blocks = k, !.seg = g] = [seg |-> g, blocks |-> k, n |-> m0, per |-> p0]
  <2>1. [sa EXCEPT !.blocks = k, !.seg = g] = [[sa EXCEPT !.blocks = k] EXCEPT !.seg = g]
    OBVIOUS
  <2>2. [sa EXCEPT !.blocks = k] = [seg |-> g0, blocks |-> k, n |-> m0, per |-> p0]
    BY <1>1
  <2>3. [[seg |-> g0, blocks |-> k, n |-> m0, per |-> p0] EXCEPT !.seg = g]
          = [seg |-> g, blocks |-> k, n |-> m0, per |-> p0]
    OBVIOUS
  <2> QED
    BY <2>1, <2>2, <2>3, Zenon
<1> QED
  BY <1>1, <1>2, <1>3, <1>4

\* The array b has what sa had, in the same places, and perhaps more memory.
Extends(b, sa, V) ==
    /\ b = [seg |-> b.seg, blocks |-> b.blocks, n |-> sa.n, per |-> sa.per]
    /\ b.blocks \in Nat /\ b.blocks >= sa.blocks
    /\ b.seg \in [0..b.blocks-1 -> [0..sa.per-1 -> V] \cup {Null}]
    /\ \A s \in 0..sa.blocks-1 : sa.seg[s] # Null => b.seg[s] = sa.seg[s]

\* Adding to what was lost leaves the array and the result of an outcome alone.
LEMMA LostAdded ==
    ASSUME NEW o, o = [sa |-> o.sa, res |-> o.res, lost |-> o.lost], NEW x
    PROVE  [o EXCEPT !.lost = x] = [sa |-> o.sa, res |-> o.res, lost |-> x]
<1>1. PICK a, b, c : o = [sa |-> a, res |-> b, lost |-> c]
  OBVIOUS
<1>2. [o EXCEPT !.lost = x] = [sa |-> a, res |-> b, lost |-> x]
  BY <1>1
<1> QED
  BY <1>1, <1>2

LEMMA BlockEffect ==
    ASSUME NEW V, NEW sa, Shaped(sa, V), NEW more \in Nat,
           NEW o \in AllocNewSegmentPointerBlock(sa, more)
    PROVE  /\ Extends(o.sa, sa, V)
           /\ o = [sa |-> o.sa, res |-> o.res, lost |-> o.lost]
           /\ o.res \in {"ok", "throw"}
           /\ o.res = "ok" => o.sa.blocks = sa.blocks + more
<1>1. CASE o = Thrown(sa)
  BY <1>1 DEF Thrown, Extends, Shaped
<1> DEFINE new == [s \in 0..sa.blocks+more-1 |-> IF s < sa.blocks THEN sa.seg[s] ELSE Null]
           b == [sa EXCEPT !.blocks = sa.blocks + more, !.seg = new]
<1>2. CASE o = Done(b)
  <2>1. b = [seg |-> new, blocks |-> sa.blocks + more, n |-> sa.n, per |-> sa.per]
    <3> HIDE DEF new
    <3> QED
      BY FieldsChanged DEF Shaped
  <2>2. new \in [0..sa.blocks+more-1 -> [0..sa.per-1 -> V] \cup {Null}]
    BY DEF Shaped
  <2>3. \A s \in 0..sa.blocks-1 : new[s] = sa.seg[s]
    BY DEF Shaped
  <2>4. o.sa = b /\ o.res = "ok" /\ o = [sa |-> o.sa, res |-> o.res, lost |-> o.lost]
    BY <1>2 DEF Done
  <2> HIDE DEF new, b
  <2> QED
    BY <2>1, <2>2, <2>3, <2>4 DEF Extends, Shaped
<1> QED
  BY <1>1, <1>2 DEF AllocNewSegmentPointerBlock

LEMMA SegmentsEffect ==
    ASSUME NEW V, Raw \in V, NEW sa, sa.per \in Nat \ {0}, sa.n \in Nat, Null \notin [0..sa.per-1 -> V],
           Extends(sa, sa, V), NEW from \in Nat, NEW to \in Nat, to <= sa.blocks,
           NEW o \in AllocSegments(sa, from, to)
    PROVE  /\ Extends(o.sa, sa, V) /\ o.sa.blocks = sa.blocks
           /\ o = [sa |-> o.sa, res |-> o.res, lost |-> o.lost]
           /\ o.res \in {"ok", "throw"}
           /\ o.res = "ok" => \A s \in from..to-1 : o.sa.seg[s] # Null
<1> DEFINE filled(k) == [s \in 0..sa.blocks-1 |->
                            IF s \in from..k-1 /\ sa.seg[s] = Null THEN FreshSegment(sa.per) ELSE sa.seg[s]]
           with(k) == [sa EXCEPT !.seg = filled(k)]
<1>1. FreshSegment(sa.per) \in [0..sa.per-1 -> V] /\ FreshSegment(sa.per) # Null
  BY DEF FreshSegment
<1>2. ASSUME NEW k \in Int
      PROVE  /\ Extends(with(k), sa, V) /\ with(k).blocks = sa.blocks /\ with(k).seg = filled(k)
  <2>1. with(k) = [seg |-> filled(k), blocks |-> sa.blocks, n |-> sa.n, per |-> sa.per]
    <3> HIDE DEF filled
    <3> QED
      BY FieldsChanged DEF Extends
  <2>2. filled(k) \in [0..sa.blocks-1 -> [0..sa.per-1 -> V] \cup {Null}]
    BY <1>1 DEF Extends
  <2>3. \A s \in 0..sa.blocks-1 : sa.seg[s] # Null => filled(k)[s] = sa.seg[s]
    OBVIOUS
  <2> HIDE DEF filled, with
  <2> QED
    BY <2>1, <2>2, <2>3 DEF Extends
<1>3. CASE o = Done(with(to))
  <2>1. o.sa = with(to) /\ o.res = "ok" /\ o = [sa |-> o.sa, res |-> o.res, lost |-> o.lost]
    BY <1>3 DEF Done
  <2>2. \A s \in from..to-1 : filled(to)[s] # Null
    BY <1>1 DEF Extends
  <2> HIDE DEF filled, with
  <2> QED
    BY <1>2, <2>1, <2>2
<1>4. CASE \E k \in {s \in from..to-1 : sa.seg[s] = Null} : o = Thrown(with(k))
  <2>1. PICK k \in {s \in from..to-1 : sa.seg[s] = Null} : o = Thrown(with(k))
    BY <1>4
  <2>a. k \in Int
    OBVIOUS
  <2>2. o.sa = with(k) /\ o.res = "throw" /\ o = [sa |-> o.sa, res |-> o.res, lost |-> o.lost]
    BY <2>1 DEF Thrown
  <2> HIDE DEF filled, with
  <2> QED
    BY <1>2, <2>2, <2>a
<1> QED
  BY <1>3, <1>4 DEF AllocSegments

\* What is shaped extends itself, and what extends it keeps its elements.
LEMMA ExtendsSelf ==
    ASSUME NEW V, NEW sa, Shaped(sa, V)
    PROVE  Extends(sa, sa, V)
  BY DEF Extends, Shaped

LEMMA ExtendsKeeps ==
    ASSUME NEW V, NEW sa, Shaped(sa, V), Null \notin [0..sa.per-1 -> V], NEW b, Extends(b, sa, V)
    PROVE  /\ Shaped(b, V) /\ b.n = sa.n /\ b.per = sa.per
           /\ \A i \in 0..sa.n-1 : Cell(b, i) = Cell(sa, i)
<1>1. /\ b.n = sa.n /\ b.per = sa.per
      /\ b = [seg |-> b.seg, blocks |-> b.blocks, n |-> b.n, per |-> b.per]
  BY DEF Extends
<1>2. ASSUME NEW i \in 0..sa.n-1
      PROVE  /\ SegOf(b, i) \in 0..b.blocks-1 /\ b.seg[SegOf(b, i)] \in [0..sa.per-1 -> V]
             /\ Cell(b, i) = Cell(sa, i)
  <2>1. SegOf(b, i) = SegOf(sa, i) /\ PlaceOf(b, i) = PlaceOf(sa, i)
    BY <1>1 DEF SegOf, PlaceOf
  <2>2. SegOf(sa, i) \in 0..sa.blocks-1 /\ sa.seg[SegOf(sa, i)] \in [0..sa.per-1 -> V]
    BY DEF Shaped
  <2>3. sa.seg[SegOf(sa, i)] # Null
    BY <2>2
  <2>4. b.seg[SegOf(sa, i)] = sa.seg[SegOf(sa, i)]
    BY <2>2, <2>3 DEF Extends
  <2>5. SegOf(sa, i) \in 0..b.blocks-1
    BY <2>2 DEF Extends, Shaped
  <2>6. sa.per \in Nat \ {0} /\ i \in Nat
    BY DEF Shaped
  <2> QED
    BY <1>1, <2>1, <2>2, <2>4, <2>5, <2>6, Places
<1> QED
  BY <1>1, <1>2 DEF Shaped, Extends

LEMMA ExtendsTransitive ==
    ASSUME NEW V, NEW sa, sa.blocks \in Nat, NEW b, NEW c, Extends(b, sa, V), Extends(c, b, V)
    PROVE  Extends(c, sa, V)
<1>1. /\ b.n = sa.n /\ b.per = sa.per /\ b.blocks \in Nat /\ b.blocks >= sa.blocks
      /\ \A s \in 0..sa.blocks-1 : sa.seg[s] # Null => b.seg[s] = sa.seg[s]
  BY DEF Extends
<1>2. /\ c = [seg |-> c.seg, blocks |-> c.blocks, n |-> b.n, per |-> b.per]
      /\ c.blocks \in Nat /\ c.blocks >= b.blocks
      /\ c.seg \in [0..c.blocks-1 -> [0..b.per-1 -> V] \cup {Null}]
      /\ \A s \in 0..b.blocks-1 : b.seg[s] # Null => c.seg[s] = b.seg[s]
  BY DEF Extends
<1>3. \A s \in 0..sa.blocks-1 : s \in 0..b.blocks-1
  BY <1>1
<1>4. \A s \in 0..sa.blocks-1 : sa.seg[s] # Null => c.seg[s] = sa.seg[s]
  BY <1>1, <1>2, <1>3
<1>5. c.blocks >= sa.blocks
  BY <1>1, <1>2
<1> QED
  BY <1>1, <1>2, <1>4, <1>5 DEF Extends

\* Room for "end" elements: the segments up to the last one needed are there.
LEMMA Enlarged ==
    ASSUME NEW V, NEW sa, Shaped(sa, V), Null \notin [0..sa.per-1 -> V],
           NEW b, Extends(b, sa, V), NEW end \in Nat, end > sa.n,
           ((end - 1) \div sa.per) + 1 <= b.blocks,
           \A s \in (sa.n \div sa.per)..((end - 1) \div sa.per) : b.seg[s] # Null
    PROVE  LET e == [b EXCEPT !.n = end]
           IN  /\ Shaped(e, V) /\ e.per = sa.per /\ e.n = end
               /\ \A i \in 0..sa.n-1 : Cell(e, i) = Cell(sa, i)
<1> DEFINE e == [b EXCEPT !.n = end]
<1>1. sa.per \in Nat \ {0} /\ sa.n \in Nat
  BY DEF Shaped
<1>2. /\ Shaped(b, V) /\ b.n = sa.n /\ b.per = sa.per
      /\ \A i \in 0..sa.n-1 : Cell(b, i) = Cell(sa, i)
  BY ExtendsKeeps
<1>3. e = [seg |-> b.seg, blocks |-> b.blocks, n |-> end, per |-> sa.per]
  BY <1>2, FieldsChanged, ZenonT(60) DEF Shaped
<1>4. e.seg = b.seg /\ e.blocks = b.blocks /\ e.n = end /\ e.per = sa.per
  BY <1>3
<1>5. \A i : SegOf(e, i) = SegOf(b, i) /\ PlaceOf(e, i) = PlaceOf(b, i) /\ Cell(e, i) = Cell(b, i)
  BY <1>2, <1>4 DEF SegOf, PlaceOf, Cell
<1>6. ASSUME NEW i \in 0..end-1
      PROVE  SegOf(b, i) \in 0..b.blocks-1 /\ b.seg[SegOf(b, i)] \in [0..sa.per-1 -> V]
  <2>0. i \in Nat
    OBVIOUS
  <2>1. CASE i < sa.n
    <3>1. i \in 0..sa.n-1
      BY <1>1, <2>0, <2>1
    <3> QED
      BY <1>2, <3>1 DEF Shaped
  <2>2. CASE i >= sa.n
    <3>1. PICK x \in Nat : x = end - 1
      BY <1>1
    <3>2. PICK first \in Nat, q \in Nat, last \in Nat :
              first = sa.n \div sa.per /\ q = i \div sa.per /\ last = x \div sa.per
      <4>1. sa.n \div sa.per \in Nat /\ x \div sa.per \in Nat
        BY <1>1, DivMod
      <4>2. i \div sa.per \in Nat
        BY <1>1, <2>0, DivMod
      <4> QED
        BY <4>1, <4>2
    <3>3. first <= q /\ q <= last
      <4>1. sa.n <= i /\ i <= x
        BY <1>1, <2>2, <3>1
      <4>2. sa.n \div sa.per <= i \div sa.per
        BY <1>1, <2>0, <4>1, SegmentsInOrder
      <4>3. i \div sa.per <= x \div sa.per
        BY <1>1, <2>0, <4>1, SegmentsInOrder
      <4> QED
        BY <3>2, <4>2, <4>3, Zenon
    <3>4. last = (end - 1) \div sa.per
      BY <3>1, <3>2, Zenon
    <3>5. last + 1 <= b.blocks /\ b.seg[q] # Null
      BY <3>2, <3>3, <3>4
    <3>6. q \in 0..b.blocks-1
      BY <1>2, <3>2, <3>3, <3>5 DEF Shaped
    <3>7. b.seg[q] \in [0..sa.per-1 -> V]
      BY <1>2, <3>5, <3>6 DEF Shaped
    <3>8. SegOf(b, i) = q
      BY <1>2, <3>2, Zenon DEF SegOf
    <3> QED
      BY <3>6, <3>7, <3>8
  <2> QED
    BY <1>1, <2>0, <2>1, <2>2
<1> HIDE DEF e
<1>7. Shaped(e, V)
  <2>1. e = [seg |-> e.seg, blocks |-> e.blocks, n |-> e.n, per |-> e.per]
    BY <1>3, <1>4
  <2>2. e.blocks \in Nat /\ e.n \in Nat /\ e.per \in Nat \ {0}
    BY <1>1, <1>2, <1>4 DEF Shaped
  <2>3. e.seg \in [0..e.blocks-1 -> [0..e.per-1 -> V] \cup {Null}]
    BY <1>2, <1>4 DEF Shaped
  <2>4. \A i \in 0..e.n-1 : SegOf(e, i) \in 0..e.blocks-1 /\ e.seg[SegOf(e, i)] \in [0..e.per-1 -> V]
    BY <1>4, <1>5, <1>6
  <2> QED
    BY <2>1, <2>2, <2>3, <2>4 DEF Shaped
<1> QED
  BY <1>2, <1>4, <1>5, <1>7 DEF e

\* All there is to know of Room: it ends with the elements as they were, and
\* with memory for as many as were asked for or with an exception.
LEMMA RoomEffect ==
    ASSUME ~OwnLifetime, NEW V, Raw \in V, NEW sa, Shaped(sa, V), Null \notin [0..sa.per-1 -> V],
           NEW end \in Nat, NEW o \in Room(sa, end)
    PROVE  /\ Shaped(o.sa, V) /\ o.sa.per = sa.per
           /\ o.res \in {"ok", "throw"}
           /\ o.sa.n = IF o.res = "ok" /\ end > sa.n THEN end ELSE sa.n
           /\ \A i \in 0..sa.n-1 : Cell(o.sa, i) = Cell(sa, i)
<1>0. sa.n \in Nat /\ sa.blocks \in Nat /\ sa.per \in Nat \ {0} /\ NewBlocksMin \in Nat \ {0}
  BY OpsAssumption DEF Shaped
<1>1. CASE end <= sa.n
  <2>1. ~(end > sa.n)
    BY <1>0, <1>1
  <2>2. o = Done(sa)
    BY <2>1, Zenon DEF Room
  <2> QED
    BY <1>0, <1>1, <2>2 DEF Done
<1>2. CASE end > sa.n
  <2>0. end > sa.n /\ ~(end < sa.n) /\ end # sa.n
    BY <1>0, <1>2
  <2>1. o \in GrowMemory(sa, end, FALSE)
    BY <2>0, Zenon DEF Room, SetSize
  <2> DEFINE needed == ((end - 1) \div sa.per) + 1
             more == needed - sa.blocks
             nb == IF ~FALSE /\ more < NewBlocksMin THEN NewBlocksMin ELSE more
             A == IF more > 0 THEN AllocNewSegmentPointerBlock(sa, nb) ELSE {Done(sa)}
             B == Then(A, LAMBDA b : AllocSegments(b, b.n \div b.per, needed))
  <2>2. o \in Then(B, LAMBDA b : MaybeCompact([b EXCEPT !.n = end], FALSE /\ more <= 0))
    BY <2>1, Zenon DEF GrowMemory
  <2>3. PICK o2 \in B : o \in IF o2.res = "ok"
                              THEN {[p EXCEPT !.lost = @ \cup o2.lost] : p \in MaybeCompact([o2.sa EXCEPT !.n = end], FALSE /\ more <= 0)}
                              ELSE {o2}
    <3> HIDE DEF B, more
    <3> QED
      BY <2>2, Zenon DEF Then
  <2>4. PICK o1 \in A : o2 \in IF o1.res = "ok"
                               THEN {[p EXCEPT !.lost = @ \cup o1.lost] :
                                        p \in AllocSegments(o1.sa, o1.sa.n \div o1.sa.per, needed)}
                               ELSE {o1}
    <3> HIDE DEF A, needed
    <3> QED
      BY <2>3, Zenon DEF Then, B
  <2>5. PICK first \in Nat, last \in Nat : first = sa.n \div sa.per /\ last = (end - 1) \div sa.per
    <3>1. PICK x \in Nat : x = end - 1
      BY <1>0, <2>0
    <3>2. sa.n \div sa.per \in Nat /\ x \div sa.per \in Nat
      BY <1>0, DivMod
    <3> QED
      BY <3>1, <3>2
  <2>6. needed = last + 1
    BY <2>5, Zenon
  <2>7. /\ Extends(o1.sa, sa, V) /\ o1 = [sa |-> o1.sa, res |-> o1.res, lost |-> o1.lost]
        /\ o1.res \in {"ok", "throw"}
        /\ o1.res = "ok" => needed <= o1.sa.blocks
    <3>1. CASE more > 0
      <4>1. nb \in Nat /\ nb >= more
        <5> HIDE DEF needed
        <5> QED
          BY <1>0, <2>5, <2>6, <3>1, SMTT(60)
      <4>2. o1 \in AllocNewSegmentPointerBlock(sa, nb)
        <5> HIDE DEF more, nb
        <5> QED
          BY <2>4, <3>1, Zenon
      <4> HIDE DEF nb, needed
      <4>3. /\ Extends(o1.sa, sa, V) /\ o1 = [sa |-> o1.sa, res |-> o1.res, lost |-> o1.lost]
            /\ o1.res \in {"ok", "throw"}
            /\ o1.res = "ok" => o1.sa.blocks = sa.blocks + nb
        BY <4>1, <4>2, BlockEffect
      <4>4. needed \in Int /\ more = needed - sa.blocks
        BY <2>5, <2>6
      <4> HIDE DEF more
      <4>5. o1.res = "ok" => needed <= o1.sa.blocks
        BY <1>0, <4>1, <4>3, <4>4
      <4> QED
        BY <4>3, <4>5
    <3>2. CASE ~(more > 0)
      <4>1. o1 = Done(sa)
        <5> HIDE DEF more, nb
        <5> QED
          BY <2>4, <3>2, Zenon
      <4>2. o1.sa = sa /\ o1.res = "ok" /\ o1 = [sa |-> o1.sa, res |-> o1.res, lost |-> o1.lost]
        BY <4>1 DEF Done
      <4>3. needed <= sa.blocks
        <5> HIDE DEF needed
        <5> QED
          BY <1>0, <2>5, <2>6, <3>2
      <4> QED
        BY <4>2, <4>3, ExtendsSelf
    <3> QED
      BY <3>1, <3>2
  <2> HIDE DEF A, B, needed, more
  <2>8. /\ Extends(o2.sa, sa, V) /\ o2 = [sa |-> o2.sa, res |-> o2.res, lost |-> o2.lost]
        /\ o2.res \in {"ok", "throw"}
        /\ o2.res = "ok" => needed <= o2.sa.blocks /\ \A s \in first..last : o2.sa.seg[s] # Null
    <3>1. CASE o1.res # "ok"
      <4>1. o2 = o1
        BY <2>4, <3>1, Zenon
      <4> QED
        BY <2>7, <3>1, <4>1
    <3>2. CASE o1.res = "ok"
      <4>1. PICK p \in AllocSegments(o1.sa, o1.sa.n \div o1.sa.per, needed) :
                o2 = [p EXCEPT !.lost = p.lost \cup o1.lost]
        BY <2>4, <3>2, Zenon
      <4>2. o1.sa.n = sa.n /\ o1.sa.per = sa.per /\ o1.sa.blocks \in Nat
        BY <2>7 DEF Extends
      <4>3. p \in AllocSegments(o1.sa, first, needed)
        BY <2>5, <4>1, <4>2, Zenon
      <4>4. Extends(o1.sa, o1.sa, V)
        BY <1>0, <2>7, <4>2 DEF Extends
      <4>5. /\ Extends(p.sa, o1.sa, V) /\ p.sa.blocks = o1.sa.blocks
            /\ p = [sa |-> p.sa, res |-> p.res, lost |-> p.lost]
            /\ p.res \in {"ok", "throw"}
            /\ p.res = "ok" => \A s \in first..needed-1 : p.sa.seg[s] # Null
        <5>1. needed \in Nat /\ needed <= o1.sa.blocks
          BY <2>5, <2>6, <2>7, <3>2
        <5>2. /\ o1.sa.per \in Nat \ {0} /\ o1.sa.n \in Nat
              /\ Null \notin [0..o1.sa.per-1 -> V]
          BY <1>0, <4>2
        <5> QED
          BY <2>5, <4>3, <4>4, <5>1, <5>2, SegmentsEffect, SMTT(60)
      <4>6. o2 = [sa |-> p.sa, res |-> p.res, lost |-> p.lost \cup o1.lost]
        BY <4>1, <4>5, LostAdded
      <4>7. o2.sa = p.sa /\ o2.res = p.res /\ o2 = [sa |-> o2.sa, res |-> o2.res, lost |-> o2.lost]
        BY <4>6
      <4>8. Extends(p.sa, sa, V)
        BY <1>0, <2>7, <4>5, ExtendsTransitive
      <4>9. needed - 1 = last
        BY <2>5, <2>6
      <4> QED
        BY <2>7, <3>2, <4>5, <4>7, <4>8, <4>9
    <3> QED
      BY <3>1, <3>2
  <2>9. CASE o2.res # "ok"
    <3>1. o = o2
      BY <2>3, <2>9, Zenon
    <3> QED
      BY <2>8, <2>9, <3>1, ExtendsKeeps
  <2>10. CASE o2.res = "ok"
    <3>1. \E p \in MaybeCompact([o2.sa EXCEPT !.n = end], FALSE /\ more <= 0) :
              o = [p EXCEPT !.lost = p.lost \cup o2.lost]
      BY <2>3, <2>10, Zenon
    <3>2. PICK p : p = Done([o2.sa EXCEPT !.n = end]) /\ o = [p EXCEPT !.lost = p.lost \cup o2.lost]
      BY <3>1, Zenon DEF MaybeCompact
    <3>3. /\ Shaped([o2.sa EXCEPT !.n = end], V) /\ [o2.sa EXCEPT !.n = end].per = sa.per
          /\ [o2.sa EXCEPT !.n = end].n = end
          /\ \A i \in 0..sa.n-1 : Cell([o2.sa EXCEPT !.n = end], i) = Cell(sa, i)
      <4>1. ((end - 1) \div sa.per) + 1 <= o2.sa.blocks
        BY <2>5, <2>6, <2>8, <2>10
      <4>2. \A s \in (sa.n \div sa.per)..((end - 1) \div sa.per) : o2.sa.seg[s] # Null
        BY <2>5, <2>8, <2>10, Zenon
      <4> QED
        BY <2>0, <2>8, <4>1, <4>2, Enlarged
    <3>4. o.sa = [o2.sa EXCEPT !.n = end] /\ o.res = "ok"
      BY <3>2 DEF Done
    <3> QED
      BY <2>0, <3>3, <3>4
  <2> QED
    BY <2>9, <2>10
<1> QED
  BY <1>0, <1>1, <1>2

-----------------------------------------------------------------------------
(* Threads with streams of one file. *)

Labels == {"idle", "lock", "room", "copy", "unlock", "walk", "return"}

\* MutexGuardsArray is inductive once the labels are known to be labels.
IInv == pc \in [Threads -> Labels] /\ MutexGuardsArray

\* A thread that goes from one place to another outside the lock, or from one to
\* another inside, changes nothing about who holds the mutex.
LEMMA SameSide ==
    ASSUME IInv, NEW t \in Threads, NEW l \in Labels,
           l \in {"room", "copy", "unlock"} <=> mtx = t,
           pc' = [pc EXCEPT ![t] = l], mtx' = mtx,
           mtx = Nobody => UNCHANGED <<rgsImpl, committed>>
    PROVE  IInv'
<1>1. pc' \in [Threads -> Labels]
  BY DEF IInv
<1>2. \A u \in Threads : pc'[u] \in {"room", "copy", "unlock"} <=> mtx' = u
  BY DEF IInv, MutexGuardsArray
<1>3. mtx' = Nobody => Elements(rgsImpl') = committed'
  BY DEF IInv, MutexGuardsArray, Elements
<1>4. QED
  BY <1>1, <1>2, <1>3 DEF IInv, MutexGuardsArray, Elements, Load, Cell

\* The file is empty at first, and so is what the history says of it.
LEMMA InitIInv == Init => IInv
<1> SUFFICES ASSUME Init PROVE IInv
  OBVIOUS
<1>1. pc \in [Threads -> Labels]
  BY DEF Init, Labels
<1>2. \A t \in Threads : ~(pc[t] \in {"room", "copy", "unlock"}) /\ mtx # t
  BY MemFileAssumption DEF Init
<1>3. Elements(rgsImpl) = <<>>
  <2>1. rgsImpl.n = 0
    BY DEF Init, Empty
  <2>2. Elements(rgsImpl) = [k \in 1..0 |-> Cell(rgsImpl, 0 + k - 1)]
    BY <2>1 DEF Elements, Load
  <2> QED
    BY <2>2
<1>4. QED
  BY <1>1, <1>2, <1>3 DEF Init, IInv, MutexGuardsArray

\* Every step of every call keeps it.
LEMMA NextIInv == IInv /\ [Next]_vars => IInv'
<1> SUFFICES ASSUME IInv, [Next]_vars PROVE IInv'
  OBVIOUS
<1> USE MemFileAssumption
<1>0. CASE UNCHANGED vars
  BY <1>0 DEF IInv, vars, MutexGuardsArray, Elements, Load, Cell
<1>1. ASSUME NEW t \in Threads, Call(t) PROVE IInv'
  <2>1. PICK l \in {"return", "walk", "lock"} : pc' = [pc EXCEPT ![t] = l]
    BY <1>1 DEF Call, Goto
  <2>2. pc[t] = "idle" /\ mtx' = mtx /\ UNCHANGED <<rgsImpl, committed>>
    BY <1>1 DEF Call
  <2> QED
    BY <2>1, <2>2, SameSide DEF IInv, MutexGuardsArray, Labels
<1>2. ASSUME NEW t \in Threads, Lock(t) PROVE IInv'
  <2>1. PICK l \in {"room", "copy"} : pc' = [pc EXCEPT ![t] = l]
    BY <1>2 DEF Lock, Goto
  <2>2. mtx = Nobody /\ mtx' = t
    BY <1>2 DEF Lock
  <2>3. \A u \in Threads : pc'[u] \in {"room", "copy", "unlock"} <=> mtx' = u
    BY <2>1, <2>2 DEF IInv, MutexGuardsArray
  <2>4. pc' \in [Threads -> Labels]
    BY <2>1 DEF IInv, Labels
  <2> QED
    BY <2>2, <2>3, <2>4 DEF IInv, MutexGuardsArray
<1>3. ASSUME NEW t \in Threads, MakeRoom(t) PROVE IInv'
  <2>1. PICK l \in {"copy", "unlock"} : pc' = [pc EXCEPT ![t] = l]
    BY <1>3 DEF MakeRoom, Goto
  <2>2. pc[t] = "room" /\ mtx' = mtx
    BY <1>3 DEF MakeRoom
  <2> QED
    BY <2>1, <2>2, SameSide DEF IInv, MutexGuardsArray, Labels
<1>4. ASSUME NEW t \in Threads, CopyChunk(t) PROVE IInv'
  <2>1. pc[t] = "copy" /\ mtx' = mtx /\ pc' = pc
    BY <1>4 DEF CopyChunk
  <2> QED
    BY <2>1 DEF IInv, MutexGuardsArray
<1>5. ASSUME NEW t \in Threads, WriteDone(t) \/ EndPos(t) PROVE IInv'
  <2>1. pc[t] = "copy" /\ mtx' = mtx /\ pc' = [pc EXCEPT ![t] = "unlock"]
    BY <1>5 DEF WriteDone, EndPos, Goto
  <2> QED
    BY <2>1, SameSide DEF IInv, MutexGuardsArray, Labels
<1>6. ASSUME NEW t \in Threads, ReadChunk(t) PROVE IInv'
  <2>1. pc[t] = "copy" /\ mtx' = mtx /\ (pc' = pc \/ pc' = [pc EXCEPT ![t] = "unlock"])
    BY <1>6 DEF ReadChunk, Goto
  <2>2. mtx = t
    BY <2>1 DEF IInv, MutexGuardsArray
  <2>3. CASE pc' = pc
    BY <2>1, <2>2, <2>3 DEF IInv, MutexGuardsArray
  <2>4. CASE pc' = [pc EXCEPT ![t] = "unlock"]
    BY <2>1, <2>2, <2>4, SameSide DEF Labels
  <2> QED
    BY <2>1, <2>3, <2>4
<1>7. ASSUME NEW t \in Threads, Unlock(t) PROVE IInv'
  <2>1. pc[t] = "unlock" /\ mtx' = Nobody /\ pc' = [pc EXCEPT ![t] = "return"]
    BY <1>7 DEF Unlock, Goto
  <2>2. committed' = Elements(rgsImpl) /\ rgsImpl' = rgsImpl
    BY <1>7 DEF Unlock
  <2>3. \A u \in Threads : pc'[u] \in {"room", "copy", "unlock"} <=> mtx' = u
    BY <2>1 DEF IInv, MutexGuardsArray
  <2>4. Elements(rgsImpl)' = committed'
    BY <2>2, SMTT(60) DEF Elements, Load, Cell
  <2> QED
    BY <2>1, <2>3, <2>4 DEF IInv, MutexGuardsArray, Labels
<1>8. ASSUME NEW t \in Threads, WalkPiece(t) PROVE IInv'
  BY <1>8 DEF WalkPiece, IInv, MutexGuardsArray, Elements, Load, Cell
<1>9. ASSUME NEW t \in Threads, WalkDone(t) \/ Return(t) PROVE IInv'
  <2>1. PICK l \in {"return", "idle"} : pc' = [pc EXCEPT ![t] = l]
    BY <1>9 DEF WalkDone, Return, Goto
  <2>2. pc[t] \in {"walk", "return"} /\ mtx' = mtx /\ UNCHANGED <<rgsImpl, committed>>
    BY <1>9 DEF WalkDone, Return
  <2> QED
    BY <2>1, <2>2, SameSide DEF IInv, MutexGuardsArray, Labels
<1>10. QED
  BY <1>0, <1>1, <1>2, <1>3, <1>4, <1>5, <1>6, <1>7, <1>8, <1>9 DEF Next

\* The mutex guards the array: writes, reads and seeks to the end are alone with
\* it, however their chunks interleave with what the other threads do, and however
\* a write ends.
THEOREM MutexGuards == Spec => []MutexGuardsArray
<1>1. IInv => MutexGuardsArray
  BY DEF IInv
<1>2. QED
  BY InitIInv, NextIInv, <1>1, PTL DEF Spec

-----------------------------------------------------------------------------
(***************************************************************************)
(* What a call has done so far.  The mutex makes the array the committed   *)
(* file, but for what its holder has written of its transfer; and each     *)
(* thread has been given a piece of the committed file, if the holder of   *)
(* the mutex cannot be writing.                                            *)
(***************************************************************************)

Cells == Values \cup {Raw}

\* s is what f holds from position "at" on.
Piece(s, f, at) ==
    /\ s \in Seq(Cells) /\ (Len(s) > 0 => at + Len(s) <= Len(f))
    /\ \A k \in 1..Len(s) : s[k] = f[at + k]

\* g is f with the last d elements of vals in their places, vals being meant to
\* start at position p, and with room for all of vals.
Partly(g, f, p, vals, d) ==
    /\ Len(g) = IF p + Len(vals) > Len(f) THEN p + Len(vals) ELSE Len(f)
    /\ \A i \in 1..Len(g) :
        IF i \in p+Len(vals)-d+1..p+Len(vals) THEN g[i] = vals[i - p]
        ELSE i <= Len(f) => g[i] = f[i]

\* How much a read of thread t gets.
ReadLen(t) ==
    IF posCur[t] >= Len(committed) THEN 0 ELSE Lesser(op[t].len, Len(committed) - posCur[t])

\* The calls in which a thread can be at a label.
KindsAt(label) ==
    CASE label = "idle" -> {"none"}
      [] label = "room" -> Writes
      [] label \in {"lock", "copy", "unlock"} -> Writes \cup {"read", "seekEnd"}
      [] label = "walk" -> {"apply"}
      [] label = "return" -> Writes \cup Reads \cup {"seek", "seekCur", "seekEnd"}

FileTyped ==
    /\ Shaped(rgsImpl, Cells) /\ rgsImpl.per = SegSize /\ rgsImpl.n <= MaxEnd
    /\ posCur \in [Threads -> 0..MaxEnd]
    /\ mtx \in Threads \cup {Nobody}
    /\ op \in [Threads -> Requests \cup {NoCall}]
    /\ nDone \in [Threads -> Nat] /\ ret \in [Threads -> Int] /\ out \in [Threads -> Seq(Cells)]
    /\ committed \in Seq(Cells) /\ Len(committed) <= rgsImpl.n
    /\ seen \in [Threads -> SUBSET Seq(Cells)]

Arguments(t) ==
    /\ op[t].kind \in KindsAt(pc[t])
    /\ op[t].kind \in Writes => posCur[t] + Len(op[t].vals) <= MaxEnd
    /\ op[t].kind = "apply" =>
        /\ posCur[t] + op[t].len <= rgsImpl.n /\ ret[t] = 0
        /\ Careful => posCur[t] + op[t].len <= Len(committed)
    /\ pc[t] \in {"lock", "room"} => nDone[t] = 0 /\ out[t] = <<>>
    /\ pc[t] = "return" => NextPosition(t) \in 0..MaxEnd

\* What the holder of the mutex has done.
Holding(t) ==
    LET g == Elements(rgsImpl)  p == posCur[t]  c == op[t]  d == nDone[t] IN
    /\ pc[t] = "room" => g = committed
    /\ pc[t] = "copy" /\ c.kind \in Writes =>
        /\ d <= Len(c.vals)
        /\ Partly(g, committed, p, c.vals, d)
    /\ pc[t] = "unlock" /\ c.kind \in Writes =>
        \/ ret[t] = -1 /\ g = committed
        \/ ret[t] = Len(c.vals) /\ Partly(g, committed, p, c.vals, Len(c.vals))
    /\ pc[t] \in {"copy", "unlock"} /\ c.kind \in {"read", "seekEnd"} => g = committed
    /\ pc[t] = "copy" /\ c.kind = "read" =>
        /\ d <= ReadLen(t) /\ Len(out[t]) = d
        /\ Piece(out[t], committed, p + ReadLen(t) - d)
    /\ pc[t] = "unlock" /\ c.kind = "read" =>
        /\ ret[t] = ReadLen(t) /\ Len(out[t]) = ret[t]
        /\ Piece(out[t], committed, p)
    /\ pc[t] = "unlock" /\ c.kind = "seekEnd" => ret[t] = Len(committed) + c.off

\* What a thread that applies has been given, as long as nobody writes.
Walking(t) ==
    pc[t] = "walk" =>
        /\ nDone[t] <= op[t].len /\ Len(out[t]) = nDone[t]
        /\ Careful => Piece(out[t], committed, posCur[t])

\* The files that a reading thread may have seen include the present one.
Seeing(t) ==
    /\ op[t].kind \in Reads => committed \in seen[t]
    /\ Careful /\ pc[t] = "return" /\ op[t].kind \in Reads =>
        \E f \in seen[t] : out[t] = SubSeq(f, posCur[t] + 1, Lesser(posCur[t] + op[t].len, Len(f)))

\* A client that is careful applies while nobody writes.
Apart == Careful => \A t, u \in Threads : ~Excludes(op[t].kind, op[u].kind)

FileInv ==
    /\ IInv /\ FileTyped /\ Apart
    /\ \A t \in Threads : Arguments(t) /\ Holding(t) /\ Walking(t) /\ Seeing(t)

-----------------------------------------------------------------------------
(* Requests, and pieces of sequences. *)

LEMMA RequestForms ==
    ASSUME NEW r \in Requests
    PROVE  /\ r.kind \in Writes \cup Reads \cup {"seek", "seekCur", "seekEnd"}
           /\ r.kind \in Writes => r.vals \in Seq(Cells) /\ Len(r.vals) \in Nat \ {0}
           /\ r.kind \in Reads => r.len \in Nat \ {0}
           /\ r.kind \in {"seek", "seekCur", "seekEnd"} => r.off \in Int
           /\ r.kind = "seek" => r.off <= MaxEnd
           /\ r.kind = "seekEnd" => r.off <= 0
<1> USE MemFileAssumption DEF Writes, Reads
<1>1. CASE r \in [kind : {"write", "writeNoExcept"}, vals : Bulk]
  <2>1. r.kind \in Writes /\ r.vals \in Bulk
    BY <1>1
  <2>2. PICK k \in 1..MaxTransfer : r.vals \in [1..k -> Values]
    BY <2>1 DEF Bulk
  <2>3. r.vals \in Seq(Cells) /\ Len(r.vals) = k
    BY <2>2 DEF Cells
  <2> QED
    BY <2>1, <2>2, <2>3
<1>2. CASE r \in [kind : {"read", "apply"}, len : 1..MaxTransfer]
  BY <1>2
<1>3. CASE r \in [kind : {"seek"}, off : -1..MaxEnd]
  BY <1>3
<1>4. CASE r \in [kind : {"seekCur"}, off : {-1, 1}]
  BY <1>4
<1>5. CASE r \in [kind : {"seekEnd"}, off : {-1, 0}]
  BY <1>5
<1> QED
  BY <1>1, <1>2, <1>3, <1>4, <1>5 DEF Requests

LEMMA SameElements ==
    ASSUME NEW S, NEW f \in Seq(S), NEW g \in Seq(S), Len(f) = Len(g),
           \A k \in 1..Len(f) : f[k] = g[k]
    PROVE  f = g
<1>1. PICK n \in Nat : n = Len(f)
  OBVIOUS
<1>2. f \in [1..n -> S] /\ g \in [1..n -> S] /\ \A k \in 1..n : f[k] = g[k]
  BY <1>1
<1> QED
  BY <1>2

LEMMA PieceIs ==
    ASSUME NEW f \in Seq(Cells), NEW at \in Nat, NEW s, Piece(s, f, at)
    PROVE  s = SubSeq(f, at + 1, at + Len(s))
<1>1. PICK n \in Nat : n = Len(s) /\ s \in Seq(Cells) /\ (n > 0 => at + n <= Len(f))
  BY DEF Piece
<1>2. \A k \in 1..n : s[k] = f[at + k]
  BY <1>1 DEF Piece
<1>3. SubSeq(f, at + 1, at + n) \in Seq(Cells) /\ Len(SubSeq(f, at + 1, at + n)) = n
  BY <1>1
<1>4. \A k \in 1..n : SubSeq(f, at + 1, at + n)[k] = f[at + k]
  BY <1>1
<1> QED
  BY <1>1, <1>2, <1>3, <1>4, SameElements

\* What was read so far, with a chunk put before it or after it.
LEMMA PieceJoined ==
    ASSUME NEW f \in Seq(Cells), NEW at \in Nat, NEW a, NEW b,
           Piece(a, f, at), Piece(b, f, at + Len(a))
    PROVE  Piece(a \o b, f, at) /\ Len(a \o b) = Len(a) + Len(b)
<1>1. PICK m \in Nat, n \in Nat : /\ m = Len(a) /\ n = Len(b)
                                  /\ a \in Seq(Cells) /\ b \in Seq(Cells)
  BY DEF Piece
<1>2. /\ m > 0 => at + m <= Len(f)
      /\ n > 0 => at + m + n <= Len(f)
  BY <1>1 DEF Piece
<1>3. a \o b \in Seq(Cells) /\ Len(a \o b) = m + n
  BY <1>1
<1>4. ASSUME NEW k \in 1..m+n PROVE (a \o b)[k] = f[at + k]
  <2>1. CASE k <= m
    BY <1>1, <2>1 DEF Piece
  <2>2. CASE k > m
    <3>1. k - m \in 1..n /\ (a \o b)[k] = b[k - m]
      BY <1>1, <2>2
    <3>2. b[k - m] = f[at + m + (k - m)]
      BY <1>1, <3>1 DEF Piece
    <3>3. at + m + (k - m) = at + k
      BY <1>1
    <3> QED
      BY <3>1, <3>2, <3>3
  <2> QED
    BY <1>1, <2>1, <2>2
<1> QED
  BY <1>1, <1>2, <1>3, <1>4 DEF Piece

\* A chunk read from the array is a piece of its elements.
LEMMA LoadedPiece ==
    ASSUME NEW sa, Shaped(sa, Cells), NEW at \in Nat, NEW len \in Nat, at + len <= sa.n
    PROVE  Piece(Load(sa, at, len), Elements(sa), at) /\ Len(Load(sa, at, len)) = len
<1>1. /\ Elements(sa) \in Seq(Cells) /\ Len(Elements(sa)) = sa.n /\ sa.n \in Nat
      /\ \A k \in 1..sa.n : Elements(sa)[k] = Cell(sa, k - 1)
  BY ElementsOf DEF Shaped
<1>2. ASSUME NEW k \in 1..len
      PROVE  Cell(sa, at + k - 1) = Elements(sa)[at + k] /\ Elements(sa)[at + k] \in Cells
  <2>1. at + k \in 1..sa.n
    BY <1>1
  <2> HIDE DEF Cells
  <2> QED
    BY <1>1, <2>1
<1>3. Load(sa, at, len) \in Seq(Cells) /\ Len(Load(sa, at, len)) = len
  <2>1. \A k \in 1..len : Cell(sa, at + k - 1) \in Cells
    BY <1>2
  <2>2. Load(sa, at, len) \in [1..len -> Cells]
    BY <2>1, Zenon DEF Load
  <2> QED
    BY <2>2
<1>4. \A k \in 1..len : Load(sa, at, len)[k] = Elements(sa)[at + k]
  BY <1>2 DEF Load
<1> QED
  BY <1>1, <1>3, <1>4 DEF Piece

-----------------------------------------------------------------------------
(* What a step of one thread leaves alone. *)

LEMMA InitFileInv == Init => FileInv
<1> SUFFICES ASSUME Init PROVE FileInv
  OBVIOUS
<1>1. IInv
  BY InitIInv
<1>2. FileTyped
  <2>1. Shaped(Empty(SegSize), Cells) /\ Empty(SegSize).n = 0 /\ Empty(SegSize).per = SegSize
    BY MemFileAssumption, EmptyShaped
  <2>2. <<>> \in Seq(Cells) /\ Len(<<>>) = 0
    OBVIOUS
  <2> QED
    BY <2>1, <2>2, MemFileAssumption DEF Init, FileTyped
<1>3. \A t \in Threads : op[t].kind = "none" /\ pc[t] = "idle"
  BY DEF Init, NoCall
<1>4. Apart
  BY <1>3 DEF Apart, Excludes, Writes
<1>5. \A t \in Threads : Arguments(t) /\ Holding(t) /\ Walking(t) /\ Seeing(t)
  BY <1>3 DEF Arguments, Holding, Walking, Seeing, KindsAt, Writes, Reads
<1> QED
  BY <1>1, <1>2, <1>4, <1>5 DEF FileInv

\* Unless somebody writes, the array is the committed file.
LEMMA NobodyWrites ==
    ASSUME FileInv, \A u \in Threads : op[u].kind \notin Writes
    PROVE  Elements(rgsImpl) = committed
<1>1. CASE mtx = Nobody
  BY <1>1 DEF FileInv, IInv, MutexGuardsArray
<1>2. CASE mtx # Nobody
  <2>1. PICK u \in Threads : mtx = u
    BY <1>2 DEF FileInv, FileTyped
  <2>2. pc[u] \in {"room", "copy", "unlock"} /\ Arguments(u) /\ Holding(u)
    BY <2>1 DEF FileInv, IInv, MutexGuardsArray
  <2>3. pc[u] \in {"copy", "unlock"} /\ op[u].kind \in {"read", "seekEnd"}
    BY <2>2 DEF Arguments, KindsAt
  <2> QED
    BY <2>2, <2>3 DEF Holding
<1> QED
  BY <1>1, <1>2

\* Thread u, to whom the step of thread t does nothing.
LEMMA OthersGoOn ==
    ASSUME FileInv, NEW u \in Threads,
           pc'[u] = pc[u], posCur'[u] = posCur[u], op'[u] = op[u], nDone'[u] = nDone[u],
           out'[u] = out[u], ret'[u] = ret[u],
           seen[u] \subseteq seen'[u], op[u].kind \in Reads => committed' \in seen'[u],
           rgsImpl.n \in Int, rgsImpl'.n \in Int, rgsImpl.n <= rgsImpl'.n,
           pc[u] \in {"room", "copy", "unlock"} => UNCHANGED <<rgsImpl, committed>>,
           Careful /\ op[u].kind = "apply" => UNCHANGED committed
    PROVE  Arguments(u)' /\ Holding(u)' /\ Walking(u)' /\ Seeing(u)'
<1>1. Arguments(u) /\ Holding(u) /\ Walking(u) /\ Seeing(u)
  BY DEF FileInv
<1>2. Arguments(u)'
  <2>1. NextPosition(u)' = NextPosition(u)
    BY DEF NextPosition
  <2>2. op[u].kind = "apply" => posCur[u] \in Int /\ op[u].len \in Int
    BY RequestForms DEF FileInv, FileTyped, NoCall, Reads
  <2> QED
    BY <1>1, <2>1, <2>2 DEF Arguments
<1>3. Holding(u)'
  <2>1. CASE pc[u] \in {"room", "copy", "unlock"}
    <3>1. ReadLen(u)' = ReadLen(u)
      BY <2>1 DEF ReadLen
    <3> QED
      BY <1>1, <2>1, <3>1 DEF Holding
  <2>2. CASE pc[u] \notin {"room", "copy", "unlock"}
    BY <2>2 DEF Holding
  <2> QED
    BY <2>1, <2>2
<1>4. Walking(u)'
  BY <1>1 DEF Walking, Arguments, KindsAt
<1>5. Seeing(u)'
  BY <1>1 DEF Seeing
<1> QED
  BY <1>2, <1>3, <1>4, <1>5

\* A step of thread t: it is enough to look at what t does.
LEMMA StepKeeps ==
    ASSUME FileInv, IInv', FileTyped', Apart', NEW t \in Threads,
           Arguments(t)' /\ Holding(t)' /\ Walking(t)' /\ Seeing(t)',
           \A u \in Threads \ {t} :
                /\ pc'[u] = pc[u] /\ posCur'[u] = posCur[u] /\ op'[u] = op[u] /\ nDone'[u] = nDone[u]
                /\ out'[u] = out[u] /\ ret'[u] = ret[u]
                /\ seen[u] \subseteq seen'[u]
                /\ op[u].kind \in Reads => committed' \in seen'[u],
           rgsImpl.n <= rgsImpl'.n,
           mtx # t => UNCHANGED <<rgsImpl, committed>>,
           op[t].kind \in Writes \/ UNCHANGED committed
    PROVE  FileInv'
<1>1. ASSUME NEW u \in Threads \ {t}
      PROVE  Arguments(u)' /\ Holding(u)' /\ Walking(u)' /\ Seeing(u)'
  <2>1. pc[u] \in {"room", "copy", "unlock"} => UNCHANGED <<rgsImpl, committed>>
    BY DEF FileInv, IInv, MutexGuardsArray
  <2>2. Careful /\ op[u].kind = "apply" => UNCHANGED committed
    BY DEF FileInv, Apart, Excludes
  <2>3. rgsImpl.n \in Int /\ rgsImpl'.n \in Int
    BY DEF FileInv, FileTyped, Shaped
  <2> QED
    BY <2>1, <2>2, <2>3, OthersGoOn
<1> QED
  BY <1>1 DEF FileInv

LEMMA StutterKeeps ==
    ASSUME FileInv, UNCHANGED vars
    PROVE  FileInv'
<1>1. IInv'
  BY NextIInv DEF FileInv
<1>2. FileTyped'
  BY DEF FileInv, FileTyped, vars
<1>3. Apart'
  BY DEF FileInv, Apart, vars
<1>4. ASSUME NEW u \in Threads PROVE Arguments(u)' /\ Holding(u)' /\ Walking(u)' /\ Seeing(u)'
  <2>1. rgsImpl.n \in Int
    BY DEF FileInv, FileTyped, Shaped
  <2>2. op[u].kind \in Reads => committed \in seen[u]
    BY DEF FileInv, Seeing
  <2> QED
    BY <2>1, <2>2, OthersGoOn DEF vars
<1> QED
  BY <1>1, <1>2, <1>3, <1>4 DEF FileInv

-----------------------------------------------------------------------------
(* The steps of a call. *)

\* The types of what a thread has, one by one.
LEMMA OwnTypes ==
    ASSUME FileInv, NEW t \in Threads
    PROVE  /\ posCur[t] \in 0..MaxEnd /\ MaxEnd \in Nat
           /\ op[t] \in Requests \cup {NoCall} /\ nDone[t] \in Nat /\ ret[t] \in Int
           /\ out[t] \in Seq(Cells) /\ seen[t] \in SUBSET Seq(Cells)
           /\ committed \in Seq(Cells) /\ Len(committed) \in Nat
           /\ rgsImpl.n \in Nat /\ Len(committed) <= rgsImpl.n /\ rgsImpl.n <= MaxEnd
           /\ rgsImpl.per = SegSize /\ SegSize \in Nat \ {0}
           /\ Elements(rgsImpl) \in Seq(Cells) /\ Len(Elements(rgsImpl)) = rgsImpl.n
<1>1. Elements(rgsImpl) \in Seq(Cells) /\ Len(Elements(rgsImpl)) = rgsImpl.n
  BY ElementsOf DEF FileInv, FileTyped
<1>2. rgsImpl.n \in Nat /\ rgsImpl.n <= MaxEnd /\ rgsImpl.per = SegSize
  BY DEF FileInv, FileTyped, Shaped
<1>3. committed \in Seq(Cells) /\ Len(committed) \in Nat /\ Len(committed) <= rgsImpl.n
  BY DEF FileInv, FileTyped
<1> QED
  BY <1>1, <1>2, <1>3, MemFileAssumption DEF FileInv, FileTyped

LEMMA CallKeeps ==
    ASSUME FileInv, NEW t \in Threads, Call(t)
    PROVE  FileInv'
<1>1. /\ pc[t] = "idle" /\ UNCHANGED <<rgsImpl, posCur, mtx, committed>>
      /\ nDone' = [nDone EXCEPT ![t] = 0] /\ out' = [out EXCEPT ![t] = <<>>]
      /\ seen' = [seen EXCEPT ![t] = IF op'[t].kind \in Reads THEN {committed} ELSE {}]
  BY DEF Call
<1>2. PICK c \in Requests :
          /\ Careful => \A u \in Threads : ~Excludes(c.kind, op[u].kind)
          /\ c.kind \in Writes => posCur[t] + Len(c.vals) <= MaxEnd
          /\ c.kind = "apply" => posCur[t] + c.len <= rgsImpl.n
          /\ c.kind = "seekCur" => posCur[t] + c.off <= MaxEnd
          /\ op' = [op EXCEPT ![t] = c]
          /\ pc' = [pc EXCEPT ![t] =
                IF c.kind \in {"seek", "seekCur"} THEN "return"
                ELSE IF c.kind = "apply" THEN "walk" ELSE "lock"]
          /\ ret' = [ret EXCEPT ![t] =
                CASE c.kind = "seek" -> c.off
                  [] c.kind = "seekCur" -> posCur[t] + c.off
                  [] OTHER -> 0]
  BY DEF Call, Goto
<1>3. /\ c.kind \in Writes \cup Reads \cup {"seek", "seekCur", "seekEnd"}
      /\ c.kind \in Writes => c.vals \in Seq(Cells) /\ Len(c.vals) \in Nat \ {0}
      /\ c.kind \in Reads => c.len \in Nat \ {0}
      /\ c.kind \in {"seek", "seekCur", "seekEnd"} => c.off \in Int
      /\ c.kind = "seek" => c.off <= MaxEnd
  BY RequestForms
<1>4. IInv'
  BY NextIInv DEF FileInv, Next
<1>5. /\ op[t].kind = "none" /\ op'[t] = c /\ nDone'[t] = 0 /\ out'[t] = <<>> /\ posCur'[t] = posCur[t]
      /\ pc'[t] = IF c.kind \in {"seek", "seekCur"} THEN "return"
                  ELSE IF c.kind = "apply" THEN "walk" ELSE "lock"
      /\ ret'[t] = CASE c.kind = "seek" -> c.off
                     [] c.kind = "seekCur" -> posCur[t] + c.off
                     [] OTHER -> 0
      /\ seen'[t] = IF c.kind \in Reads THEN {committed} ELSE {}
  BY <1>1, <1>2 DEF FileInv, FileTyped, IInv, Arguments, KindsAt
<1>6. FileTyped'
  <2>1. ret' \in [Threads -> Int]
    BY <1>2, <1>3 DEF FileInv, FileTyped
  <2>2. seen' \in [Threads -> SUBSET Seq(Cells)]
    BY <1>1 DEF FileInv, FileTyped
  <2>3. nDone' \in [Threads -> Nat] /\ out' \in [Threads -> Seq(Cells)]
    BY <1>1 DEF FileInv, FileTyped
  <2>4. op' \in [Threads -> Requests \cup {NoCall}]
    BY <1>2 DEF FileInv, FileTyped
  <2> QED
    BY <1>1, <2>1, <2>2, <2>3, <2>4 DEF FileInv, FileTyped
<1>7. Apart'
  <2>1. \A u \in Threads : op'[u] = IF u = t THEN c ELSE op[u]
    BY <1>2 DEF FileInv, FileTyped
  <2> QED
    BY <1>2, <2>1 DEF FileInv, Apart, Excludes, Writes
<1>8. c.kind = "apply" /\ Careful => Len(committed) = rgsImpl.n
  <2>1. SUFFICES ASSUME c.kind = "apply", Careful PROVE Len(committed) = rgsImpl.n
    OBVIOUS
  <2>2. \A u \in Threads : op[u].kind \notin Writes
    BY <1>2, <2>1 DEF Excludes
  <2> QED
    BY <2>2, NobodyWrites, OwnTypes
<1>9. Arguments(t)'
  <2>1. c.kind \in KindsAt(pc'[t])
    BY <1>3, <1>5 DEF KindsAt, Reads, Writes
  <2>2. pc'[t] = "return" => NextPosition(t)' \in 0..MaxEnd
    <3>1. pc'[t] = "return" => c.kind \in {"seek", "seekCur"}
      BY <1>5
    <3>2. posCur[t] \in 0..MaxEnd /\ MaxEnd \in Nat
      BY OwnTypes
    <3>3. pc'[t] = "return" => ret'[t] \in Int /\ ret'[t] <= MaxEnd
      BY <1>2, <1>3, <1>5, <3>1, <3>2
    <3>4. pc'[t] = "return" => NextPosition(t)' = IF ret'[t] < 0 THEN posCur[t] ELSE ret'[t]
      BY <1>5, <3>1 DEF NextPosition
    <3> QED
      BY <3>2, <3>3, <3>4
  <2> QED
    BY <1>1, <1>2, <1>5, <1>8, <2>1, <2>2 DEF Arguments
<1>10. Holding(t)' /\ Walking(t)' /\ Seeing(t)'
  <2>1. Holding(t)'
    BY <1>5 DEF Holding
  <2>2. Walking(t)'
    <3>1. pc'[t] = "walk" => c.len \in Nat /\ nDone'[t] = 0 /\ op'[t].len = c.len
      BY <1>3, <1>5 DEF Reads
    <3>2. Len(out'[t]) = 0 /\ \A f, at : Piece(out'[t], f, at)
      BY <1>5 DEF Piece
    <3> QED
      BY <3>1, <3>2 DEF Walking
  <2>3. Seeing(t)'
    BY <1>1, <1>5 DEF Seeing, Reads
  <2> QED
    BY <2>1, <2>2, <2>3
<1>11. ASSUME NEW u \in Threads \ {t}
       PROVE  /\ pc'[u] = pc[u] /\ posCur'[u] = posCur[u] /\ op'[u] = op[u] /\ nDone'[u] = nDone[u]
              /\ out'[u] = out[u] /\ ret'[u] = ret[u] /\ seen'[u] = seen[u]
              /\ op[u].kind \in Reads => committed' \in seen'[u]
  BY <1>1, <1>2 DEF FileInv, FileTyped, IInv, Seeing
<1> QED
  BY <1>1, <1>4, <1>6, <1>7, <1>9, <1>10, <1>11, StepKeeps, OwnTypes, SMTT(60)

LEMMA LockKeeps ==
    ASSUME FileInv, NEW t \in Threads, Lock(t)
    PROVE  FileInv'
<1>1. /\ pc[t] = "lock" /\ mtx = Nobody /\ mtx' = t
      /\ pc' = [pc EXCEPT ![t] = IF op[t].kind \in Writes THEN "room" ELSE "copy"]
      /\ UNCHANGED <<rgsImpl, posCur, op, nDone, out, ret, committed, seen>>
  BY DEF Lock, Goto
<1>2. IInv'
  BY NextIInv DEF FileInv, Next
<1>3. pc'[t] = IF op[t].kind \in Writes THEN "room" ELSE "copy"
  BY <1>1 DEF FileInv, IInv
<1>4. FileTyped' /\ Apart'
  BY <1>1 DEF FileInv, FileTyped, Apart
<1>5. Arguments(t) /\ Seeing(t)
  BY DEF FileInv
<1>6. op[t].kind \in Writes \cup {"read", "seekEnd"} /\ nDone[t] = 0 /\ out[t] = <<>>
  BY <1>1, <1>5 DEF Arguments, KindsAt
<1>7. Elements(rgsImpl) = committed
  BY <1>1 DEF FileInv, IInv, MutexGuardsArray
<1>8. Arguments(t)'
  BY <1>1, <1>3, <1>5, <1>6 DEF Arguments, KindsAt, Writes
<1>9. Holding(t)'
  <2>1. Elements(rgsImpl)' = committed'
    BY <1>1, <1>7
  <2>2. op[t].kind = "read" => ReadLen(t)' \in Nat
    <3>1. op[t].kind = "read" => op[t].len \in Nat
      BY OwnTypes, RequestForms DEF NoCall, Reads
    <3> QED
      BY <1>1, <3>1, OwnTypes DEF ReadLen, Lesser
  <2>3. \A at : Piece(<<>>, committed, at)
    BY DEF Piece
  <2> QED
    BY <1>1, <1>3, <1>6, <2>1, <2>2, <2>3 DEF Holding, Writes
<1>10. Walking(t)' /\ Seeing(t)'
  BY <1>1, <1>3, <1>5 DEF Walking, Seeing
<1>11. ASSUME NEW u \in Threads \ {t}
       PROVE  pc'[u] = pc[u] /\ (op[u].kind \in Reads => committed \in seen[u])
  BY <1>1 DEF FileInv, IInv, Seeing
<1> QED
  BY <1>1, <1>2, <1>4, <1>8, <1>9, <1>10, <1>11, StepKeeps, OwnTypes

\* Making room keeps what is there.
LEMMA RoomElements ==
    ASSUME FileTyped, NEW end \in Nat, NEW o \in Room(rgsImpl, end)
    PROVE  /\ Shaped(o.sa, Cells) /\ o.sa.per = SegSize /\ o.res \in {"ok", "throw"}
           /\ o.sa.n = IF o.res = "ok" /\ end > rgsImpl.n THEN end ELSE rgsImpl.n
           /\ Elements(o.sa) \in Seq(Cells) /\ Len(Elements(o.sa)) = o.sa.n
           /\ \A k \in 1..rgsImpl.n : Elements(o.sa)[k] = Elements(rgsImpl)[k]
<1>1. /\ Raw \in Cells /\ Shaped(rgsImpl, Cells) /\ ~OwnLifetime
      /\ Null \notin [0..rgsImpl.per-1 -> Cells]
  BY MemFileAssumption DEF Cells, FileTyped
<1>2. /\ Shaped(o.sa, Cells) /\ o.sa.per = rgsImpl.per /\ o.res \in {"ok", "throw"}
      /\ o.sa.n = IF o.res = "ok" /\ end > rgsImpl.n THEN end ELSE rgsImpl.n
      /\ \A i \in 0..rgsImpl.n-1 : Cell(o.sa, i) = Cell(rgsImpl, i)
  BY <1>1, RoomEffect
<1>3. /\ Elements(o.sa) \in Seq(Cells) /\ Len(Elements(o.sa)) = o.sa.n
      /\ \A k \in 1..o.sa.n : Elements(o.sa)[k] = Cell(o.sa, k - 1)
  BY <1>2, ElementsOf
<1>4. \A k \in 1..rgsImpl.n : Elements(rgsImpl)[k] = Cell(rgsImpl, k - 1)
  BY <1>1, ElementsOf
<1>5. ASSUME NEW k \in 1..rgsImpl.n PROVE Elements(o.sa)[k] = Elements(rgsImpl)[k]
  <2>1. rgsImpl.n \in Nat /\ o.sa.n \in Nat /\ rgsImpl.n <= o.sa.n
    BY <1>1, <1>2 DEF Shaped
  <2>2. PICK i \in 0..rgsImpl.n-1 : i = k - 1
    BY <2>1
  <2>3. Cell(o.sa, i) = Cell(rgsImpl, i)
    BY <1>2
  <2>4. k \in 1..o.sa.n
    BY <2>1
  <2>5. Elements(o.sa)[k] = Cell(o.sa, i) /\ Elements(rgsImpl)[k] = Cell(rgsImpl, i)
    BY <1>3, <1>4, <2>2, <2>4, Zenon
  <2> QED
    BY <2>3, <2>5
<1> QED
  BY <1>2, <1>3, <1>5 DEF FileTyped

LEMMA MakeRoomKeeps ==
    ASSUME FileInv, NEW t \in Threads, MakeRoom(t)
    PROVE  FileInv'
<1> DEFINE p == posCur[t]
           vals == op[t].vals
<1>1. pc[t] = "room" /\ UNCHANGED <<posCur, mtx, op, nDone, out, committed, seen>>
  BY DEF MakeRoom
<1>2. PICK o \in Room(rgsImpl, p + Len(vals)) :
          /\ rgsImpl' = o.sa
          /\ IF o.res = "ok" THEN pc' = [pc EXCEPT ![t] = "copy"] /\ UNCHANGED ret
             ELSE pc' = [pc EXCEPT ![t] = "unlock"] /\ ret' = [ret EXCEPT ![t] = -1]
  BY DEF MakeRoom, Goto
<1>3. IInv'
  BY NextIInv DEF FileInv, Next
<1>4. Arguments(t) /\ Holding(t) /\ Seeing(t)
  BY DEF FileInv
<1>5. op[t].kind \in Writes /\ nDone[t] = 0
  BY <1>1, <1>4 DEF Arguments, KindsAt
<1>6. vals \in Seq(Cells) /\ Len(vals) \in Nat \ {0} /\ p \in 0..MaxEnd /\ p + Len(vals) <= MaxEnd
  BY <1>4, <1>5, OwnTypes, RequestForms DEF NoCall, Writes, Arguments
<1> HIDE DEF p, vals
<1>7. /\ Shaped(o.sa, Cells) /\ o.sa.per = SegSize /\ o.res \in {"ok", "throw"}
      /\ o.sa.n = IF o.res = "ok" /\ p + Len(vals) > rgsImpl.n THEN p + Len(vals) ELSE rgsImpl.n
      /\ Elements(o.sa) \in Seq(Cells) /\ Len(Elements(o.sa)) = o.sa.n
      /\ \A k \in 1..rgsImpl.n : Elements(o.sa)[k] = Elements(rgsImpl)[k]
  <2>1. p + Len(vals) \in Nat
    BY <1>6
  <2> QED
    BY <1>2, <2>1, RoomElements DEF FileInv
<1>8. Elements(rgsImpl) = committed
  BY <1>1, <1>4 DEF Holding
<1>9. rgsImpl.n \in Nat /\ rgsImpl.n <= MaxEnd /\ Len(committed) = rgsImpl.n /\ committed \in Seq(Cells)
  BY <1>8, OwnTypes
<1>10. FileTyped'
  <2>1. ret' \in [Threads -> Int]
    BY <1>2 DEF FileInv, FileTyped
  <2>2. Shaped(rgsImpl, Cells)' /\ (rgsImpl.per = SegSize)' /\ (rgsImpl.n <= MaxEnd)'
    BY <1>2, <1>6, <1>7, <1>9
  <2>3. Len(committed)' <= rgsImpl'.n
    BY <1>1, <1>2, <1>6, <1>7, <1>9
  <2> QED
    BY <1>1, <2>1, <2>2, <2>3 DEF FileInv, FileTyped
<1>11. Apart'
  BY <1>1 DEF FileInv, Apart
<1>12. /\ pc'[t] = IF o.res = "ok" THEN "copy" ELSE "unlock"
       /\ o.res # "ok" => ret'[t] = -1
  BY <1>2 DEF FileInv, FileTyped, IInv
<1>13. Arguments(t)'
  BY <1>1, <1>4, <1>5, <1>12 DEF Arguments, KindsAt, Writes
<1>14. Holding(t)'
  <2>1. CASE o.res = "ok"
    <3>1. Partly(Elements(o.sa), committed, p, vals, 0)
      <4>1. Len(Elements(o.sa)) = IF p + Len(vals) > Len(committed) THEN p + Len(vals) ELSE Len(committed)
        BY <1>7, <1>9, <2>1
      <4>2. \A i \in 1..Len(committed) : Elements(o.sa)[i] = committed[i]
        BY <1>7, <1>8, <1>9
      <4>3. \A i : i \notin p+Len(vals)-0+1..p+Len(vals)
        BY <1>6
      <4>4. \A i \in 1..Len(Elements(o.sa)) : i <= Len(committed) => Elements(o.sa)[i] = committed[i]
        BY <1>9, <4>2
      <4> QED
        BY <4>1, <4>3, <4>4, Zenon DEF Partly
    <3>2. pc'[t] = "copy"
      BY <1>12, <2>1
    <3> QED
      BY <1>1, <1>2, <1>5, <1>6, <3>1, <3>2 DEF Holding, Writes, p, vals
  <2>2. CASE o.res # "ok"
    <3>1. Elements(o.sa) = committed
      <4>1. Len(Elements(o.sa)) = Len(committed)
        BY <1>7, <1>9, <2>2
      <4> QED
        BY <1>7, <1>8, <1>9, <4>1, SameElements
    <3> QED
      BY <1>1, <1>2, <1>5, <1>12, <2>2, <3>1 DEF Holding, Writes
  <2> QED
    BY <2>1, <2>2
<1>15. Walking(t)' /\ Seeing(t)'
  BY <1>1, <1>4, <1>12 DEF Walking, Seeing
<1>16. ASSUME NEW u \in Threads \ {t}
       PROVE  pc'[u] = pc[u] /\ ret'[u] = ret[u] /\ (op[u].kind \in Reads => committed \in seen[u])
  BY <1>2 DEF FileInv, FileTyped, IInv, Seeing
<1>17. rgsImpl.n <= rgsImpl'.n
  BY <1>2, <1>6, <1>7, <1>9
<1>18. mtx = t
  BY <1>1 DEF FileInv, IInv, MutexGuardsArray
<1> QED
  BY <1>1, <1>3, <1>5, <1>10, <1>11, <1>13, <1>14, <1>15, <1>16, <1>17, <1>18, StepKeeps

\* One more chunk of a write, from the back, written where it belongs.
LEMMA ChunkWritten ==
    ASSUME NEW sa, Shaped(sa, Cells), NEW f \in Seq(Cells), NEW p \in Nat,
           NEW vals \in Seq(Cells), NEW d \in Nat, d < Len(vals),
           Partly(Elements(sa), f, p, vals, d)
    PROVE  LET end == p + Len(vals) - d
               last == Len(vals) - d
               len == Lesser(last, BackOff(sa.per, end))
               st == Store(sa, end - len, SubSeq(vals, last - len + 1, last))
           IN  /\ Shaped(st, Cells) /\ st.n = sa.n /\ st.per = sa.per
               /\ len \in Nat /\ d + len <= Len(vals)
               /\ Partly(Elements(st), f, p, vals, d + len)
<1>1. PICK L \in Nat, end \in Nat \ {0}, last \in Nat \ {0} :
          L = Len(vals) /\ end = p + Len(vals) - d /\ last = Len(vals) - d
  <2>1. /\ Len(vals) \in Nat /\ p + Len(vals) - d \in Nat \ {0}
        /\ Len(vals) - d \in Nat \ {0}
    OBVIOUS
  <2> QED
    BY <2>1
<1>2. sa.per \in Nat \ {0} /\ sa.n \in Nat
  BY DEF Shaped
<1>3. BackOff(sa.per, end) \in 1..sa.per
  BY <1>2, BackOffBounds
<1>4. PICK len \in Nat :
          /\ len = Lesser(last, BackOff(sa.per, end))
          /\ len > 0 /\ len <= last /\ len <= BackOff(sa.per, end)
  BY <1>1, <1>2, <1>3, SMTT(60) DEF Lesser
<1>5. PICK at \in Nat : at = end - len
  BY <1>1, <1>4
<1>6. at = p + (last - len)
  BY <1>1, <1>5
<1> DEFINE sub == SubSeq(vals, last - len + 1, last)
           st == Store(sa, at, sub)
<1>7. sub \in Seq(Cells) /\ Len(sub) = len /\ \A k \in 1..len : sub[k] = vals[last - len + k]
  <2>1. PICK b \in 0..Len(vals) : b = last - len
    BY <1>1, <1>4
  <2>2. last = b + len /\ b + len <= Len(vals)
    BY <1>1, <1>4, <2>1
  <2>3. SubSeq(vals, b + 1, b + len) \in Seq(Cells) /\ Len(SubSeq(vals, b + 1, b + len)) = len
    BY <2>2
  <2>4. ASSUME NEW k \in 1..len PROVE SubSeq(vals, b + 1, b + len)[k] = vals[b + k]
    BY <2>2, SMTT(60)
  <2> QED
    BY <2>1, <2>2, <2>3, <2>4, Zenon
<1>8. /\ Elements(sa) \in Seq(Cells) /\ Len(Elements(sa)) = sa.n
      /\ \A k \in 1..sa.n : Elements(sa)[k] = Cell(sa, k - 1)
  BY ElementsOf
<1>9. sa.n = IF p + L > Len(f) THEN p + L ELSE Len(f)
  BY <1>1, <1>8 DEF Partly
<1>10. at + len <= sa.n
  BY <1>1, <1>5, <1>9
<1> HIDE DEF sub, st
<1>11. /\ Shaped(st, Cells) /\ st.n = sa.n /\ st.per = sa.per
       /\ \A i \in 0..sa.n-1 :
             Cell(st, i) = IF i \in at..at+len-1 THEN sub[i - at + 1] ELSE Cell(sa, i)
  <2>1. ((end - len) % sa.per) + len <= sa.per
    BY <1>2, <1>4, ChunkFits
  <2>2. PlaceOf(sa, at) + len <= sa.per
    BY <1>5, <2>1, Zenon DEF PlaceOf
  <2>3. PlaceOf(sa, at) + Len(sub) <= sa.per /\ at + Len(sub) <= sa.n /\ Len(sub) > 0
    BY <1>4, <1>7, <1>10, <2>2
  <2>4. st = Store(sa, at, sub)
    BY DEF st
  <2>5. sub \in Seq(Cells)
    BY <1>7
  <2>6. Shaped(st, Cells) /\ st.n = sa.n /\ st.per = sa.per /\ Stored(st, sa, at, sub)
    BY <2>3, <2>4, <2>5, StoreEffect
  <2> QED
    BY <1>7, <2>6, Zenon DEF Stored
<1>12. /\ Elements(st) \in Seq(Cells) /\ Len(Elements(st)) = sa.n
       /\ \A k \in 1..sa.n : Elements(st)[k] = Cell(st, k - 1)
  BY <1>11, ElementsOf
<1>13. ASSUME NEW i \in 1..sa.n
       PROVE  Elements(st)[i] = IF i \in at+1..at+len THEN vals[i - p] ELSE Elements(sa)[i]
  <2>1. PICK j \in 0..sa.n-1 : j = i - 1
    BY <1>2
  <2>2. Elements(st)[i] = Cell(st, j) /\ Elements(sa)[i] = Cell(sa, j)
    BY <1>8, <1>12, <2>1, Zenon
  <2>3. CASE i \in at+1..at+len
    <3>1. PICK k \in 1..len : k = j - at + 1
      BY <2>1, <2>3
    <3>2. j \in at..at+len-1
      BY <2>1, <2>3
    <3>3. Cell(st, j) = sub[k]
      BY <1>11, <3>1, <3>2, Zenon
    <3>4. sub[k] = vals[last - len + k]
      BY <1>7
    <3>5. last - len + k = i - p
      BY <1>1, <1>6, <2>1, <3>1
    <3> QED
      BY <2>2, <2>3, <3>3, <3>4, <3>5
  <2>4. CASE i \notin at+1..at+len
    <3>1. j \notin at..at+len-1
      BY <2>1, <2>4
    <3> QED
      BY <1>11, <2>2, <2>4, <3>1
  <2> QED
    BY <2>3, <2>4
<1>14. Partly(Elements(st), f, p, vals, d + len)
  <2>1. at + 1 = p+L-(d+len)+1 /\ at + len + 1 = p+L-d+1
    BY <1>1, <1>5
  <2>2. ASSUME NEW i \in 1..sa.n
        PROVE  IF i \in p+L-(d+len)+1..p+L THEN Elements(st)[i] = vals[i - p]
               ELSE i <= Len(f) => Elements(st)[i] = f[i]
    <3>1. IF i \in p+L-d+1..p+L THEN Elements(sa)[i] = vals[i - p] ELSE i <= Len(f) => Elements(sa)[i] = f[i]
      BY <1>1, <1>8 DEF Partly
    <3>2. CASE i \in at+1..at+len
      <4>1. i \in p+L-(d+len)+1..p+L
        BY <1>1, <2>1, <3>2
      <4> QED
        BY <1>13, <3>2, <4>1
    <3>3. CASE i \notin at+1..at+len
      <4>1. i \in p+L-(d+len)+1..p+L <=> i \in p+L-d+1..p+L
        BY <1>1, <1>5, <2>1, <3>3
      <4> QED
        BY <1>13, <3>1, <3>3, <4>1
    <3> QED
      BY <3>2, <3>3
  <2> QED
    BY <1>1, <1>9, <1>12, <2>2 DEF Partly
<1>15. d + len <= Len(vals)
  BY <1>1, <1>4
<1> QED
  BY <1>1, <1>4, <1>5, <1>11, <1>14, <1>15, Zenon DEF st, sub

LEMMA CopyChunkKeeps ==
    ASSUME FileInv, NEW t \in Threads, CopyChunk(t)
    PROVE  FileInv'
<1> DEFINE p == posCur[t]
           vals == op[t].vals
           d == nDone[t]
           end == p + Len(vals) - d
           last == Len(vals) - d
           len == Lesser(last, BackOff(SegSize, end))
           st == Store(rgsImpl, end - len, SubSeq(vals, last - len + 1, last))
<1>1. /\ pc[t] = "copy" /\ op[t].kind \in Writes /\ d < Len(vals)
      /\ rgsImpl' = st /\ nDone' = [nDone EXCEPT ![t] = d + len]
      /\ UNCHANGED <<posCur, mtx, pc, op, out, ret, committed, seen>>
  BY DEF CopyChunk
<1>2. IInv'
  BY NextIInv DEF FileInv, Next
<1>3. Arguments(t) /\ Holding(t) /\ Seeing(t)
  BY DEF FileInv
<1>4. vals \in Seq(Cells) /\ p \in Nat /\ d \in Nat /\ committed \in Seq(Cells)
  BY <1>1, OwnTypes, RequestForms DEF NoCall, Writes
<1>5. Partly(Elements(rgsImpl), committed, p, vals, d)
  BY <1>1, <1>3 DEF Holding
<1>6. /\ Shaped(st, Cells) /\ st.n = rgsImpl.n /\ st.per = rgsImpl.per
      /\ len \in Nat /\ d + len <= Len(vals)
      /\ Partly(Elements(st), committed, p, vals, d + len)
  <2>1. Shaped(rgsImpl, Cells) /\ rgsImpl.per = SegSize
    BY DEF FileInv, FileTyped
  <2> HIDE DEF p, vals, d
  <2> QED
    BY <1>1, <1>4, <1>5, <2>1, ChunkWritten
<1> HIDE DEF st, len
<1>7. nDone'[t] = d + len
  BY <1>1 DEF FileInv, FileTyped
<1>8. FileTyped'
  <2>1. nDone' \in [Threads -> Nat]
    BY <1>1, <1>4, <1>6 DEF FileInv, FileTyped
  <2> QED
    BY <1>1, <1>6, <2>1 DEF FileInv, FileTyped
<1>9. Apart'
  BY <1>1 DEF FileInv, Apart
<1>10. Arguments(t)'
  BY <1>1, <1>3 DEF Arguments, Writes
<1>11. Holding(t)'
  BY <1>1, <1>6, <1>7 DEF Holding, Writes
<1>12. Walking(t)' /\ Seeing(t)'
  BY <1>1, <1>3 DEF Walking, Seeing
<1>13. ASSUME NEW u \in Threads \ {t}
       PROVE  nDone'[u] = nDone[u] /\ (op[u].kind \in Reads => committed \in seen[u])
  BY <1>1 DEF FileInv, FileTyped, Seeing
<1>14. mtx = t /\ rgsImpl.n <= rgsImpl'.n
  BY <1>1, <1>6, OwnTypes DEF FileInv, IInv, MutexGuardsArray
<1> QED
  BY <1>1, <1>2, <1>8, <1>9, <1>10, <1>11, <1>12, <1>13, <1>14, StepKeeps

LEMMA WriteDoneKeeps ==
    ASSUME FileInv, NEW t \in Threads, WriteDone(t)
    PROVE  FileInv'
<1>1. /\ pc[t] = "copy" /\ op[t].kind \in Writes /\ nDone[t] = Len(op[t].vals)
      /\ ret' = [ret EXCEPT ![t] = Len(op[t].vals)] /\ pc' = [pc EXCEPT ![t] = "unlock"]
      /\ UNCHANGED <<rgsImpl, posCur, mtx, op, nDone, out, committed, seen>>
  BY DEF WriteDone, Goto
<1>2. IInv'
  BY NextIInv DEF FileInv, Next
<1>3. Arguments(t) /\ Holding(t) /\ Seeing(t)
  BY DEF FileInv
<1>4. Len(op[t].vals) \in Nat
  BY <1>1, OwnTypes, RequestForms DEF NoCall, Writes
<1>5. pc'[t] = "unlock" /\ ret'[t] = Len(op[t].vals)
  BY <1>1 DEF FileInv, FileTyped, IInv
<1>6. FileTyped' /\ Apart'
  BY <1>1, <1>4 DEF FileInv, FileTyped, Apart
<1>7. Arguments(t)'
  BY <1>1, <1>3, <1>5 DEF Arguments, Writes, KindsAt
<1>8. Holding(t)'
  BY <1>1, <1>3, <1>5 DEF Holding, Writes
<1>9. Walking(t)' /\ Seeing(t)'
  BY <1>1, <1>3, <1>5 DEF Walking, Seeing
<1>10. ASSUME NEW u \in Threads \ {t}
       PROVE  pc'[u] = pc[u] /\ ret'[u] = ret[u] /\ (op[u].kind \in Reads => committed \in seen[u])
  BY <1>1 DEF FileInv, FileTyped, IInv, Seeing
<1> QED
  BY <1>1, <1>2, <1>6, <1>7, <1>8, <1>9, <1>10, StepKeeps, OwnTypes

\* A read gets what there is of the range that it asks for.
LEMMA ReadLenBounds ==
    ASSUME FileInv, NEW t \in Threads, op[t].kind = "read"
    PROVE  /\ op[t].len \in Nat \ {0} /\ ReadLen(t) \in Nat
           /\ ReadLen(t) = 0 => posCur[t] >= Len(committed)
           /\ ReadLen(t) > 0 =>
                /\ posCur[t] + ReadLen(t) <= Len(committed)
                /\ posCur[t] + ReadLen(t) = Lesser(posCur[t] + op[t].len, Len(committed))
<1>1. op[t].len \in Nat \ {0}
  BY OwnTypes, RequestForms DEF NoCall, Reads
<1> QED
  BY <1>1, OwnTypes, SMTT(60) DEF ReadLen, Lesser

LEMMA ReadChunkKeeps ==
    ASSUME FileInv, NEW t \in Threads, ReadChunk(t)
    PROVE  FileInv'
<1> DEFINE p == posCur[t]
           d == nDone[t]
           n == rgsImpl.n
           len == IF p >= n THEN 0 ELSE Lesser(op[t].len, n - p)
           end == p + len - d
           chunk == Lesser(len - d, BackOff(SegSize, end))
           piece == Load(rgsImpl, end - chunk, chunk)
<1>1. /\ pc[t] = "copy" /\ op[t].kind = "read"
      /\ \/ /\ d < len /\ out' = [out EXCEPT ![t] = piece \o out[t]]
            /\ nDone' = [nDone EXCEPT ![t] = d + chunk] /\ UNCHANGED <<pc, ret>>
         \/ /\ ~(d < len) /\ ret' = [ret EXCEPT ![t] = len]
            /\ pc' = [pc EXCEPT ![t] = "unlock"] /\ UNCHANGED <<out, nDone>>
      /\ UNCHANGED <<rgsImpl, posCur, mtx, op, committed, seen>>
  BY Zenon DEF ReadChunk, Goto
<1>2. IInv'
  BY NextIInv DEF FileInv, Next
<1>3. Arguments(t) /\ Holding(t) /\ Seeing(t)
  BY DEF FileInv
<1>4. /\ Elements(rgsImpl) = committed /\ d <= ReadLen(t) /\ Len(out[t]) = d
      /\ Piece(out[t], committed, p + ReadLen(t) - d)
  BY <1>1, <1>3, Zenon DEF Holding
<1>5. len = ReadLen(t)
  <2>1. n = Len(committed)
    BY <1>4, OwnTypes
  <2> QED
    BY <2>1 DEF ReadLen
<1>6. /\ p \in Nat /\ d \in Nat /\ committed \in Seq(Cells) /\ n \in Nat /\ Len(committed) = n
      /\ Shaped(rgsImpl, Cells) /\ SegSize \in Nat \ {0}
  BY <1>4, OwnTypes, SMTT(60) DEF FileInv, FileTyped
<1>7. len \in Nat /\ (len > 0 => p + len <= n) /\ d <= len
  BY <1>1, <1>4, <1>5, <1>6, ReadLenBounds, ZenonT(60)
<1> HIDE DEF p, d, n, len
<1>8. Apart'
  BY <1>1 DEF FileInv, Apart
<1>9. ASSUME NEW u \in Threads \ {t}
      PROVE  /\ pc'[u] = pc[u] /\ ret'[u] = ret[u] /\ out'[u] = out[u] /\ nDone'[u] = nDone[u]
             /\ op[u].kind \in Reads => committed \in seen[u]
  BY <1>1 DEF FileInv, FileTyped, IInv, Seeing
<1>10. Seeing(t)' /\ ReadLen(t)' = ReadLen(t)
  BY <1>1, <1>3, OwnTypes DEF Seeing, ReadLen, FileInv, IInv, Labels
<1>11. CASE d < len
  <2>1. out' = [out EXCEPT ![t] = piece \o out[t]] /\ nDone' = [nDone EXCEPT ![t] = d + chunk] /\ UNCHANGED <<pc, ret>>
    BY <1>1, <1>11
  <2>2. end \in Nat \ {0}
    BY <1>6, <1>7, <1>11
  <2> HIDE DEF end
  <2>3. BackOff(SegSize, end) \in 1..SegSize
    BY <1>6, <2>2, BackOffBounds
  <2>4. chunk \in Nat /\ d + chunk <= len /\ chunk > 0
    BY <1>6, <1>7, <1>11, <2>3 DEF Lesser
  <2> HIDE DEF chunk
  <2>5. end = p + len - d
    BY DEF end
  <2>6. PICK at \in Nat : at = end - chunk
    BY <1>6, <1>7, <2>4, <2>5
  <2>7. at + chunk = end /\ at + chunk <= n
    BY <1>6, <1>7, <2>2, <2>4, <2>5, <2>6
  <2>8. Piece(piece, committed, at) /\ Len(piece) = chunk
    <3>1. Piece(Load(rgsImpl, at, chunk), Elements(rgsImpl), at) /\ Len(Load(rgsImpl, at, chunk)) = chunk
      BY <1>6, <2>4, <2>7, LoadedPiece DEF n
    <3> QED
      BY <1>4, <2>6, <3>1, Zenon
  <2> HIDE DEF piece
  <2>9. Piece(out[t], committed, at + Len(piece))
    BY <1>4, <1>5, <2>5, <2>7, <2>8 DEF p, d
  <2>10. Piece(piece \o out[t], committed, at) /\ Len(piece \o out[t]) = chunk + d
    BY <1>4, <1>6, <2>8, <2>9, PieceJoined, SMTT(60)
  <2>11. out'[t] = piece \o out[t] /\ nDone'[t] = d + chunk
    BY <2>1 DEF FileInv, FileTyped
  <2>12. FileTyped'
    <3>1. nDone' \in [Threads -> Nat]
      BY <1>6, <2>1, <2>4 DEF FileInv, FileTyped
    <3>2. out' \in [Threads -> Seq(Cells)]
      BY <2>1, <2>10 DEF FileInv, FileTyped, Piece
    <3> QED
      BY <1>1, <2>1, <3>1, <3>2 DEF FileInv, FileTyped
  <2>13. Arguments(t)' /\ Walking(t)'
    BY <1>1, <1>3, <2>1 DEF Arguments, Walking, Writes
  <2>14. Holding(t)'
    <3>1. p + ReadLen(t) - (d + chunk) = at /\ chunk + d = d + chunk
      BY <1>5, <1>6, <1>7, <2>4, <2>5, <2>6
    <3>2. Elements(rgsImpl)' = committed' /\ posCur'[t] = p
      BY <1>1, <1>4 DEF p
    <3> QED
      BY <1>1, <1>5, <1>10, <2>1, <2>4, <2>10, <2>11, <3>1, <3>2 DEF Holding, Writes
  <2> QED
    BY <1>1, <1>2, <1>8, <1>9, <1>10, <2>12, <2>13, <2>14, StepKeeps, OwnTypes
<1>12. CASE ~(d < len)
  <2>1. ret' = [ret EXCEPT ![t] = len] /\ pc' = [pc EXCEPT ![t] = "unlock"] /\ UNCHANGED <<out, nDone>>
    BY <1>1, <1>12
  <2>2. d = len
    BY <1>6, <1>7, <1>12
  <2>3. pc'[t] = "unlock" /\ ret'[t] = len
    BY <2>1 DEF FileInv, FileTyped, IInv
  <2>4. FileTyped'
    <3>1. ret' \in [Threads -> Int]
      BY <1>7, <2>1 DEF FileInv, FileTyped
    <3> QED
      BY <1>1, <2>1, <3>1 DEF FileInv, FileTyped
  <2>5. Arguments(t)' /\ Walking(t)'
    BY <1>1, <1>3, <2>1, <2>3 DEF Arguments, Walking, Writes, KindsAt
  <2>6. Holding(t)'
    <3>1. p + ReadLen(t) - d = p
      BY <1>5, <1>6, <1>7, <2>2
    <3>2. Elements(rgsImpl)' = committed' /\ posCur'[t] = p /\ out'[t] = out[t]
      BY <1>1, <1>4, <2>1 DEF p
    <3>3. Piece(out[t], committed, p) /\ Len(out[t]) = ReadLen(t)
      BY <1>4, <1>5, <2>2, <3>1 DEF p, d
    <3> QED
      BY <1>1, <1>5, <1>10, <2>3, <3>2, <3>3 DEF Holding, Writes
  <2> QED
    BY <1>1, <1>2, <1>8, <1>9, <1>10, <2>4, <2>5, <2>6, StepKeeps, OwnTypes
<1> QED
  BY <1>11, <1>12

LEMMA EndPosKeeps ==
    ASSUME FileInv, NEW t \in Threads, EndPos(t)
    PROVE  FileInv'
<1>1. /\ pc[t] = "copy" /\ op[t].kind = "seekEnd"
      /\ ret' = [ret EXCEPT ![t] = rgsImpl.n + op[t].off] /\ pc' = [pc EXCEPT ![t] = "unlock"]
      /\ UNCHANGED <<rgsImpl, posCur, mtx, op, nDone, out, committed, seen>>
  BY DEF EndPos, Goto
<1>2. IInv'
  BY NextIInv DEF FileInv, Next
<1>3. Arguments(t) /\ Holding(t) /\ Seeing(t)
  BY DEF FileInv
<1>4. op[t].off \in Int
  BY <1>1, OwnTypes, RequestForms DEF NoCall
<1>5. Elements(rgsImpl) = committed
  BY <1>1, <1>3 DEF Holding
<1>6. rgsImpl.n \in Nat /\ Len(committed) = rgsImpl.n
  BY <1>5, OwnTypes
<1>7. pc'[t] = "unlock" /\ ret'[t] = Len(committed) + op[t].off
  BY <1>1, <1>6 DEF FileInv, FileTyped, IInv
<1>8. FileTyped' /\ Apart'
  BY <1>1, <1>4, <1>6, SMTT(60) DEF FileInv, FileTyped, Apart
<1>9. Arguments(t)'
  BY <1>1, <1>3, <1>7 DEF Arguments, Writes, KindsAt
<1>10. Holding(t)'
  BY <1>1, <1>5, <1>7 DEF Holding, Writes
<1>11. Walking(t)' /\ Seeing(t)'
  BY <1>1, <1>3, <1>7 DEF Walking, Seeing
<1>12. ASSUME NEW u \in Threads \ {t}
       PROVE  pc'[u] = pc[u] /\ ret'[u] = ret[u] /\ (op[u].kind \in Reads => committed \in seen[u])
  BY <1>1 DEF FileInv, FileTyped, IInv, Seeing
<1> QED
  BY <1>1, <1>2, <1>8, <1>9, <1>10, <1>11, <1>12, StepKeeps, OwnTypes

\* What a read was given is what the committed file holds of its range.
LEMMA OneRead ==
    ASSUME FileInv, NEW t \in Threads, op[t].kind = "read",
           Piece(out[t], committed, posCur[t]), Len(out[t]) = ReadLen(t)
    PROVE  out[t] = SubSeq(committed, posCur[t] + 1, Lesser(posCur[t] + op[t].len, Len(committed)))
<1>1. PICK p \in Nat, len \in Nat, m \in Nat, f \in Seq(Cells) :
          /\ p = posCur[t] /\ len = ReadLen(t) /\ f = committed
          /\ m = Lesser(posCur[t] + op[t].len, Len(committed))
  <2>1. posCur[t] \in Nat /\ ReadLen(t) \in Nat /\ Len(committed) \in Nat /\ op[t].len \in Nat
        /\ committed \in Seq(Cells)
    BY OwnTypes, ReadLenBounds
  <2> QED
    BY <2>1 DEF Lesser
<1>2. out[t] = SubSeq(f, p + 1, p + len)
  BY <1>1, PieceIs
<1>3. CASE len > 0
  <2>1. p + len = m
    BY <1>1, <1>3, ReadLenBounds
  <2> QED
    BY <1>1, <1>2, <2>1
<1>4. CASE len = 0
  <2>1. m <= p
    <3>1. p >= Len(committed)
      BY <1>1, <1>4, ReadLenBounds
    <3>2. PICK a \in Nat, b \in Nat : a = op[t].len /\ b = Len(committed)
      BY OwnTypes, ReadLenBounds
    <3>3. m = Lesser(p + a, b) /\ p >= b
      BY <1>1, <3>1, <3>2
    <3> QED
      BY <3>2, <3>3 DEF Lesser
  <2>2. SubSeq(f, p + 1, p + 0) = <<>> /\ SubSeq(f, p + 1, m) = <<>>
    BY <2>1
  <2> QED
    BY <1>1, <1>2, <1>4, <2>2
<1> QED
  BY <1>1, <1>3, <1>4

LEMMA UnlockKeeps ==
    ASSUME FileInv, NEW t \in Threads, Unlock(t)
    PROVE  FileInv'
<1> DEFINE g == Elements(rgsImpl)
<1>1. /\ pc[t] = "unlock" /\ mtx' = Nobody /\ pc' = [pc EXCEPT ![t] = "return"]
      /\ committed' = g
      /\ seen' = [u \in Threads |-> IF seen[u] = {} THEN {} ELSE seen[u] \cup {g}]
      /\ UNCHANGED <<rgsImpl, posCur, op, nDone, out, ret>>
  BY DEF Unlock, Goto
<1>2. IInv'
  BY NextIInv DEF FileInv, Next
<1>3. Arguments(t) /\ Holding(t) /\ Seeing(t)
  BY DEF FileInv
<1>4. op[t].kind \in Writes \cup {"read", "seekEnd"}
  BY <1>1, <1>3 DEF Arguments, KindsAt
<1>5. op[t].kind \in {"read", "seekEnd"} => g = committed
  BY <1>1, <1>3 DEF Holding
<1>6. g \in Seq(Cells) /\ Len(g) = rgsImpl.n /\ rgsImpl.n \in Nat
  BY OwnTypes
<1>7. pc'[t] = "return"
  BY <1>1 DEF FileInv, IInv
<1> HIDE DEF g
<1>8. FileTyped'
  <2>1. seen' \in [Threads -> SUBSET Seq(Cells)]
    BY <1>1, <1>6 DEF FileInv, FileTyped
  <2> QED
    BY <1>1, <1>6, <2>1, MemFileAssumption, SMTT(60) DEF FileInv, FileTyped
<1>9. Apart'
  BY <1>1 DEF FileInv, Apart
<1>10. NextPosition(t) \in 0..MaxEnd
  <2>1. CASE op[t].kind \in Writes
    <3>1. Len(op[t].vals) \in Nat
      BY <2>1, OwnTypes, RequestForms DEF NoCall, Writes
    <3>2. ret[t] = -1 \/ ret[t] = Len(op[t].vals)
      BY <1>1, <1>3, <2>1 DEF Holding
    <3>3. NextPosition(t) = IF ret[t] = -1 THEN posCur[t] ELSE posCur[t] + ret[t]
      BY <2>1 DEF NextPosition, Writes
    <3> QED
      BY <1>3, <2>1, <3>1, <3>2, <3>3, OwnTypes DEF Arguments
  <2>2. CASE op[t].kind = "read"
    <3>1. ret[t] = ReadLen(t)
      BY <1>1, <1>3, <2>2 DEF Holding
    <3>2. NextPosition(t) = IF ret[t] = -1 THEN posCur[t] ELSE posCur[t] + ret[t]
      BY <2>2 DEF NextPosition
    <3> QED
      BY <2>2, <3>1, <3>2, OwnTypes, ReadLenBounds, SMTT(60)
  <2>3. CASE op[t].kind = "seekEnd"
    <3>1. ret[t] = Len(committed) + op[t].off
      BY <1>1, <1>3, <2>3 DEF Holding
    <3>2. op[t].off \in Int /\ op[t].off <= 0
      BY <2>3, OwnTypes, RequestForms DEF NoCall
    <3>3. NextPosition(t) = IF ret[t] < 0 THEN posCur[t] ELSE ret[t]
      BY <2>3 DEF NextPosition
    <3> QED
      BY <3>1, <3>2, <3>3, OwnTypes
  <2> QED
    BY <1>4, <2>1, <2>2, <2>3
<1>11. Arguments(t)'
  <2>1. NextPosition(t)' = NextPosition(t)
    BY <1>1 DEF NextPosition
  <2> QED
    BY <1>1, <1>3, <1>4, <1>7, <1>10, <2>1 DEF Arguments, Writes, Reads, KindsAt
<1>12. Holding(t)' /\ Walking(t)'
  BY <1>7 DEF Holding, Walking
<1>13. ASSUME NEW u \in Threads, op[u].kind \in Reads PROVE committed' \in seen'[u]
  <2>1. seen[u] # {}
    BY <1>13 DEF FileInv, Seeing
  <2> QED
    BY <1>1, <2>1
<1>14. Seeing(t)'
  <2>1. op[t].kind \in Reads => op[t].kind = "read"
    BY <1>4 DEF Writes, Reads
  <2>2. CASE op[t].kind \in Reads
    <3>1. Piece(out[t], committed, posCur[t]) /\ Len(out[t]) = ReadLen(t)
      BY <1>1, <1>3, <2>1, <2>2 DEF Holding
    <3>2. out[t] = SubSeq(committed, posCur[t] + 1, Lesser(posCur[t] + op[t].len, Len(committed)))
      BY <2>1, <2>2, <3>1, OneRead
    <3>3. committed' = committed
      BY <1>1, <1>5, <2>1, <2>2
    <3>4. committed \in seen'[t]
      BY <1>13, <2>2, <3>3
    <3> QED
      BY <1>1, <3>2, <3>3, <3>4 DEF Seeing
  <2>3. CASE op[t].kind \notin Reads
    BY <1>1, <2>3 DEF Seeing
  <2> QED
    BY <2>2, <2>3
<1>15. ASSUME NEW u \in Threads \ {t}
       PROVE  /\ pc'[u] = pc[u] /\ posCur'[u] = posCur[u] /\ op'[u] = op[u] /\ nDone'[u] = nDone[u]
              /\ out'[u] = out[u] /\ ret'[u] = ret[u]
              /\ seen[u] \subseteq seen'[u]
              /\ op[u].kind \in Reads => committed' \in seen'[u]
  BY <1>1, <1>13 DEF FileInv, IInv
<1>16. mtx = t
  BY <1>1 DEF FileInv, IInv, MutexGuardsArray
<1>17. op[t].kind \in Writes \/ UNCHANGED committed
  BY <1>1, <1>4, <1>5
<1>18. rgsImpl.n <= rgsImpl'.n
  BY <1>1, <1>6
<1> QED
  BY <1>2, <1>8, <1>9, <1>11, <1>12, <1>14, <1>15, <1>16, <1>17, <1>18, StepKeeps

LEMMA WalkPieceKeeps ==
    ASSUME FileInv, NEW t \in Threads, WalkPiece(t)
    PROVE  FileInv'
<1> DEFINE p == posCur[t]
           d == nDone[t]
           len == Lesser(op[t].len - d, SegSize - ((p + d) % SegSize))
           piece == Load(rgsImpl, p + d, len)
<1>1. /\ pc[t] = "walk" /\ d < op[t].len
      /\ out' = [out EXCEPT ![t] = out[t] \o piece] /\ nDone' = [nDone EXCEPT ![t] = d + len]
      /\ UNCHANGED <<rgsImpl, posCur, mtx, pc, op, ret, committed, seen>>
  BY DEF WalkPiece
<1>2. IInv'
  BY NextIInv DEF FileInv, Next
<1>3. Arguments(t) /\ Walking(t) /\ Seeing(t)
  BY DEF FileInv
<1>4. op[t].kind = "apply"
  BY <1>1, <1>3 DEF Arguments, KindsAt
<1>5. op[t].len \in Nat
  BY <1>4, OwnTypes, RequestForms DEF NoCall, Reads
<1>6. /\ p \in Nat /\ d \in Nat /\ p + op[t].len <= rgsImpl.n /\ Len(out[t]) = d /\ SegSize \in Nat \ {0}
      /\ committed \in Seq(Cells) /\ out[t] \in Seq(Cells) /\ rgsImpl.n \in Nat
  BY <1>1, <1>3, <1>4, OwnTypes DEF Arguments, Walking
<1>7. PICK at \in Nat : at = p + d
  BY <1>6
<1>8. at % SegSize \in 0..SegSize-1
  BY <1>6, DivMod
<1>9. len = Lesser(op[t].len - d, SegSize - (at % SegSize))
  BY <1>7, Zenon
<1> HIDE DEF len
<1>10. len \in Nat /\ len > 0 /\ d + len <= op[t].len /\ at + len <= rgsImpl.n
  <2>1. PICK r \in 0..SegSize-1 : r = at % SegSize
    BY <1>8
  <2>2. len = Lesser(op[t].len - d, SegSize - r)
    BY <1>9, <2>1, Zenon
  <2>3. len \in Nat /\ len > 0 /\ d + len <= op[t].len
    <3>1. PICK a \in Nat \ {0}, b \in Nat \ {0} : a = op[t].len - d /\ b = SegSize - r
      <4>1. op[t].len - d \in Nat \ {0}
        BY <1>1, <1>5, <1>6
      <4>2. SegSize - r \in Nat \ {0}
        BY <1>6, <2>1
      <4> QED
        BY <4>1, <4>2
    <3>2. len \in Nat /\ len > 0 /\ len <= a
      BY <2>2, <3>1 DEF Lesser
    <3> QED
      BY <1>5, <1>6, <3>1, <3>2
  <2>4. PICK l \in Nat : l = op[t].len
    BY <1>5
  <2>5. p + l <= rgsImpl.n /\ d + len <= l
    BY <1>6, <2>3, <2>4
  <2>6. at + len <= rgsImpl.n
    <3>1. PICK q \in Nat, e \in Nat, m \in Nat : q = p /\ e = d /\ m = rgsImpl.n
      BY <1>6
    <3>2. at = q + e /\ q + l <= m /\ e + len <= l
      BY <1>7, <2>5, <3>1
    <3> QED
      BY <2>3, <3>1, <3>2
  <2> QED
    BY <2>3, <2>6
<1>11. Piece(piece, Elements(rgsImpl), at) /\ Len(piece) = len
  <2>1. Piece(Load(rgsImpl, at, len), Elements(rgsImpl), at) /\ Len(Load(rgsImpl, at, len)) = len
    BY <1>10, LoadedPiece DEF FileInv, FileTyped
  <2> QED
    BY <1>7, <2>1, Zenon
<1> HIDE DEF piece
<1>12. out[t] \o piece \in Seq(Cells) /\ Len(out[t] \o piece) = d + len
  <2>1. piece \in Seq(Cells)
    BY <1>11 DEF Piece
  <2>2. PICK a \in Seq(Cells), b \in Seq(Cells) : a = out[t] /\ b = piece
    BY <1>6, <2>1
  <2>3. a \o b \in Seq(Cells) /\ Len(a \o b) = Len(a) + Len(b)
    OBVIOUS
  <2> QED
    BY <1>6, <1>11, <2>2, <2>3
<1>13. out'[t] = out[t] \o piece /\ nDone'[t] = d + len
  BY <1>1 DEF FileInv, FileTyped
<1>14. FileTyped'
  <2>1. nDone' \in [Threads -> Nat]
    BY <1>1, <1>6, <1>10, SMTT(60) DEF FileInv, FileTyped
  <2>2. out' \in [Threads -> Seq(Cells)]
    BY <1>1, <1>12 DEF FileInv, FileTyped
  <2> QED
    BY <1>1, <2>1, <2>2 DEF FileInv, FileTyped
<1>15. Apart'
  BY <1>1 DEF FileInv, Apart
<1>16. Arguments(t)' /\ Seeing(t)'
  BY <1>1, <1>3 DEF Arguments, Seeing
<1>17. Holding(t)'
  BY <1>1 DEF Holding
<1>18. Careful => Piece(out[t] \o piece, committed, p)
  <2>1. SUFFICES ASSUME Careful PROVE Piece(out[t] \o piece, committed, p)
    OBVIOUS
  <2>2. \A u \in Threads : op[u].kind \notin Writes
    BY <1>4, <2>1 DEF FileInv, Apart, Excludes
  <2>3. Elements(rgsImpl) = committed
    BY <2>2, NobodyWrites
  <2>4. Piece(out[t], committed, p)
    BY <1>1, <1>3, <2>1 DEF Walking
  <2>5. Piece(piece, committed, p + Len(out[t]))
    BY <1>6, <1>7, <1>11, <2>3
  <2> QED
    BY <1>6, <2>4, <2>5, PieceJoined
<1>19. Walking(t)'
  BY <1>1, <1>10, <1>12, <1>13, <1>18 DEF Walking
<1>20. ASSUME NEW u \in Threads \ {t}
       PROVE  nDone'[u] = nDone[u] /\ out'[u] = out[u] /\ (op[u].kind \in Reads => committed \in seen[u])
  BY <1>1 DEF FileInv, FileTyped, Seeing
<1> QED
  BY <1>1, <1>2, <1>6, <1>14, <1>15, <1>16, <1>17, <1>19, <1>20, StepKeeps

LEMMA WalkDoneKeeps ==
    ASSUME FileInv, NEW t \in Threads, WalkDone(t)
    PROVE  FileInv'
<1>1. /\ pc[t] = "walk" /\ nDone[t] = op[t].len /\ pc' = [pc EXCEPT ![t] = "return"]
      /\ UNCHANGED <<rgsImpl, posCur, mtx, op, nDone, out, ret, committed, seen>>
  BY DEF WalkDone, Goto
<1>2. IInv'
  BY NextIInv DEF FileInv, Next
<1>3. Arguments(t) /\ Walking(t) /\ Seeing(t)
  BY DEF FileInv
<1>4. op[t].kind = "apply"
  BY <1>1, <1>3 DEF Arguments, KindsAt
<1>5. op[t].len \in Nat /\ posCur[t] \in Nat /\ posCur[t] <= MaxEnd /\ Len(committed) \in Nat
  BY <1>4, OwnTypes, RequestForms DEF NoCall, Reads
<1>6. pc'[t] = "return"
  BY <1>1 DEF FileInv, IInv
<1>7. FileTyped' /\ Apart'
  BY <1>1 DEF FileInv, FileTyped, Apart
<1>8. Arguments(t)'
  <2>1. NextPosition(t)' = posCur[t]
    BY <1>1, <1>3, <1>4, <1>5 DEF NextPosition, Arguments
  <2> QED
    BY <1>1, <1>3, <1>4, <1>5, <1>6, <2>1, MemFileAssumption DEF Arguments, Writes, Reads, KindsAt
<1>9. Holding(t)' /\ Walking(t)'
  BY <1>6 DEF Holding, Walking
<1>10. Seeing(t)'
  <2>1. ASSUME Careful
        PROVE  out[t] = SubSeq(committed, posCur[t] + 1, Lesser(posCur[t] + op[t].len, Len(committed)))
    <3>1. Piece(out[t], committed, posCur[t]) /\ Len(out[t]) = op[t].len
      BY <1>1, <1>3, <2>1 DEF Walking
    <3>2. out[t] = SubSeq(committed, posCur[t] + 1, posCur[t] + op[t].len)
      BY <1>5, <3>1, PieceIs, OwnTypes
    <3>3. posCur[t] + op[t].len <= Len(committed)
      BY <1>3, <1>4, <2>1 DEF Arguments
    <3>4. Lesser(posCur[t] + op[t].len, Len(committed)) = posCur[t] + op[t].len
      BY <1>5, <3>3 DEF Lesser
    <3> QED
      BY <3>2, <3>4
  <2> QED
    BY <1>1, <1>3, <2>1 DEF Seeing
<1>11. ASSUME NEW u \in Threads \ {t}
       PROVE  pc'[u] = pc[u] /\ (op[u].kind \in Reads => committed \in seen[u])
  BY <1>1 DEF FileInv, IInv, Seeing
<1> QED
  BY <1>1, <1>2, <1>7, <1>8, <1>9, <1>10, <1>11, StepKeeps, OwnTypes

LEMMA ReturnKeeps ==
    ASSUME FileInv, NEW t \in Threads, Return(t)
    PROVE  FileInv'
<1>1. /\ pc[t] = "return" /\ posCur' = [posCur EXCEPT ![t] = NextPosition(t)]
      /\ op' = [op EXCEPT ![t] = NoCall] /\ pc' = [pc EXCEPT ![t] = "idle"]
      /\ nDone' = [nDone EXCEPT ![t] = 0] /\ out' = [out EXCEPT ![t] = <<>>]
      /\ ret' = [ret EXCEPT ![t] = 0] /\ seen' = [seen EXCEPT ![t] = {}]
      /\ UNCHANGED <<rgsImpl, mtx, committed>>
  BY DEF Return, Goto
<1>2. IInv'
  BY NextIInv DEF FileInv, Next
<1>3. NextPosition(t) \in 0..MaxEnd
  BY <1>1 DEF FileInv, Arguments
<1>4. pc'[t] = "idle" /\ op'[t].kind = "none"
  BY <1>1 DEF FileInv, FileTyped, IInv, NoCall
<1>5. FileTyped'
  <2>1. posCur' \in [Threads -> 0..MaxEnd] /\ op' \in [Threads -> Requests \cup {NoCall}]
    BY <1>1, <1>3 DEF FileInv, FileTyped
  <2>2. nDone' \in [Threads -> Nat] /\ ret' \in [Threads -> Int]
    BY <1>1 DEF FileInv, FileTyped
  <2>3. out' \in [Threads -> Seq(Cells)] /\ seen' \in [Threads -> SUBSET Seq(Cells)]
    BY <1>1 DEF FileInv, FileTyped
  <2> QED
    BY <1>1, <2>1, <2>2, <2>3 DEF FileInv, FileTyped
<1>6. Apart'
  <2>1. \A u \in Threads : op'[u].kind = IF u = t THEN "none" ELSE op[u].kind
    BY <1>1, <1>4 DEF FileInv, FileTyped
  <2> QED
    BY <2>1 DEF FileInv, Apart, Excludes, Writes
<1>7. Arguments(t)' /\ Holding(t)' /\ Walking(t)' /\ Seeing(t)'
  BY <1>4 DEF Arguments, Holding, Walking, Seeing, KindsAt, Writes, Reads
<1>8. ASSUME NEW u \in Threads \ {t}
      PROVE  /\ pc'[u] = pc[u] /\ posCur'[u] = posCur[u] /\ op'[u] = op[u] /\ nDone'[u] = nDone[u]
             /\ out'[u] = out[u] /\ ret'[u] = ret[u] /\ seen'[u] = seen[u]
             /\ op[u].kind \in Reads => committed \in seen[u]
  BY <1>1 DEF FileInv, FileTyped, IInv, Seeing
<1>9. /\ rgsImpl.n <= rgsImpl'.n
      /\ \A u \in Threads \ {t} : op[u].kind \in Reads => committed' \in seen'[u]
  BY <1>1, <1>8, OwnTypes
<1> QED
  BY <1>1, <1>2, <1>5, <1>6, <1>7, <1>8, <1>9, StepKeeps

-----------------------------------------------------------------------------
(* What holds of every behaviour. *)

LEMMA NextFileInv == FileInv /\ [Next]_vars => FileInv'
<1> SUFFICES ASSUME FileInv, [Next]_vars PROVE FileInv'
  OBVIOUS
<1>1. CASE UNCHANGED vars
  BY <1>1, StutterKeeps
<1>2. ASSUME NEW t \in Threads,
             Call(t) \/ Lock(t) \/ MakeRoom(t) \/ CopyChunk(t) \/ WriteDone(t) \/ ReadChunk(t)
             \/ EndPos(t) \/ Unlock(t) \/ WalkPiece(t) \/ WalkDone(t) \/ Return(t)
      PROVE  FileInv'
  BY <1>2, CallKeeps, LockKeeps, MakeRoomKeeps, CopyChunkKeeps, WriteDoneKeeps, ReadChunkKeeps,
     EndPosKeeps, UnlockKeeps, WalkPieceKeeps, WalkDoneKeeps, ReturnKeeps
<1> QED
  BY <1>1, <1>2 DEF Next

THEOREM FileInvariance == Spec => []FileInv
  BY InitFileInv, NextFileInv, PTL DEF Spec

LEMMA TypesFollow == FileInv => TypeOK
<1> SUFFICES ASSUME FileInv PROVE TypeOK
  OBVIOUS
<1>1. /\ rgsImpl.n \in 0..MaxEnd /\ rgsImpl.per = SegSize
      /\ rgsImpl.seg \in [0..rgsImpl.blocks-1 -> [0..SegSize-1 -> Values \cup {Raw}] \cup {Null}]
  BY MemFileAssumption DEF FileInv, FileTyped, Shaped, Cells
<1> QED
  BY <1>1 DEF FileInv, FileTyped, IInv, Labels, TypeOK

\* Whatever the threads do, the array of the file stays well formed and every
\* position is one that the bounds allow; not even an Apply during a write leaves
\* the array.
THEOREM StreamsAreTyped == Spec => []TypeOK
<1>1. QED
  BY FileInvariance, TypesFollow, PTL

\* If the client applies only while nobody writes, what a call was given is what
\* one file held that existed while the call was made, however many threads write
\* in between and however many chunks a transfer takes.
THEOREM StreamsSee == ASSUME Careful PROVE Spec => []StreamsSeeOneFile
<1>1. FileInv => StreamsSeeOneFile
  <2>1. FileInv => OneFileSeen
    BY DEF FileInv, Seeing, OneFileSeen
  <2> QED
    BY <2>1, TypesFollow DEF StreamsSeeOneFile
<1>2. QED
  BY FileInvariance, <1>1, PTL

-----------------------------------------------------------------------------
(***************************************************************************)
(* The refinement.  A call is made in the step that brings its thread to   *)
(* "return": the end of the lock's scope, the end of the walk, or the call *)
(* itself when only the position moves.                                    *)
(***************************************************************************)

PosOf(t) == IF pc[t] = "return" THEN NextPosition(t) ELSE posCur[t]
LastOf(t) == IF pc[t] = "return" THEN [op |-> op[t], ret |-> ret[t], out |-> out[t]] ELSE NoCall

LEMMA ResultsAreNew ==
    ASSUME NEW a, NEW b, NEW c
    PROVE  [op |-> a, ret |-> b, out |-> c] # NoCall
<1>1. DOMAIN [op |-> a, ret |-> b, out |-> c] = {"op", "ret", "out"} /\ DOMAIN NoCall = {"kind"}
  BY DEF NoCall
<1>2. "op" \notin {"kind"}
  OBVIOUS
<1> QED
  BY <1>1, <1>2

LEMMA InitRefines == Init => Atomic!Init
<1> SUFFICES ASSUME Init PROVE Atomic!Init
  OBVIOUS
<1>1. \A t \in Threads : pc[t] = "idle" /\ posCur[t] = 0
  BY DEF Init
<1> QED
  BY <1>1 DEF Init, Atomic!Init

\* A step that leaves every thread's position and result, and the file.
LEMMA NothingMade ==
    ASSUME committed' = committed,
           \A u \in Threads : PosOf(u)' = PosOf(u) /\ LastOf(u)' = LastOf(u)
    PROVE  UNCHANGED Atomic!vars
<1>1. [u \in Threads |-> PosOf(u)]' = [u \in Threads |-> PosOf(u)]
  OBVIOUS
<1>2. [u \in Threads |-> LastOf(u)]' = [u \in Threads |-> LastOf(u)]
  OBVIOUS
<1> QED
  BY <1>1, <1>2 DEF Atomic!vars, PosOf, LastOf

\* What the call that thread t has just finished does to the file and its position.
Effect(t) ==
    LET c == op'[t]  r == ret'[t]  o == out'[t]  p == posCur[t]  q == PosOf(t)' IN
    \/ /\ c.kind \in Writes
       /\ \/ r = -1 /\ UNCHANGED committed /\ q = p
          \/ r = Len(c.vals) /\ Partly(committed', committed, p, c.vals, Len(c.vals)) /\ q = p + r
    \/ /\ c.kind = "read" /\ o = SubSeq(committed, p + 1, Lesser(p + c.len, Len(committed)))
       /\ r = Len(o) /\ q = p + r /\ UNCHANGED committed
    \/ /\ c.kind = "apply" /\ o = SubSeq(committed, p + 1, p + c.len)
       /\ q = p /\ UNCHANGED committed
    \/ c.kind = "seek" /\ q = (IF c.off < 0 THEN p ELSE c.off) /\ UNCHANGED committed
    \/ c.kind = "seekCur" /\ q = (IF p + c.off < 0 THEN p ELSE p + c.off) /\ UNCHANGED committed
    \/ /\ c.kind = "seekEnd" /\ q = (IF Len(committed) + c.off < 0 THEN p ELSE Len(committed) + c.off)
       /\ UNCHANGED committed

LEMMA CallMade ==
    ASSUME NEW t \in Threads, pc[t] # "return", pc'[t] = "return",
           \A u \in Threads \ {t} : PosOf(u)' = PosOf(u) /\ LastOf(u)' = LastOf(u),
           Effect(t), posCur[t] \in Nat,
           op'[t].kind \in Writes => Len(op'[t].vals) \in Nat,
           op'[t].kind = "seek" => op'[t].off \in Int
    PROVE  Atomic!Next
<1> DEFINE file == committed
           pos == [u \in Threads |-> PosOf(u)]
           last == [u \in Threads |-> LastOf(u)]
           c == op'[t]
           r == ret'[t]
           p == posCur[t]
<1>1. /\ pos[t] = p /\ last[t] = NoCall
      /\ last'[t] = [op |-> c, ret |-> r, out |-> out'[t]]
  BY DEF PosOf, LastOf
<1>2. last'[t].op = c /\ last'[t].ret = r /\ last'[t].out = out'[t] /\ last'[t] # NoCall
  BY <1>1, ResultsAreNew
<1>3. /\ pos' = [pos EXCEPT ![t] = PosOf(t)']
      /\ \A u \in Threads \ {t} : last'[u] = last[u]
  OBVIOUS
<1>4. PosOf(t)' = p => pos' = pos
  BY <1>1, <1>3
<1> HIDE DEF pos, last, c, r, p
<1>5. ASSUME c.kind \in Writes
      PROVE  \/ r = -1 /\ committed' = committed /\ pos' = pos
             \/ /\ r = Len(c.vals) /\ pos' = [pos EXCEPT ![t] = pos[t] + r]
                /\ Partly(committed', committed, pos[t], c.vals, Len(c.vals))
                /\ pos[t]+Len(c.vals)-Len(c.vals)+1 = pos[t] + 1
  <2>1. \/ r = -1 /\ UNCHANGED committed /\ PosOf(t)' = p
        \/ /\ r = Len(c.vals) /\ Partly(committed', committed, p, c.vals, Len(c.vals))
           /\ PosOf(t)' = p + r
    BY <1>5 DEF Effect, Writes, c, r, p
  <2>2. p+Len(c.vals)-Len(c.vals)+1 = p + 1
    BY <1>5 DEF c, p
  <2> QED
    BY <1>1, <1>3, <1>4, <2>1, <2>2, Zenon
<1>6. ASSUME c.kind = "read"
      PROVE  /\ out'[t] = SubSeq(committed, pos[t] + 1, IF pos[t] + c.len < Len(committed) THEN pos[t] + c.len ELSE Len(committed))
             /\ r = Len(out'[t]) /\ committed' = committed /\ pos' = [pos EXCEPT ![t] = pos[t] + r]
  <2>1. /\ out'[t] = SubSeq(committed, p + 1, Lesser(p + c.len, Len(committed)))
        /\ r = Len(out'[t]) /\ PosOf(t)' = p + r /\ UNCHANGED committed
    BY <1>6 DEF Effect, Writes, c, r, p
  <2> QED
    BY <1>1, <1>3, <2>1, Zenon DEF Lesser
<1>7. ASSUME c.kind = "apply"
      PROVE  out'[t] = SubSeq(committed, pos[t] + 1, pos[t] + c.len) /\ committed' = committed /\ pos' = pos
  <2>1. out'[t] = SubSeq(committed, p + 1, p + c.len) /\ PosOf(t)' = p /\ UNCHANGED committed
    BY <1>7 DEF Effect, Writes, c, r, p
  <2> QED
    BY <1>1, <1>4, <2>1, Zenon
<1> DEFINE Moved2(whence) ==
        /\ committed' = committed
        /\ pos' = [pos EXCEPT ![t] = IF whence + c.off < 0 THEN pos[t] ELSE whence + c.off]
<1>8. c.kind = "seek" => Moved2(0)
  <2>1. c.kind = "seek" => 0 + c.off = c.off
    BY DEF c
  <2>2. c.kind = "seek" => committed' = committed /\ PosOf(t)' = IF c.off < 0 THEN p ELSE c.off
    BY DEF Effect, Writes, c, r, p
  <2> QED
    BY <1>1, <1>3, <2>1, <2>2, Zenon
<1>9. c.kind = "seekCur" => Moved2(pos[t])
  <2>1. c.kind = "seekCur" => committed' = committed /\ PosOf(t)' = IF p + c.off < 0 THEN p ELSE p + c.off
    BY DEF Effect, Writes, c, r, p
  <2> QED
    BY <1>1, <1>3, <2>1, Zenon
<1>10. c.kind = "seekEnd" => Moved2(Len(committed))
  <2>1. c.kind = "seekEnd" =>
            committed' = committed /\ PosOf(t)' = IF Len(committed) + c.off < 0 THEN p ELSE Len(committed) + c.off
    BY DEF Effect, Writes, c, r, p
  <2> QED
    BY <1>1, <1>3, <2>1, Zenon
<1>11. last[t] = NoCall /\ \A u \in Threads \ {t} : last'[u] = last[u]
  BY <1>1, <1>3
<1>12. c.kind \in Writes \cup {"read", "apply", "seek", "seekCur", "seekEnd"}
  BY DEF Effect, Writes, c
<1>13. Atomic!Make(t)
  <2> USE DEF Atomic!Make, pos, last, PosOf, LastOf
  <2>1. CASE c.kind \in Writes
    BY <1>2, <1>5, <1>11, <2>1 DEF Atomic!Write, Atomic!Written, Partly, Writes
  <2>2. CASE c.kind = "read"
    BY <1>2, <1>6, <1>11, <2>2 DEF Atomic!Read
  <2>3. CASE c.kind = "apply"
    BY <1>2, <1>7, <1>11, <2>3 DEF Atomic!Apply
  <2>4. CASE c.kind = "seek"
    BY <1>2, <1>8, <1>11, <2>4 DEF Atomic!Seek
  <2>5. CASE c.kind = "seekCur"
    BY <1>2, <1>9, <1>11, <2>5 DEF Atomic!Seek
  <2>6. CASE c.kind = "seekEnd"
    BY <1>2, <1>10, <1>11, <2>6 DEF Atomic!Seek
  <2> HIDE DEF Atomic!Make, pos, last, PosOf, LastOf
  <2> QED
    BY <1>12, <2>1, <2>2, <2>3, <2>4, <2>5, <2>6
<1> QED
  BY <1>2, <1>13, Zenon DEF Atomic!Next, last, LastOf

\* Every step of the file's calls is one of these, or the return of a call.
LEMMA StepRefines ==
    ASSUME Careful, FileInv, FileInv', NEW t \in Threads,
           Call(t) \/ Lock(t) \/ MakeRoom(t) \/ CopyChunk(t) \/ WriteDone(t) \/ ReadChunk(t)
           \/ EndPos(t) \/ Unlock(t) \/ WalkPiece(t) \/ WalkDone(t) \/ Return(t)
    PROVE  Atomic!Next \/ UNCHANGED Atomic!vars
<1>1. ASSUME NEW u \in Threads \ {t}
      PROVE  PosOf(u)' = PosOf(u) /\ LastOf(u)' = LastOf(u)
  <2>1. /\ pc'[u] = pc[u] /\ posCur'[u] = posCur[u] /\ op'[u] = op[u]
        /\ out'[u] = out[u] /\ ret'[u] = ret[u]
    <3> USE DEF FileInv, FileTyped, IInv, Goto
    <3>0. CASE Call(t)
      <4>1. PICK c \in Requests :
              /\ op' = [op EXCEPT ![t] = c]
              /\ pc' = [pc EXCEPT ![t] =
                    IF c.kind \in {"seek", "seekCur"} THEN "return"
                    ELSE IF c.kind = "apply" THEN "walk" ELSE "lock"]
              /\ ret' = [ret EXCEPT ![t] =
                    CASE c.kind = "seek" -> c.off
                      [] c.kind = "seekCur" -> posCur[t] + c.off
                      [] OTHER -> 0]
        BY <3>0 DEF Call
      <4>2. posCur' = posCur /\ out' = [out EXCEPT ![t] = <<>>]
        BY <3>0, Zenon DEF Call
      <4>3. op'[u] = op[u] /\ pc'[u] = pc[u] /\ ret'[u] = ret[u]
        BY <4>1, Zenon
      <4>4. posCur'[u] = posCur[u] /\ out'[u] = out[u]
        BY <4>2, Zenon
      <4> QED
        BY <4>3, <4>4
    <3>1. CASE Lock(t)
      BY <3>1 DEF Lock
    <3>2. CASE MakeRoom(t)
      BY <3>2 DEF MakeRoom
    <3>3. CASE CopyChunk(t)
      BY <3>3 DEF CopyChunk
    <3>4. CASE WriteDone(t)
      BY <3>4, Zenon DEF WriteDone
    <3>5. CASE ReadChunk(t)
      BY <3>5, Zenon DEF ReadChunk
    <3>6. CASE EndPos(t)
      BY <3>6 DEF EndPos
    <3>7. CASE Unlock(t)
      BY <3>7 DEF Unlock
    <3>8. CASE WalkPiece(t)
      BY <3>8 DEF WalkPiece
    <3>9. CASE WalkDone(t)
      BY <3>9 DEF WalkDone
    <3>10. CASE Return(t)
      BY <3>10 DEF Return
    <3> QED
      BY <3>0, <3>1, <3>2, <3>3, <3>4, <3>5, <3>6, <3>7, <3>8, <3>9, <3>10
  <2> QED
    BY <2>1 DEF PosOf, LastOf, NextPosition
<1>2. Arguments(t) /\ Holding(t) /\ Walking(t) /\ Arguments(t)'
  BY DEF FileInv
<1>3. CASE committed' = committed /\ posCur'[t] = posCur[t] /\ pc[t] # "return" /\ pc'[t] # "return"
  <2>1. PosOf(t)' = PosOf(t) /\ LastOf(t)' = LastOf(t)
    BY <1>3 DEF PosOf, LastOf
  <2> QED
    BY <1>1, <1>3, <2>1, NothingMade
<1>4. CASE Return(t)
  <2>1. /\ pc[t] = "return" /\ pc'[t] = "idle" /\ posCur'[t] = NextPosition(t) /\ committed' = committed
    BY <1>4 DEF Return, Goto, FileInv, FileTyped, IInv
  <2>2. PosOf(t)' = PosOf(t) /\ LastOf(t)' = NoCall /\ LastOf(t) # NoCall
    BY <2>1, ResultsAreNew DEF PosOf, LastOf
  <2>3. [u \in Threads |-> PosOf(u)]' = [u \in Threads |-> PosOf(u)]
    BY <1>1, <2>2
  <2>4. [u \in Threads |-> LastOf(u)]' = [[u \in Threads |-> LastOf(u)] EXCEPT ![t] = NoCall]
    <3>1. \A u \in Threads : LastOf(u)' = IF u = t THEN NoCall ELSE LastOf(u)
      BY <1>1, <2>2
    <3>2. [u \in Threads |-> LastOf(u)]' = [u \in Threads |-> IF u = t THEN NoCall ELSE LastOf(u)]
      BY <3>1, Zenon
    <3>3. [u \in Threads |-> IF u = t THEN NoCall ELSE LastOf(u)]
            = [[u \in Threads |-> LastOf(u)] EXCEPT ![t] = NoCall]
      OBVIOUS
    <3> QED
      BY <3>2, <3>3, Zenon
  <2>5. [u \in Threads |-> LastOf(u)][t] # NoCall /\ [u \in Threads |-> LastOf(u)]'[t] = NoCall
    BY <2>2
  <2>6. Atomic!Return(t)
    BY <2>1, <2>3, <2>4, <2>5, Zenon DEF Atomic!Return, PosOf, LastOf
  <2>7. Atomic!Next
    BY <2>5, <2>6, Zenon DEF Atomic!Next, LastOf
  <2> QED
    BY <2>7
<1>5. CASE Call(t)
  <2>1. pc[t] = "idle" /\ committed' = committed /\ posCur'[t] = posCur[t]
    BY <1>5, Zenon DEF Call
  <2>2. PICK c \in Requests :
          /\ op' = [op EXCEPT ![t] = c]
          /\ pc' = [pc EXCEPT ![t] =
                IF c.kind \in {"seek", "seekCur"} THEN "return"
                ELSE IF c.kind = "apply" THEN "walk" ELSE "lock"]
          /\ ret' = [ret EXCEPT ![t] =
                CASE c.kind = "seek" -> c.off
                  [] c.kind = "seekCur" -> posCur[t] + c.off
                  [] OTHER -> 0]
    BY <1>5 DEF Call, Goto
  <2>3. /\ op'[t] = c
        /\ pc'[t] = IF c.kind \in {"seek", "seekCur"} THEN "return"
                    ELSE IF c.kind = "apply" THEN "walk" ELSE "lock"
        /\ ret'[t] = CASE c.kind = "seek" -> c.off
                       [] c.kind = "seekCur" -> posCur[t] + c.off
                       [] OTHER -> 0
    BY <2>2 DEF FileInv, FileTyped, IInv
  <2>4. CASE c.kind \in {"seek", "seekCur"}
    <3>1. pc'[t] = "return" /\ c.off \in Int
      BY <2>3, <2>4, RequestForms
    <3>2. PosOf(t)' = IF ret'[t] < 0 THEN posCur[t] ELSE ret'[t]
      BY <2>1, <2>3, <2>4, <3>1 DEF PosOf, NextPosition
    <3>3. Effect(t)
      BY <2>1, <2>3, <2>4, <3>2 DEF Effect, Writes
    <3>4. posCur[t] \in Nat
      BY OwnTypes
    <3> QED
      BY <1>1, <2>1, <2>3, <2>4, <3>1, <3>3, <3>4, CallMade DEF Writes
  <2>5. CASE c.kind \notin {"seek", "seekCur"}
    BY <1>3, <2>1, <2>3, <2>5
  <2> QED
    BY <2>4, <2>5
<1>6. CASE Unlock(t)
  <2>1. /\ pc[t] = "unlock" /\ pc'[t] = "return" /\ committed' = Elements(rgsImpl)
        /\ posCur' = posCur /\ op' = op /\ ret' = ret /\ out' = out
    BY <1>6 DEF Unlock, Goto, FileInv, IInv
  <2>2. op[t].kind \in Writes \cup {"read", "seekEnd"}
    BY <1>2, <2>1 DEF Arguments, KindsAt
  <2>3. PosOf(t)' = IF op[t].kind = "seekEnd" THEN IF ret[t] < 0 THEN posCur[t] ELSE ret[t]
                    ELSE IF ret[t] = -1 THEN posCur[t] ELSE posCur[t] + ret[t]
    BY <2>1, <2>2 DEF PosOf, NextPosition, Writes
  <2>4. posCur[t] \in Nat
    BY OwnTypes
  <2>5. op[t].kind \in Writes => Len(op[t].vals) \in Nat
    BY OwnTypes, RequestForms DEF NoCall, Writes
  <2>6. Effect(t)
    <3>1. CASE op[t].kind \in Writes
      <4>1. \/ ret[t] = -1 /\ committed' = committed
            \/ /\ ret[t] = Len(op[t].vals)
               /\ Partly(committed', committed, posCur[t], op[t].vals, Len(op[t].vals))
        BY <1>2, <2>1, <3>1 DEF Holding
      <4>2. PosOf(t)' = IF ret[t] = -1 THEN posCur[t] ELSE posCur[t] + ret[t]
        BY <2>3, <3>1 DEF Writes
      <4>3. ret[t] = Len(op[t].vals) => ret[t] # -1
        BY <2>5, <3>1
      <4> QED
        BY <2>1, <3>1, <4>1, <4>2, <4>3 DEF Effect
    <3>2. CASE op[t].kind = "read"
      <4>1. /\ committed' = committed /\ ret[t] = ReadLen(t) /\ Len(out[t]) = ret[t]
            /\ Piece(out[t], committed, posCur[t])
        BY <1>2, <2>1, <3>2 DEF Holding
      <4>2. out[t] = SubSeq(committed, posCur[t] + 1, Lesser(posCur[t] + op[t].len, Len(committed)))
        BY <3>2, <4>1, OneRead
      <4>3. PosOf(t)' = posCur[t] + ret[t]
        BY <2>3, <3>2, <4>1, ReadLenBounds
      <4> QED
        BY <2>1, <3>2, <4>1, <4>2, <4>3 DEF Effect
    <3>3. CASE op[t].kind = "seekEnd"
      <4>1. committed' = committed /\ ret[t] = Len(committed) + op[t].off
        BY <1>2, <2>1, <3>3 DEF Holding
      <4> QED
        BY <2>1, <2>3, <3>3, <4>1 DEF Effect
    <3> QED
      BY <2>2, <3>1, <3>2, <3>3
  <2>7. op'[t].kind # "seek"
    BY <2>1, <2>2 DEF Writes
  <2> QED
    BY <1>1, <2>1, <2>4, <2>5, <2>6, <2>7, CallMade
<1>7. CASE WalkDone(t)
  <2>1. /\ pc[t] = "walk" /\ pc'[t] = "return" /\ nDone[t] = op[t].len
        /\ committed' = committed /\ posCur' = posCur /\ op' = op /\ ret' = ret /\ out' = out
    BY <1>7 DEF WalkDone, Goto, FileInv, IInv
  <2>2. op[t].kind = "apply" /\ ret[t] = 0
    BY <1>2, <2>1 DEF Arguments, KindsAt
  <2>3. posCur[t] \in Nat /\ committed \in Seq(Cells)
    BY OwnTypes
  <2>4. PosOf(t)' = posCur[t]
    BY <2>1, <2>2, <2>3 DEF PosOf, NextPosition
  <2>5. out[t] = SubSeq(committed, posCur[t] + 1, posCur[t] + op[t].len)
    <3>1. Piece(out[t], committed, posCur[t]) /\ Len(out[t]) = op[t].len
      BY <1>2, <2>1 DEF Walking
    <3> QED
      BY <2>3, <3>1, PieceIs
  <2>6. Effect(t)
    BY <2>1, <2>2, <2>4, <2>5 DEF Effect
  <2> QED
    BY <1>1, <2>1, <2>2, <2>3, <2>6, CallMade DEF Writes
<1>8. CASE Lock(t) \/ MakeRoom(t) \/ CopyChunk(t) \/ WriteDone(t) \/ ReadChunk(t)
           \/ EndPos(t) \/ WalkPiece(t)
  <2>1. committed' = committed /\ posCur'[t] = posCur[t] /\ pc[t] # "return" /\ pc'[t] # "return"
    <3> USE DEF FileInv, IInv, Goto
    <3>1. CASE Lock(t)
      BY <3>1 DEF Lock
    <3>2. CASE MakeRoom(t)
      BY <3>2 DEF MakeRoom
    <3>3. CASE CopyChunk(t)
      BY <3>3 DEF CopyChunk
    <3>4. CASE WriteDone(t)
      BY <3>4, Zenon DEF WriteDone
    <3>5. CASE ReadChunk(t)
      BY <3>5, Zenon DEF ReadChunk
    <3>6. CASE EndPos(t)
      BY <3>6 DEF EndPos
    <3>7. CASE WalkPiece(t)
      BY <3>7 DEF WalkPiece
    <3> QED
      BY <1>8, <3>1, <3>2, <3>3, <3>4, <3>5, <3>6, <3>7
  <2> QED
    BY <1>3, <2>1
<1> QED
  BY <1>4, <1>5, <1>6, <1>7, <1>8

\* Streams on a MemFile behave like streams on a file whose calls are atomic, if
\* the client applies only while nobody writes: every call has its effect on the
\* file and on its stream's position in one step, and returns what that file held.
THEOREM FileIsAtomic == ASSUME Careful PROVE Spec => ImplementsAtomicFile
<1>1. FileInv /\ FileInv' /\ [Next]_vars => [Atomic!Next]_(Atomic!vars)
  <2> SUFFICES ASSUME FileInv, FileInv', [Next]_vars PROVE Atomic!Next \/ UNCHANGED Atomic!vars
    OBVIOUS
  <2>1. CASE UNCHANGED vars
    <3>1. \A u \in Threads : PosOf(u)' = PosOf(u) /\ LastOf(u)' = LastOf(u)
      BY <2>1 DEF vars, PosOf, LastOf, NextPosition
    <3> QED
      BY <2>1, <3>1, NothingMade DEF vars
  <2> QED
    BY <2>1, StepRefines DEF Next
<1>2. QED
  BY InitRefines, FileInvariance, <1>1, PTL DEF Spec, ImplementsAtomicFile, Atomic!Spec
=============================================================================
