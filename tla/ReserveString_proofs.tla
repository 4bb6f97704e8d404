------------------------ MODULE ReserveString_proofs ------------------------
(***************************************************************************)
(* Whatever the lengths of the buffer and of a std::string: strings whose  *)
(* client is cautious know every std::string that was made, read no        *)
(* characters that are not there, and do what std::strings do.             *)
(***************************************************************************)
EXTENDS ReserveString, FiniteSetTheorems, SequenceTheorems, TLAPS

(***************************************************************************)
(* The invariant: a text is in the buffer and leaves room for the flags,   *)
(* or on the heap.  A std::string is never short enough to have its text   *)
(* in itself, or bytes that are swapped would take an address with them.   *)
(***************************************************************************)
StoredTexts == Seq(Chars \cup {Junk})
OnHeap(t) == [obj |-> TRUE, text |-> t, home |-> Heap]
Kept == {NoString} \cup {Buffer(t) : t \in {u \in StoredTexts : Len(u) < Reserve}} \cup {OnHeap(t) : t \in StoredTexts}

StringInv ==
    /\ str \in [Strings -> Kept]
    /\ made = Cardinality(WithObject(str))
    /\ ~astray

One(s) == IF s.obj THEN 1 ELSE 0

-----------------------------------------------------------------------------
(***************************************************************************)
(* Texts and where they are kept.                                          *)
(***************************************************************************)

LEMMA KeptCases ==
    ASSUME NEW s \in Kept
    PROVE  /\ s.obj \in BOOLEAN /\ s.text \in StoredTexts
           /\ s.obj => s = OnHeap(s.text) /\ s.home = Heap /\ s # NoString
           /\ ~s.obj => Len(s.text) < Reserve
<1>1. CASE s = NoString
  <2>1. <<>> \in StoredTexts /\ Len(<<>>) = 0
    BY EmptySeq DEF StoredTexts
  <2> QED
    BY <1>1, <2>1, StringAssumption DEF NoString
<1>2. CASE \E t \in StoredTexts : Len(t) < Reserve /\ s = Buffer(t)
  BY <1>2 DEF Buffer
<1>3. CASE \E t \in StoredTexts : s = OnHeap(t)
  <2>1. PICK t \in StoredTexts : s = OnHeap(t)
    BY <1>3
  <2>2. s.obj = TRUE /\ s.text = t /\ s.home = Heap
    BY <2>1 DEF OnHeap
  <2>3. NoString.obj = FALSE
    BY DEF NoString
  <2> QED
    BY <2>1, <2>2, <2>3
<1> QED
  BY <1>1, <1>2, <1>3 DEF Kept

LEMMA BufferKept ==
    ASSUME NEW t \in StoredTexts, Len(t) < Reserve
    PROVE  Buffer(t) \in Kept /\ Buffer(t).obj = FALSE /\ Buffer(t).text = t
BY DEF Kept, Buffer

LEMMA OnHeapKept ==
    ASSUME NEW t \in StoredTexts
    PROVE  OnHeap(t) \in Kept /\ OnHeap(t).obj = TRUE /\ OnHeap(t).text = t
<1>1. OnHeap(t) \in Kept
  BY DEF Kept
<1> QED
  BY <1>1 DEF OnHeap

LEMMA InObjectKept ==
    ASSUME NEW x, NEW t \in StoredTexts, Len(t) > Inline
    PROVE  InObject(x, t) \in Kept /\ InObject(x, t).obj = TRUE /\ InObject(x, t).text = t
<1>1. ~(Len(t) <= Inline)
  BY StringAssumption, LenProperties DEF StoredTexts
<1>2. InObject(x, t) = OnHeap(t)
  BY <1>1 DEF InObject, OnHeap
<1> QED
  BY <1>2, OnHeapKept

LEMMA ReassignedKept ==
    ASSUME NEW s \in Kept, s.obj, NEW t \in StoredTexts
    PROVE  Reassigned(s, t) \in Kept /\ Reassigned(s, t).obj = TRUE /\ Reassigned(s, t).text = t
<1>1. s.home = Heap
  BY KeptCases
<1>2. Reassigned(s, t) = OnHeap(t)
  BY <1>1 DEF Reassigned, OnHeap
<1> QED
  BY <1>2, OnHeapKept

LEMMA TextsStored ==
    /\ \A t \in AllTexts : t \in StoredTexts /\ t \in Seq(Chars)
    /\ <<>> \in StoredTexts /\ Len(<<>>) = 0 /\ <<Junk>> \in StoredTexts /\ Len(<<Junk>>) = 1
<1>1. ASSUME NEW t \in AllTexts PROVE t \in Seq(Chars)
  BY <1>1, StringAssumption, SeqDef DEF AllTexts
<1>2. ASSUME NEW t \in Seq(Chars) PROVE t \in StoredTexts
  BY <1>2, SeqDef DEF StoredTexts
<1> QED
  BY <1>1, <1>2 DEF StoredTexts

LEMMA AllStored ==
    ASSUME NEW n \in Nat, NEW ch \in Chars
    PROVE  /\ All(n, ch) \in Seq(Chars) /\ All(n, ch) \in StoredTexts /\ Len(All(n, ch)) = n
           /\ \A i \in 1 .. n : All(n, ch)[i] = ch
<1>1. All(n, ch) \in [1 .. n -> Chars] /\ All(n, ch) \in [1 .. n -> Chars \cup {Junk}]
  BY DEF All
<1>2. All(n, ch) \in Seq(Chars) /\ All(n, ch) \in StoredTexts
  BY <1>1, SeqDef DEF StoredTexts
<1>3. Len(All(n, ch)) = n
  BY <1>1, <1>2, LenProperties DEF StoredTexts
<1> QED
  BY <1>2, <1>3 DEF All

\* The old characters, and the new one behind them if there is room.
LEMMA ResizedText ==
    ASSUME NEW t \in StoredTexts, NEW n \in Nat, NEW ch \in Chars
    PROVE  /\ Resized(t, n, ch) \in StoredTexts /\ Len(Resized(t, n, ch)) = n
           /\ \A i \in 1 .. n : Resized(t, n, ch)[i] = ch \/ (i <= Len(t) /\ Resized(t, n, ch)[i] = t[i])
<1> DEFINE k == IF n < Len(t) THEN n ELSE Len(t)
           m == IF n < Len(t) THEN 0 ELSE n - Len(t)
           front == SubSeq(t, 1, k)
           back == All(m, ch)
<1>1. Len(t) \in Nat /\ k \in 0 .. Len(t) /\ k \in Nat /\ m \in Nat /\ k + m = n
  BY LenProperties DEF StoredTexts
<1>2. front \in StoredTexts /\ Len(front) = k /\ \A i \in 1 .. k : front[i] = t[i]
  BY <1>1, SubSeqProperties DEF StoredTexts
<1>3. back \in StoredTexts /\ Len(back) = m /\ \A i \in 1 .. m : back[i] = ch
  BY <1>1, AllStored
<1>4. Resized(t, n, ch) = front \o back
  BY DEF Resized
<1> HIDE DEF k, m, front, back
<1>5. front \o back \in StoredTexts /\ Len(front \o back) = n
  BY <1>1, <1>2, <1>3, ConcatProperties DEF StoredTexts
<1>6. ASSUME NEW i \in 1 .. n PROVE (front \o back)[i] = ch \/ (i <= Len(t) /\ (front \o back)[i] = t[i])
  <2>1. CASE i <= k
    BY <1>1, <1>2, <1>3, <1>6, <2>1, ConcatProperties DEF StoredTexts
  <2>2. CASE ~(i <= k)
    <3>1. i - k \in 1 .. m
      BY <1>1, <1>6, <2>2
    <3>2. (front \o back)[i] = back[i - k]
      BY <1>1, <1>2, <1>3, <1>6, <2>2, ConcatProperties DEF StoredTexts
    <3> QED
      BY <1>3, <3>1, <3>2
  <2> QED
    BY <2>1, <2>2
<1> QED
  BY <1>4, <1>5, <1>6

-----------------------------------------------------------------------------
(***************************************************************************)
(* How many std::strings there are.                                        *)
(***************************************************************************)

LEMMA ObjectsFinite ==
    ASSUME NEW f
    PROVE  IsFiniteSet(WithObject(f)) /\ Cardinality(WithObject(f)) \in Nat
<1>1. WithObject(f) \in SUBSET Strings
  BY DEF WithObject
<1> QED
  BY <1>1, StringAssumption, FS_Subset, FS_CardinalityType

Recounted(f, x, s, g) ==
    g \in [Strings -> Kept] /\ Cardinality(WithObject(g)) + One(f[x]) = Cardinality(WithObject(f)) + One(s)

\* Another s in the place of x.
LEMMA OnePlace ==
    ASSUME NEW f \in [Strings -> Kept], NEW x \in Strings, NEW s \in Kept, NEW g, g = [f EXCEPT ![x] = s]
    PROVE  Recounted(f, x, s, g)
<1>1. g \in [Strings -> Kept] /\ g[x] = s /\ \A z \in Strings \ {x} : g[z] = f[z]
  OBVIOUS
<1>2. f[x].obj \in BOOLEAN /\ s.obj \in BOOLEAN
  BY KeptCases
<1>3. CASE s.obj
  <2>1. WithObject(g) = WithObject(f) \cup {x}
    BY <1>1, <1>3 DEF WithObject
  <2>2. x \in WithObject(f) <=> f[x].obj
    BY DEF WithObject
  <2>3. Cardinality(WithObject(g)) = IF x \in WithObject(f) THEN Cardinality(WithObject(f)) ELSE Cardinality(WithObject(f)) + 1
    BY <2>1, ObjectsFinite, FS_AddElement
  <2> QED
    BY <1>1, <1>2, <1>3, <2>2, <2>3, ObjectsFinite DEF One, Recounted
<1>4. CASE ~s.obj
  <2>1. WithObject(g) = WithObject(f) \ {x}
    BY <1>1, <1>4 DEF WithObject
  <2>2. x \in WithObject(f) <=> f[x].obj
    BY DEF WithObject
  <2>3. Cardinality(WithObject(g)) = IF x \in WithObject(f) THEN Cardinality(WithObject(f)) - 1 ELSE Cardinality(WithObject(f))
    BY <2>1, ObjectsFinite, FS_RemoveElement, ZenonT(60)
  <2> QED
    BY <1>1, <1>2, <1>4, <2>2, <2>3, ObjectsFinite DEF One, Recounted
<1> QED
  BY <1>3, <1>4

RecountedTwo(f, x, y, a, b, h) ==
    /\ h \in [Strings -> Kept]
    /\ Cardinality(WithObject(h)) + One(f[x]) + One(f[y]) = Cardinality(WithObject(f)) + One(a) + One(b)

\* Two of them.
LEMMA TwoPlaces ==
    ASSUME NEW f \in [Strings -> Kept], NEW x \in Strings, NEW y \in Strings, x # y, NEW a \in Kept, NEW b \in Kept,
           NEW h, h = [f EXCEPT ![x] = a, ![y] = b]
    PROVE  RecountedTwo(f, x, y, a, b, h)
<1> DEFINE g == [f EXCEPT ![x] = a]
<1>0. g = [f EXCEPT ![x] = a]
  OBVIOUS
<1>2. g[y] = f[y] /\ h = [g EXCEPT ![y] = b]
  OBVIOUS
<1> HIDE DEF g
<1>1. Recounted(f, x, a, g)
  BY <1>0, OnePlace
<1>3. Recounted(g, y, b, h)
  <2>1. g \in [Strings -> Kept]
    BY <1>1 DEF Recounted
  <2> QED
    BY <1>2, <2>1, OnePlace
<1>4. /\ Cardinality(WithObject(f)) \in Nat /\ Cardinality(WithObject(g)) \in Nat /\ Cardinality(WithObject(h)) \in Nat
      /\ One(f[x]) \in Nat /\ One(f[y]) \in Nat /\ One(a) \in Nat /\ One(b) \in Nat
  BY ObjectsFinite DEF One
<1> QED
  BY <1>1, <1>2, <1>3, <1>4 DEF Recounted, RecountedTwo

-----------------------------------------------------------------------------
(***************************************************************************)
(* What a call does: one that comes through, and one that does not.        *)
(***************************************************************************)

Left(c, x, s, m) ==
    /\ str' = [str EXCEPT ![x] = s] /\ str'[x] = s /\ made' = m /\ astray' = astray
    /\ \A z \in Strings \ {x} : str'[z] = str[z]
    /\ sop'.call = c /\ sop'.on = x /\ sop'.threw = FALSE

LEMMA LeavesSays ==
    ASSUME NEW c, NEW x \in Strings, NEW s, NEW m, Leaves(c, x, s, m), StringInv
    PROVE  Left(c, x, s, m)
<1>1. /\ str' = [str EXCEPT ![x] = s] /\ made' = m /\ astray' = astray
      /\ sop' = [call |-> c, on |-> x, threw |-> FALSE]
  BY DEF Leaves
<1>2. sop'.call = c /\ sop'.on = x /\ sop'.threw = FALSE
  BY <1>1
<1>3. str'[x] = s /\ \A z \in Strings \ {x} : str'[z] = str[z]
  BY <1>1 DEF StringInv
<1> QED
  BY <1>1, <1>2, <1>3 DEF Left

LEMMA LeavesKeeps ==
    ASSUME NEW c, NEW x \in Strings, NEW s \in Kept, NEW m, Leaves(c, x, s, m), StringInv,
           m = made - One(str[x]) + One(s)
    PROVE  StringInv'
<1>0. Left(c, x, s, m)
  BY LeavesSays
<1>1. Recounted(str, x, s, str')
  <2>1. str \in [Strings -> Kept]
    BY DEF StringInv
  <2>2. str' = [str EXCEPT ![x] = s]
    BY <1>0 DEF Left
  <2> QED
    BY <2>1, <2>2, OnePlace
<1>2. /\ Cardinality(WithObject(str)) \in Nat /\ Cardinality(WithObject(str')) \in Nat
      /\ One(str[x]) \in Nat /\ One(s) \in Nat
  BY ObjectsFinite DEF One
<1>3. made' = Cardinality(WithObject(str'))
  BY <1>0, <1>1, <1>2 DEF Recounted, StringInv, Left
<1>4. WithObject(str)' = WithObject(str')
  BY DEF WithObject
<1> QED
  BY <1>0, <1>1, <1>3, <1>4 DEF Recounted, StringInv, Left

LEMMA FailsKeeps ==
    ASSUME NEW c, NEW x \in Strings, Fails(c, x), StringInv
    PROVE  StringInv' /\ CallAsPromised
<1> DEFINE s == IF str[x].obj THEN str[x] ELSE Buffer(<<Junk>>)
<1>1. str[x] \in Kept /\ str[x].obj \in BOOLEAN
  BY KeptCases DEF StringInv
<1>2. s \in Kept /\ (s.obj <=> str[x].obj)
  <2>1. <<Junk>> \in StoredTexts /\ Len(<<Junk>>) < Reserve
    BY TextsStored, StringAssumption
  <2>2. Buffer(<<Junk>>) \in Kept /\ Buffer(<<Junk>>).obj = FALSE
    BY <2>1, BufferKept
  <2> QED
    BY <1>1, <2>2
<1>3. /\ str' = [str EXCEPT ![x] = s] /\ made' = made /\ astray' = astray
      /\ sop' = [call |-> c, on |-> x, threw |-> TRUE]
  BY DEF Fails
<1>4. One(str[x]) = One(s) /\ One(s) \in Nat
  BY <1>1, <1>2 DEF One
<1>5. str'[x] = s /\ \A z \in Strings \ {x} : str'[z] = str[z]
  BY <1>3 DEF StringInv
<1>6. sop'.on = x /\ sop'.threw = TRUE
  BY <1>3
<1>7. str[x].obj => s = str[x]
  OBVIOUS
<1> HIDE DEF s
<1>8. Recounted(str, x, s, str')
  <2>1. str \in [Strings -> Kept] /\ str' = [str EXCEPT ![x] = s]
    BY <1>3 DEF StringInv
  <2> QED
    BY <1>2, <2>1, OnePlace
<1>9. made' = Cardinality(WithObject(str'))
  BY <1>3, <1>4, <1>8, ObjectsFinite DEF Recounted, StringInv
<1>10. WithObject(str)' = WithObject(str')
  BY DEF WithObject
<1>11. StringInv'
  BY <1>3, <1>8, <1>9, <1>10 DEF Recounted, StringInv
<1>12. CallAsPromised
  BY <1>5, <1>6, <1>7 DEF CallAsPromised
<1> QED
  BY <1>11, <1>12

\* A call that gives a string this text, or another's.
LEMMA AssignPromised ==
    ASSUME NEW t, NEW x \in Strings, NEW s, NEW m, Leaves([op |-> "assign", text |-> t], x, s, m), StringInv, s.text = t
    PROVE  CallAsPromised
<1> DEFINE c == [op |-> "assign", text |-> t]
<1>1. c.op = "assign" /\ c.text = t
  OBVIOUS
<1>2. Leaves(c, x, s, m)
  OBVIOUS
<1> HIDE DEF c
<1>3. Left(c, x, s, m)
  BY <1>2, LeavesSays
<1> QED
  BY <1>1, <1>3 DEF CallAsPromised, Left

LEMMA CopyPromised ==
    ASSUME NEW x \in Strings, NEW y \in Strings, NEW s, NEW m, Leaves([op |-> "copy", from |-> y], x, s, m), StringInv,
           s.text = str[y].text
    PROVE  CallAsPromised
<1> DEFINE c == [op |-> "copy", from |-> y]
<1>1. c.op = "copy" /\ c.from = y
  OBVIOUS
<1>2. Leaves(c, x, s, m)
  OBVIOUS
<1> HIDE DEF c
<1>3. Left(c, x, s, m)
  BY <1>2, LeavesSays
<1>4. str'[y].text = str[y].text
  BY <1>3 DEF Left
<1> QED
  BY <1>1, <1>3, <1>4 DEF CallAsPromised, Left

LEMMA ResizePromised ==
    ASSUME NEW n, NEW ch, NEW x \in Strings, NEW s, NEW m, Leaves([op |-> "resize", n |-> n, char |-> ch], x, s, m), StringInv,
           Len(s.text) = n,
           \A i \in 1 .. n : s.text[i] = ch \/ (i <= Len(str[x].text) /\ s.text[i] = str[x].text[i])
    PROVE  CallAsPromised
<1> DEFINE c == [op |-> "resize", n |-> n, char |-> ch]
<1>1. c.op = "resize" /\ c.n = n /\ c.char = ch
  OBVIOUS
<1>2. Leaves(c, x, s, m)
  OBVIOUS
<1> HIDE DEF c
<1>3. Left(c, x, s, m)
  BY <1>2, LeavesSays
<1> QED
  BY <1>1, <1>3 DEF CallAsPromised, Left

\* Two strings change: what is in x and y comes from the two, or is empty, and one
\* std::string goes where x had one that is lost.
LEMMA PairKeeps ==
    ASSUME NEW x \in Strings, NEW y \in Strings, x # y, NEW a \in Kept, NEW b \in Kept, StringInv,
           str' = [str EXCEPT ![x] = a, ![y] = b],
           made' = made - One(str[x]) - One(str[y]) + One(a) + One(b), astray' = astray
    PROVE  /\ StringInv'
           /\ str'[x] = a /\ str'[y] = b /\ \A z \in Strings \ {x, y} : str'[z] = str[z]
<1>1. str \in [Strings -> Kept]
  BY DEF StringInv
<1>2. RecountedTwo(str, x, y, a, b, str')
  BY <1>1, TwoPlaces
<1>3. /\ Cardinality(WithObject(str)) \in Nat /\ Cardinality(WithObject(str')) \in Nat
      /\ One(str[x]) \in Nat /\ One(str[y]) \in Nat /\ One(a) \in Nat /\ One(b) \in Nat
  BY ObjectsFinite DEF One
<1>4. made' = Cardinality(WithObject(str'))
  BY <1>2, <1>3 DEF StringInv, RecountedTwo
<1>5. WithObject(str)' = WithObject(str')
  BY DEF WithObject
<1>6. StringInv'
  BY <1>2, <1>4, <1>5 DEF StringInv, RecountedTwo
<1>7. str'[x] = a /\ str'[y] = b /\ \A z \in Strings \ {x, y} : str'[z] = str[z]
  BY <1>1
<1> QED
  BY <1>6, <1>7

-----------------------------------------------------------------------------
(***************************************************************************)
(* The calls, one by one.                                                  *)
(***************************************************************************)

\* Where a text goes that is assigned.
LEMMA AssignToKeeps ==
    ASSUME NEW c, NEW x \in Strings, NEW t \in StoredTexts, AssignTo(c, x, t), StringInv
    PROVE  /\ StringInv'
           /\ CallAsPromised \/ \E s \in Kept, m \in Int : s.text = t /\ Leaves(c, x, s, m)
<1>1. str[x] \in Kept /\ str[x].obj \in BOOLEAN
  BY KeptCases DEF StringInv
<1>2. made \in Nat
  BY ObjectsFinite DEF StringInv
<1>3. CASE Len(t) < Reserve
  <2>1. Leaves(c, x, Buffer(t), Destroyed(x))
    BY <1>3 DEF AssignTo
  <2>2. Buffer(t) \in Kept /\ Buffer(t).obj = FALSE /\ Buffer(t).text = t
    BY <1>3, BufferKept
  <2>3. Destroyed(x) = made - One(str[x]) + One(Buffer(t)) /\ Destroyed(x) \in Int
    BY <1>1, <1>2, <2>2 DEF Destroyed, One
  <2>4. StringInv'
    BY <2>1, <2>2, <2>3, LeavesKeeps
  <2> QED
    BY <2>1, <2>2, <2>3, <2>4
<1>4. CASE ~(Len(t) < Reserve) /\ Fails(c, x)
  BY <1>4, FailsKeeps
<1>5. CASE ~(Len(t) < Reserve) /\ str[x].obj /\ Leaves(c, x, Reassigned(str[x], t), made)
  <2>2. Reassigned(str[x], t) \in Kept /\ Reassigned(str[x], t).obj = TRUE /\ Reassigned(str[x], t).text = t
    BY <1>1, <1>5, ReassignedKept
  <2>3. made = made - One(str[x]) + One(Reassigned(str[x], t))
    BY <1>1, <1>2, <1>5, <2>2 DEF One
  <2>4. StringInv'
    BY <1>5, <2>2, <2>3, LeavesKeeps
  <2> QED
    BY <1>2, <1>5, <2>2, <2>4
<1>6. CASE ~(Len(t) < Reserve) /\ ~str[x].obj /\ Leaves(c, x, InObject(x, t), made + 1)
  <2>1. Len(t) > Inline
    BY <1>6, StringAssumption, LenProperties DEF StoredTexts
  <2>2. InObject(x, t) \in Kept /\ InObject(x, t).obj = TRUE /\ InObject(x, t).text = t
    BY <2>1, InObjectKept
  <2>3. made + 1 = made - One(str[x]) + One(InObject(x, t)) /\ made + 1 \in Int
    BY <1>1, <1>2, <1>6, <2>2 DEF One
  <2>4. StringInv'
    BY <1>6, <2>2, <2>3, LeavesKeeps
  <2> QED
    BY <1>6, <2>2, <2>3, <2>4
<1> QED
  BY <1>3, <1>4, <1>5, <1>6 DEF AssignTo

\* The condition of each lemma: the texts are stored, and x is there.
LEMMA AssignTextKeeps ==
    ASSUME NEW x \in Strings, NEW t \in StoredTexts, AssignTo([op |-> "assign", text |-> t], x, t), StringInv
    PROVE  StringInv' /\ CallAsPromised
<1>1. /\ StringInv'
      /\ CallAsPromised \/ \E s \in Kept, m \in Int : s.text = t /\ Leaves([op |-> "assign", text |-> t], x, s, m)
  BY AssignToKeeps
<1>2. ASSUME NEW s \in Kept, NEW m \in Int, s.text = t, Leaves([op |-> "assign", text |-> t], x, s, m)
      PROVE  CallAsPromised
  BY <1>2, AssignPromised
<1> QED
  BY <1>1, <1>2

\* An empty buffer in the place of what was there.
LEMMA ClearKeeps ==
    ASSUME NEW x \in Strings, NEW m, m = Destroyed(x), StringInv,
           Leaves([op |-> "assign", text |-> <<>>], x, Buffer(<<>>), m)
    PROVE  StringInv' /\ CallAsPromised
<1>1. str[x] \in Kept /\ str[x].obj \in BOOLEAN /\ made \in Nat
  BY KeptCases, ObjectsFinite DEF StringInv
<1>2. <<>> \in StoredTexts /\ Len(<<>>) < Reserve
  BY TextsStored, StringAssumption
<1>3. Buffer(<<>>) \in Kept /\ Buffer(<<>>).obj = FALSE /\ Buffer(<<>>).text = <<>>
  BY <1>2, BufferKept
<1>4. m = made - One(str[x]) + One(Buffer(<<>>))
  BY <1>1, <1>3 DEF Destroyed, One
<1>5. StringInv'
  BY <1>3, <1>4, LeavesKeeps
<1> QED
  BY <1>3, <1>5, AssignPromised

\* A std::string with the text t where there was one, or was none.
LEMMA ObjectKeeps ==
    ASSUME NEW c, NEW x \in Strings, NEW s \in Kept, s.obj, StringInv,
           Leaves(c, x, s, IF str[x].obj THEN made ELSE made + 1)
    PROVE  StringInv'
<1> DEFINE m == IF str[x].obj THEN made ELSE made + 1
<1>1. str[x] \in Kept /\ str[x].obj \in BOOLEAN /\ made \in Nat
  BY KeptCases, ObjectsFinite DEF StringInv
<1>2. m = made - One(str[x]) + One(s)
  BY <1>1 DEF One
<1>3. Leaves(c, x, s, m)
  OBVIOUS
<1> HIDE DEF m
<1> QED
  BY <1>2, <1>3, LeavesKeeps

LEMMA ConstructKeeps ==
    ASSUME NEW x \in Strings, Construct(x), StringInv
    PROVE  StringInv' /\ CallAsPromised
<1>1. ~str[x].obj /\ Destroyed(x) = made
  BY DEF Construct, NoString, Destroyed
<1>2. CASE Leaves([op |-> "assign", text |-> <<>>], x, Buffer(<<>>), made)
  BY <1>1, <1>2, ClearKeeps
<1>3. ASSUME NEW t \in AllTexts, Len(t) < Reserve, Leaves([op |-> "assign", text |-> t], x, Buffer(t), made)
      PROVE  StringInv' /\ CallAsPromised
  <2>1. AssignTo([op |-> "assign", text |-> t], x, t)
    BY <1>1, <1>3 DEF AssignTo
  <2> QED
    BY <2>1, TextsStored, AssignTextKeeps
<1>4. ASSUME NEW t \in AllTexts, ~(Len(t) < Reserve), Leaves([op |-> "assign", text |-> t], x, InObject(x, t), made + 1)
      PROVE  StringInv' /\ CallAsPromised
  <2>1. AssignTo([op |-> "assign", text |-> t], x, t)
    BY <1>1, <1>4 DEF AssignTo
  <2> QED
    BY <2>1, TextsStored, AssignTextKeeps
<1> QED
  BY <1>2, <1>3, <1>4 DEF Construct

LEMMA GiveObjectKeeps ==
    ASSUME Cautious, NEW x \in Strings, NEW t \in AllTexts, GiveObject(x, t), StringInv
    PROVE  StringInv' /\ CallAsPromised
<1> DEFINE m == IF str[x].obj THEN made ELSE made + 1
<1>1. t \in StoredTexts /\ Len(t) > Inline
  BY TextsStored DEF GiveObject
<1>2. InObject(x, t) \in Kept /\ InObject(x, t).obj /\ InObject(x, t).text = t
  BY <1>1, InObjectKept
<1>3. str[x] = NoString => ~str[x].obj
  BY DEF NoString
<1>4. Leaves([op |-> "assign", text |-> t], x, InObject(x, t), m)
  BY <1>3 DEF GiveObject
<1>5. StringInv'
  BY <1>2, <1>4, ObjectKeeps
<1> HIDE DEF m
<1>6. CallAsPromised
  BY <1>2, <1>4, AssignPromised
<1> QED
  BY <1>5, <1>6

\* The end of a text is a text.
LEMMA EndOfText ==
    ASSUME NEW t \in StoredTexts, NEW k \in 0 .. Len(t)
    PROVE  SubSeq(t, k + 1, Len(t)) \in StoredTexts
<1>1. Len(t) \in Nat /\ \A i \in k + 1 .. Len(t) : t[i] \in Chars \cup {Junk}
  BY LenProperties DEF StoredTexts
<1>2. k + 1 \in Int /\ Len(t) \in Int
  BY <1>1
<1> QED
  BY <1>1, <1>2, SubSeqProperties DEF StoredTexts

LEMMA AssignOwnKeeps ==
    ASSUME Cautious, NEW x \in Strings, AssignOwn(x), StringInv
    PROVE  StringInv' /\ CallAsPromised
<1>1. str[x] \in Kept /\ str[x].text \in StoredTexts
  BY KeptCases DEF StringInv
<1>2. PICK k \in 0 .. Len(str[x].text) :
        LET t == SubSeq(str[x].text, k + 1, Len(str[x].text))
            c == [op |-> "assign", text |-> t]
        IN /\ Cautious => ~str[x].obj \/ Len(t) >= Reserve
           /\ IF str[x].obj /\ str[x].home = Heap /\ Len(t) < Reserve THEN GoesAstray(c) ELSE AssignTo(c, x, t)
  BY DEF AssignOwn
<1> DEFINE t == SubSeq(str[x].text, k + 1, Len(str[x].text))
<1>3. t \in StoredTexts
  BY <1>1, EndOfText
<1>4. ~str[x].obj \/ Len(t) >= Reserve
  BY <1>2
<1>5. Len(t) \in Nat /\ Reserve \in Nat
  BY <1>3, StringAssumption, LenProperties DEF StoredTexts
<1>6. AssignTo([op |-> "assign", text |-> t], x, t)
  BY <1>2, <1>4, <1>5
<1> HIDE DEF t
<1> QED
  BY <1>3, <1>6, AssignTextKeeps

LEMMA ReadableKept ==
    ASSUME NEW x \in Strings, StringInv
    PROVE  Readable(x)
BY KeptCases DEF StringInv, Readable

LEMMA CopyAssignKeeps ==
    ASSUME NEW x \in Strings, NEW y \in Strings, CopyAssign(x, y), StringInv
    PROVE  StringInv' /\ CallAsPromised
<1> DEFINE c == [op |-> "copy", from |-> y]
<1>1. str[x] \in Kept /\ str[x].obj \in BOOLEAN /\ str[y] \in Kept /\ str[y].text \in StoredTexts /\ made \in Nat
  BY KeptCases, ObjectsFinite DEF StringInv
<1>2. CASE x = y /\ Leaves(c, x, str[x], made)
  <2>1. made = made - One(str[x]) + One(str[x])
    BY <1>1 DEF One
  <2>2. StringInv'
    BY <1>1, <1>2, <2>1, LeavesKeeps
  <2>3. CallAsPromised
    BY <1>2, CopyPromised
  <2> QED
    BY <2>2, <2>3
<1>3. CASE AssignTo(c, x, str[y].text)
  <2>1. /\ StringInv'
        /\ CallAsPromised \/ \E s \in Kept, m \in Int : s.text = str[y].text /\ Leaves(c, x, s, m)
    BY <1>1, <1>3, AssignToKeeps
  <2>2. ASSUME NEW s \in Kept, NEW m \in Int, s.text = str[y].text, Leaves(c, x, s, m)
        PROVE  CallAsPromised
    BY <2>2, CopyPromised
  <2> QED
    BY <2>1, <2>2
<1>4. Readable(y)
  BY ReadableKept
<1> QED
  BY <1>2, <1>3, <1>4 DEF CopyAssign

\* Bytes that go from y to x, and what is in y then.
LEMMA SwapKeeps ==
    ASSUME NEW x \in Strings, NEW y \in Strings, x # y, SwapStrings(x, y), StringInv
    PROVE  StringInv' /\ CallAsPromised
<1>1. /\ str[x] \in Kept /\ str[y] \in Kept /\ made \in Nat
      /\ One(str[x]) \in Nat /\ One(str[y]) \in Nat
  BY ObjectsFinite DEF StringInv, One
<1>2. /\ str' = [str EXCEPT ![x] = str[y], ![y] = str[x]] /\ made' = made /\ astray' = astray
      /\ sop'.call = [op |-> "swap", from |-> y] /\ sop'.on = x /\ sop'.threw = FALSE
  BY DEF SwapStrings
<1>3. made' = made - One(str[x]) - One(str[y]) + One(str[y]) + One(str[x])
  BY <1>1, <1>2
<1>4. /\ StringInv'
      /\ str'[x] = str[y] /\ str'[y] = str[x] /\ \A z \in Strings \ {x, y} : str'[z] = str[z]
  BY <1>1, <1>2, <1>3, PairKeeps, ZenonT(60)
<1>5. sop'.call.op = "swap" /\ sop'.call.from = y /\ "from" \in DOMAIN sop'.call
  BY <1>2
<1>6. CallAsPromised
  BY <1>2, <1>4, <1>5 DEF CallAsPromised
<1> QED
  BY <1>4, <1>6

LEMMA TakeKeeps ==
    ASSUME NEW x \in Strings, NEW y \in Strings, x # y, StringInv,
           TakeOver(x, y) \/ MoveConstruct(x, y)
    PROVE  StringInv' /\ CallAsPromised
<1>1. /\ str[x] \in Kept /\ str[y] \in Kept /\ made \in Nat
      /\ str[x].obj \in BOOLEAN /\ One(str[x]) \in Nat /\ One(str[y]) \in Nat
  BY KeptCases, ObjectsFinite DEF StringInv, One
<1>2. MoveConstruct(x, y) => ~str[x].obj
  BY DEF MoveConstruct, NoString
<1>3. made' = made - One(str[x])
  BY <1>1, <1>2 DEF TakeOver, MoveConstruct, Destroyed, One
<1>4. /\ str' = [str EXCEPT ![x] = str[y], ![y] = Buffer(<<>>)] /\ astray' = astray
      /\ sop'.call = [op |-> "take", from |-> y] /\ sop'.on = x /\ sop'.threw = FALSE
  BY DEF TakeOver, MoveConstruct
<1>5. <<>> \in StoredTexts /\ Len(<<>>) < Reserve
  BY TextsStored, StringAssumption
<1>6. Buffer(<<>>) \in Kept /\ Buffer(<<>>).obj = FALSE /\ Buffer(<<>>).text = <<>>
  BY <1>5, BufferKept
<1>7. made' = made - One(str[x]) - One(str[y]) + One(str[y]) + One(Buffer(<<>>))
  BY <1>1, <1>3, <1>6 DEF One
<1>8. /\ StringInv'
      /\ str'[x] = str[y] /\ str'[y] = Buffer(<<>>) /\ \A z \in Strings \ {x, y} : str'[z] = str[z]
  BY <1>1, <1>4, <1>6, <1>7, PairKeeps
<1>9. sop'.call.op = "take" /\ sop'.call.from = y /\ "from" \in DOMAIN sop'.call
  BY <1>4
<1>10. CallAsPromised
  BY <1>4, <1>6, <1>8, <1>9 DEF CallAsPromised
<1> QED
  BY <1>8, <1>10

LEMMA DestroyKeeps ==
    ASSUME NEW x \in Strings, Destroy(x), StringInv
    PROVE  StringInv' /\ CallAsPromised
<1>1. str[x] \in Kept /\ str[x].obj \in BOOLEAN /\ made \in Nat
  BY KeptCases, ObjectsFinite DEF StringInv
<1>2. NoString \in Kept /\ NoString.obj = FALSE
  BY DEF Kept, NoString
<1>3. Destroyed(x) = made - One(str[x]) + One(NoString)
  BY <1>1, <1>2 DEF Destroyed, One
<1>4. Leaves([op |-> "destroy"], x, NoString, Destroyed(x))
  BY DEF Destroy, Leaves
<1>5. StringInv'
  BY <1>2, <1>3, <1>4, LeavesKeeps
<1>6. Left([op |-> "destroy"], x, NoString, Destroyed(x))
  BY <1>4, LeavesSays
<1>7. CallAsPromised
  BY <1>6 DEF Left, CallAsPromised
<1> QED
  BY <1>5, <1>7

LEMMA ResizeKeeps ==
    ASSUME NEW x \in Strings, Resize(x), StringInv
    PROVE  StringInv' /\ CallAsPromised
<1>1. str[x] \in Kept /\ str[x].obj \in BOOLEAN /\ str[x].text \in StoredTexts /\ made \in Nat
  BY KeptCases, ObjectsFinite DEF StringInv
<1>2. PICK n \in 0 .. MaxLength, ch \in Chars :
        LET c == [op |-> "resize", n |-> n, char |-> ch] IN
        CASE n < Reserve -> Leaves(c, x, Buffer(All(n, ch)), Destroyed(x))
          [] n >= Reserve /\ str[x].obj ->
                Leaves(c, x, Reassigned(str[x], Resized(str[x].text, n, ch)), made) \/ Fails(c, x)
          [] OTHER -> Leaves(c, x, InObject(x, All(n, ch)), made + 1) \/ Fails(c, x)
  BY DEF Resize
<1> DEFINE c == [op |-> "resize", n |-> n, char |-> ch]
<1>3. n \in Nat /\ (n < Reserve \/ n >= Reserve) /\ (n >= Reserve => n > Inline)
  BY StringAssumption
<1>4. All(n, ch) \in StoredTexts /\ Len(All(n, ch)) = n /\ \A i \in 1 .. n : All(n, ch)[i] = ch
  BY <1>3, AllStored
<1>5. CASE n < Reserve
  <2>1. Leaves(c, x, Buffer(All(n, ch)), Destroyed(x))
    BY <1>2, <1>3, <1>5, StringAssumption
  <2>2. Buffer(All(n, ch)) \in Kept /\ Buffer(All(n, ch)).obj = FALSE /\ Buffer(All(n, ch)).text = All(n, ch)
    BY <1>4, <1>5, BufferKept
  <2>3. Destroyed(x) = made - One(str[x]) + One(Buffer(All(n, ch)))
    BY <1>1, <2>2 DEF Destroyed, One
  <2>4. StringInv'
    BY <2>1, <2>2, <2>3, LeavesKeeps
  <2>5. CallAsPromised
    BY <1>4, <2>1, <2>2, ResizePromised
  <2> QED
    BY <2>4, <2>5
<1>6. CASE n >= Reserve /\ str[x].obj /\ Leaves(c, x, Reassigned(str[x], Resized(str[x].text, n, ch)), made)
  <2> DEFINE u == Resized(str[x].text, n, ch)
  <2>1. /\ u \in StoredTexts /\ Len(u) = n
        /\ \A i \in 1 .. n : u[i] = ch \/ (i <= Len(str[x].text) /\ u[i] = str[x].text[i])
    BY <1>1, <1>3, ResizedText
  <2> HIDE DEF u
  <2>2. Reassigned(str[x], u) \in Kept /\ Reassigned(str[x], u).obj = TRUE /\ Reassigned(str[x], u).text = u
    BY <1>1, <1>6, <2>1, ReassignedKept
  <2>3. made = made - One(str[x]) + One(Reassigned(str[x], u))
    BY <1>1, <1>6, <2>2 DEF One
  <2>4. Leaves(c, x, Reassigned(str[x], u), made)
    BY <1>6 DEF u
  <2>5. StringInv'
    BY <2>2, <2>3, <2>4, LeavesKeeps
  <2>6. CallAsPromised
    BY <2>1, <2>2, <2>4, ResizePromised
  <2> QED
    BY <2>5, <2>6
<1>7. CASE n >= Reserve /\ ~str[x].obj /\ Leaves(c, x, InObject(x, All(n, ch)), made + 1)
  <2>1. InObject(x, All(n, ch)) \in Kept /\ InObject(x, All(n, ch)).obj = TRUE /\ InObject(x, All(n, ch)).text = All(n, ch)
    BY <1>3, <1>4, <1>7, InObjectKept
  <2>2. made + 1 = made - One(str[x]) + One(InObject(x, All(n, ch)))
    BY <1>1, <1>7, <2>1 DEF One
  <2>3. StringInv'
    BY <1>7, <2>1, <2>2, LeavesKeeps
  <2>4. CallAsPromised
    BY <1>4, <1>7, <2>1, ResizePromised
  <2> QED
    BY <2>3, <2>4
<1>8. CASE Fails(c, x)
  BY <1>8, FailsKeeps
<1> QED
  BY <1>1, <1>2, <1>3, <1>5, <1>6, <1>7, <1>8, StringAssumption

LEMMA AppendTextKeeps ==
    ASSUME NEW x \in Strings, AppendText(x), StringInv
    PROVE  StringInv' /\ CallAsPromised
<1>1. str[x] \in Kept /\ str[x].obj \in BOOLEAN /\ str[x].text \in StoredTexts /\ made \in Nat
  BY KeptCases, ObjectsFinite DEF StringInv
<1>2. Readable(x)
  BY ReadableKept
<1>3. PICK t \in AllTexts :
        LET whole == str[x].text \o t
            c == [op |-> "assign", text |-> whole]
        IN CASE ~Readable(x) -> GoesAstray(c)
             [] Readable(x) /\ str[x].obj -> Leaves(c, x, Reassigned(str[x], whole), made) \/ Fails(c, x)
             [] Readable(x) /\ ~str[x].obj /\ Len(whole) < Reserve -> Leaves(c, x, Buffer(whole), made)
             [] OTHER -> Leaves(c, x, InObject(x, whole), made + 1) \/ Fails(c, x)
  BY DEF AppendText
<1> DEFINE whole == str[x].text \o t
           c == [op |-> "assign", text |-> whole]
<1>4. t \in StoredTexts
  BY TextsStored
<1>5. whole \in StoredTexts /\ Len(whole) \in Nat
  BY <1>1, <1>4, ConcatProperties, LenProperties DEF StoredTexts
<1> HIDE DEF whole
<1>6. CASE str[x].obj /\ Leaves(c, x, Reassigned(str[x], whole), made)
  <2>1. Reassigned(str[x], whole) \in Kept /\ Reassigned(str[x], whole).obj = TRUE /\ Reassigned(str[x], whole).text = whole
    BY <1>1, <1>5, <1>6, ReassignedKept
  <2>2. Leaves(c, x, Reassigned(str[x], whole), IF str[x].obj THEN made ELSE made + 1)
    BY <1>6
  <2>3. StringInv'
    BY <2>1, <2>2, ObjectKeeps
  <2>4. CallAsPromised
    BY <1>6, <2>1, AssignPromised
  <2> QED
    BY <2>3, <2>4
<1>7. CASE ~str[x].obj /\ Len(whole) < Reserve /\ Leaves(c, x, Buffer(whole), made)
  <2>1. AssignTo(c, x, whole)
    BY <1>7 DEF AssignTo, Destroyed
  <2> QED
    BY <1>5, <2>1, AssignTextKeeps
<1>8. CASE ~str[x].obj /\ ~(Len(whole) < Reserve) /\ Leaves(c, x, InObject(x, whole), made + 1)
  <2>1. AssignTo(c, x, whole)
    BY <1>8 DEF AssignTo
  <2> QED
    BY <1>5, <2>1, AssignTextKeeps
<1>9. CASE Fails(c, x)
  BY <1>9, FailsKeeps
<1> QED
  BY <1>1, <1>2, <1>3, <1>6, <1>7, <1>8, <1>9 DEF whole

LEMMA CallsKeep ==
    ASSUME Cautious, NextStrings, StringInv
    PROVE  StringInv' /\ CallAsPromised
<1>1. ASSUME NEW x \in Strings, Construct(x) \/ \E t \in AllTexts : GiveObject(x, t)
      PROVE  StringInv' /\ CallAsPromised
  BY <1>1, ConstructKeeps, GiveObjectKeeps
<1>2. ASSUME NEW x \in Strings, AssignText(x)
      PROVE  StringInv' /\ CallAsPromised
  BY <1>2, TextsStored, AssignTextKeeps DEF AssignText
<1>3. ASSUME NEW x \in Strings, AssignOwn(x) \/ Destroy(x) \/ Resize(x) \/ AppendText(x)
      PROVE  StringInv' /\ CallAsPromised
  BY <1>3, AssignOwnKeeps, DestroyKeeps, ResizeKeeps, AppendTextKeeps
<1>4. ASSUME NEW x \in Strings, Clear(x)
      PROVE  StringInv' /\ CallAsPromised
  BY <1>4, ClearKeeps DEF Clear
<1>5. ASSUME NEW x \in Strings, NEW y \in Constructed, MoveConstruct(x, y)
      PROVE  StringInv' /\ CallAsPromised
  <2>1. y \in Strings /\ x # y
    BY <1>5 DEF Constructed, MoveConstruct
  <2> QED
    BY <1>5, <2>1, TakeKeeps
<1>6. ASSUME NEW x \in Strings, NEW y \in Strings, CopyAssign(x, y) \/ (x # y /\ (SwapStrings(x, y) \/ TakeOver(x, y)))
      PROVE  StringInv' /\ CallAsPromised
  BY <1>6, CopyAssignKeeps, SwapKeeps, TakeKeeps
<1>7. \A x \in Constructed : x \in Strings
  BY DEF Constructed
<1> QED
  BY <1>1, <1>2, <1>3, <1>4, <1>5, <1>6, <1>7 DEF NextStrings

LEMMA StringInvInit == InitStrings => StringInv
<1> SUFFICES ASSUME InitStrings PROVE StringInv
  OBVIOUS
<1>1. NoString \in Kept /\ NoString.obj = FALSE
  BY DEF Kept, NoString
<1>2. WithObject(str) = {}
  BY <1>1 DEF InitStrings, WithObject
<1> QED
  BY <1>1, <1>2, FS_EmptySet DEF InitStrings, StringInv

LEMMA StringInvNext ==
    ASSUME Cautious
    PROVE  StringInv /\ [NextStrings]_stringVars => StringInv'
<1> SUFFICES ASSUME StringInv, [NextStrings]_stringVars PROVE StringInv'
  OBVIOUS
<1>1. CASE NextStrings
  BY <1>1, CallsKeep
<1>2. CASE UNCHANGED stringVars
  BY <1>2 DEF StringInv, stringVars, WithObject
<1> QED
  BY <1>1, <1>2

\* Every std::string that was made is known to the string it is in, which destroys
\* it once, and no characters are read that are not there (_ClearStrObj,
\* FHasStringObj).
THEOREM StringsStaySound == ASSUME Cautious PROVE SpecStrings => []StringsAreSound
<1>1. StringInv => StringsAreSound
  <2> SUFFICES ASSUME StringInv PROVE StringsAreSound
    OBVIOUS
  <2>1. \A x \in Constructed : Readable(x) /\ (~str[x].obj => Len(str[x].text) < Reserve)
    BY KeptCases, ReadableKept DEF StringInv, Constructed
  <2> QED
    BY <2>1 DEF StringsAreSound, ObjectsAreOwned, TextsAreThere, StringInv
<1> QED
  BY <1>1, StringInvInit, StringInvNext, PTL DEF SpecStrings

\* Each call has the effect on the texts that it has on std::strings, wherever they
\* are kept, and touches no other string (assign, operator =, operator +=, resize,
\* swap, clear).
THEOREM CallsAsPromised == ASSUME Cautious PROVE SpecStrings => TextAsPromised
<1>1. StringInv /\ [NextStrings]_stringVars => [CallAsPromised]_stringVars
  BY CallsKeep
<1> QED
  BY <1>1, StringInvInit, StringInvNext, PTL DEF SpecStrings, TextAsPromised
=============================================================================
