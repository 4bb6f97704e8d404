-------------------------- MODULE GcObjects_proofs --------------------------
(***************************************************************************)
(* Whatever the handles, the threads and the memory: when a client's lock  *)
(* keeps other threads from an object that is being copied, and the calls  *)
(* that lose count are not made, every count is the number of the handles  *)
(* that hold the object, no handle outlives its object, no object outlives *)
(* its handles, and the assertion of _DoCopy holds.                        *)
(***************************************************************************)
EXTENDS GcObjects, FiniteSetTheorems, TLAPS

Accesses == [at : {"copy", "let go", "look", "write"}, on : Handles, old : Objects,
             new : Objects \cup {Null}, v : Values \cup {Null}, from : Objects \cup {Null}]

GcTyped ==
    /\ held \in [Handles -> Objects \cup {Null, NoHandle}]
    /\ \A r \in Refs : held[r] # Null
    /\ ref \in [Objects -> Nat] /\ val \in [Objects -> Values \cup {Null}]
    /\ busy \in [Threads -> Accesses \cup {Idle}]
    /\ bad = "no"

\* The copy that a thread has made and not yet put in a handle.
New(t) == IF busy[t].at = "none" THEN Null ELSE busy[t].new
Holders(o) == {x \in Handles : held[x] = o}
Makers(o) == {t \in Threads : New(t) = o}

Counts == \A o \in Objects :
    /\ ref[o] = Cardinality(Holders(o)) + Cardinality(Makers(o))
    /\ val[o] = Null <=> ref[o] = 0

\* A thread in an access that copies shares the object with another handle until
\* it lets go of it, which is then still there; nobody else has its copy; and
\* what it then writes to is its alone.
Access1(t) ==
    /\ Owner[busy[t].on] = t /\ held[busy[t].on] \in Objects
    /\ ref[busy[t].old] > 0
    /\ busy[t].at \in {"copy", "let go"} => held[busy[t].on] = busy[t].old /\ ref[busy[t].old] > 1
    /\ busy[t].at = "let go" <=> busy[t].new # Null
    /\ busy[t].new # Null => Holders(busy[t].new) = {}
    /\ cow /\ busy[t].at \in {"look", "write"} => Holders(held[busy[t].on]) = {busy[t].on}

\* What it writes: a value, or the element of the object it writes to, or that of
\* another handle of its own.
Source(t) ==
    \/ busy[t].from = Null /\ busy[t].v # Null
    \/ busy[t].from = busy[t].old
    \/ /\ busy[t].from \in Objects
       /\ \E y \in Handles : y # busy[t].on /\ Owner[y] = t /\ held[y] = busy[t].from

Apart(t, u) ==
    /\ busy[t].old # busy[u].old
    /\ busy[t].new # Null => busy[t].new # busy[u].new

Busy == {t \in Threads : busy[t].at # "none"}

GcInv ==
    /\ GcTyped
    /\ Counts
    /\ \A t \in Busy : Access1(t) /\ Source(t)
    /\ \A t, u \in Busy : t # u => Apart(t, u)

One(a, o) == IF a = o THEN 1 ELSE 0
In(x, S) == IF x \in S THEN 1 ELSE 0

-----------------------------------------------------------------------------
(***************************************************************************)
(* Counting.                                                               *)
(***************************************************************************)

\* Two sets that differ in one member differ by one in number, or not at all.
LEMMA OneChanges ==
    ASSUME NEW S, IsFiniteSet(S), NEW P \in SUBSET S, NEW Q \in SUBSET S, NEW x,
           P \ {x} = Q \ {x}
    PROVE  /\ Cardinality(P) \in Nat /\ Cardinality(Q) \in Nat
           /\ Cardinality(Q) = Cardinality(P) - In(x, P) + In(x, Q)
<1>1. IsFiniteSet(P) /\ IsFiniteSet(Q)
  BY FS_Subset
<1>2. Cardinality(P) \in Nat /\ Cardinality(Q) \in Nat
  BY <1>1, FS_CardinalityType
<1>3. Cardinality(P \ {x}) = IF x \in P THEN Cardinality(P) - 1 ELSE Cardinality(P)
  BY <1>1, FS_RemoveElement
<1>4. Cardinality(Q \ {x}) = IF x \in Q THEN Cardinality(Q) - 1 ELSE Cardinality(Q)
  BY <1>1, FS_RemoveElement
<1>5. Cardinality(P \ {x}) = Cardinality(Q \ {x})
  BY Zenon
<1>6. QED
  BY <1>2, <1>3, <1>4, <1>5 DEF In

\* There are finitely many handles, hence threads.
LEMMA FinitelyMany == IsFiniteSet(Handles) /\ IsFiniteSet(Threads)
<1>1. IsFiniteSet(Handles)
  BY GcAssumption, FS_Union DEF Handles
<1> DEFINE f == [x \in Handles |-> Owner[x]]
<1>2. f \in [Handles -> Threads] /\ \A t \in Threads : \E x \in Handles : f[x] = t
  BY DEF Threads
<1>3. f \in Surjection(Handles, Threads)
  BY <1>2 DEF Surjection
<1> HIDE DEF f
<1>4. QED
  BY <1>1, <1>3, FS_Surjection

\* A handle that holds b instead is one holder less for what it held, and one
\* more for b.
LEMMA HolderChanges ==
    ASSUME NEW x \in Handles, NEW b, DOMAIN held = Handles, held' = [held EXCEPT ![x] = b]
    PROVE  \A o : /\ Cardinality(Holders(o)) \in Nat
                  /\ Cardinality(Holders(o)') = Cardinality(Holders(o)) - One(held[x], o) + One(b, o)
<1> TAKE o
<1>1. Holders(o) \in SUBSET Handles /\ Holders(o)' \in SUBSET Handles
  BY DEF Holders
<1>2. Holders(o) \ {x} = Holders(o)' \ {x}
  BY DEF Holders
<1>3. (x \in Holders(o) <=> held[x] = o) /\ (x \in Holders(o)' <=> b = o)
  BY DEF Holders
<1>4. In(x, Holders(o)) = One(held[x], o) /\ In(x, Holders(o)') = One(b, o)
  BY <1>3 DEF One, In
<1>5. QED
  BY <1>1, <1>2, <1>4, FinitelyMany, OneChanges

\* The same for the thread that makes an object.
LEMMA MakerChanges ==
    ASSUME NEW t \in Threads, NEW b, \A u \in Threads \ {t} : New(u)' = New(u), New(t)' = b
    PROVE  \A o : /\ Cardinality(Makers(o)) \in Nat
                  /\ Cardinality(Makers(o)') = Cardinality(Makers(o)) - One(New(t), o) + One(b, o)
<1> TAKE o
<1>1. Makers(o) \in SUBSET Threads /\ Makers(o)' \in SUBSET Threads
  BY DEF Makers
<1>2. Makers(o) \ {t} = Makers(o)' \ {t}
  BY DEF Makers
<1>3. (t \in Makers(o) <=> New(t) = o) /\ (t \in Makers(o)' <=> b = o)
  BY DEF Makers
<1>4. In(t, Makers(o)) = One(New(t), o) /\ In(t, Makers(o)') = One(b, o)
  BY <1>3 DEF One, In
<1>5. QED
  BY <1>1, <1>2, <1>4, FinitelyMany, OneChanges

\* What is held, or in the making, is counted.
LEMMA CountedIsLive ==
    ASSUME Counts, NEW o \in Objects, Holders(o) # {} \/ Makers(o) # {}
    PROVE  ref[o] > 0 /\ val[o] # Null
<1>1. IsFiniteSet(Holders(o)) /\ IsFiniteSet(Makers(o))
  BY FinitelyMany, FS_Subset DEF Holders, Makers
<1>2. Cardinality(Holders(o)) \in Nat /\ Cardinality(Makers(o)) \in Nat
  BY <1>1, FS_CardinalityType
<1>3. Cardinality(Holders(o)) # 0 \/ Cardinality(Makers(o)) # 0
  BY <1>1, FS_EmptySet
<1>4. QED
  BY <1>2, <1>3 DEF Counts

\* An object with one reference is its holder's alone.
LEMMA OneHolder ==
    ASSUME Counts, NEW x \in Handles, held[x] \in Objects, ref[held[x]] <= 1
    PROVE  Holders(held[x]) = {x}
<1> DEFINE o == held[x]
<1>1. IsFiniteSet(Holders(o)) /\ IsFiniteSet(Makers(o))
  BY FinitelyMany, FS_Subset DEF Holders, Makers
<1>2. Cardinality(Holders(o)) \in Nat /\ Cardinality(Makers(o)) \in Nat
  BY <1>1, FS_CardinalityType
<1>3. ref[o] = Cardinality(Holders(o)) + Cardinality(Makers(o))
  BY DEF Counts
<1>4. Cardinality(Holders(o)) <= 1
  BY <1>2, <1>3
<1>5. {x} \in SUBSET Holders(o) /\ IsFiniteSet({x}) /\ Cardinality({x}) = 1
  BY FS_Singleton DEF Holders
<1>6. Cardinality(Holders(o)) = Cardinality({x})
  BY <1>1, <1>2, <1>4, <1>5, FS_Subset
<1>7. QED
  BY <1>1, <1>5, <1>6, FS_Subset

\* A handle's object is live.
LEMMA HeldIsLive ==
    ASSUME GcInv, NEW x \in Handles, held[x] \in Objects
    PROVE  ref[held[x]] > 0 /\ val[held[x]] # Null
<1>1. x \in Holders(held[x])
  BY DEF Holders
<1>2. QED
  BY <1>1, CountedIsLive DEF GcInv

-----------------------------------------------------------------------------
(***************************************************************************)
(* The steps.                                                              *)
(***************************************************************************)

LEMMA InitIsSound == Init => GcInv
<1> SUFFICES ASSUME Init PROVE GcInv
  OBVIOUS
<1>1. GcTyped
  BY GcAssumption DEF Init, GcTyped, Handles, Idle
<1>2. \A t \in Threads : busy[t].at = "none" /\ New(t) = Null
  BY DEF Init, Idle, New
<1>3. \A o \in Objects : Holders(o) = {} /\ Makers(o) = {}
  BY <1>2, GcAssumption DEF Init, Holders, Makers
<1>4. Counts
  BY <1>3, FS_EmptySet DEF Init, Counts
<1>5. QED
  BY <1>1, <1>2, <1>4 DEF GcInv, Busy

\* An access goes on while what it shares is not released, its thread's handles
\* hold what they held, and no handle comes to hold its copy.
LEMMA Undisturbed ==
    ASSUME GcInv, NEW t \in Busy, busy'[t] = busy[t], cow' = cow,
           held' \in [Handles -> Objects \cup {Null, NoHandle}], ref' \in [Objects -> Nat],
           ref'[busy[t].old] >= ref[busy[t].old],
           \A y \in Handles : Owner[y] = t => held'[y] = held[y],
           \A z \in Handles : held'[z] = held[z] \/ held'[z] \notin Objects
                \/ /\ held'[z] # busy[t].new
                   /\ cow /\ busy[t].at \in {"look", "write"} => held'[z] # held[busy[t].on]
    PROVE  Access1(t)' /\ Source(t)'
<1>1. t \in Threads /\ busy[t] \in Accesses /\ Access1(t) /\ Source(t)
  BY DEF Busy, GcTyped, GcInv, Idle
<1>2. Owner[busy[t].on] = t /\ busy[t].on \in Handles /\ busy[t].old \in Objects
  BY <1>1 DEF Access1, Accesses
<1>3. held'[busy[t].on] = held[busy[t].on] /\ held[busy[t].on] \in Objects
  BY <1>1, <1>2 DEF Access1
<1>4. ref'[busy[t].old] \in Nat /\ ref[busy[t].old] \in Nat
  BY <1>2 DEF GcInv, GcTyped
<1>5. ref'[busy[t].old] > 0
  <2>1. ref[busy[t].old] > 0
    BY <1>1, Zenon DEF Access1
  <2> QED
    BY <1>4, <2>1
<1>6. ASSUME busy[t].at \in {"copy", "let go"}
      PROVE  held'[busy[t].on] = busy[t].old /\ ref'[busy[t].old] > 1
  <2>1. held[busy[t].on] = busy[t].old /\ ref[busy[t].old] > 1
    BY <1>1, <1>6 DEF Access1
  <2> QED
    BY <1>3, <1>4, <2>1
<1>7. busy[t].at = "let go" <=> busy[t].new # Null
  BY <1>1 DEF Access1
<1>8. ASSUME busy[t].new # Null
      PROVE  {z \in Handles : held'[z] = busy[t].new} = {}
  <2>1. Holders(busy[t].new) = {} /\ busy[t].new \in Objects
    BY <1>1, <1>8 DEF Access1, Accesses
  <2> QED
    BY <2>1 DEF Holders
<1>9. ASSUME cow, busy[t].at \in {"look", "write"}
      PROVE  {z \in Handles : held'[z] = held'[busy[t].on]} = {busy[t].on}
  <2>1. Holders(held[busy[t].on]) = {busy[t].on}
    BY <1>1, <1>9 DEF Access1
  <2>2. \A z \in Handles : held[z] = held[busy[t].on] <=> z = busy[t].on
    BY <1>2, <2>1 DEF Holders
  <2>3. \A z \in Handles : held'[z] = held[busy[t].on] <=> z = busy[t].on
    BY <1>3, <1>9, <2>2
  <2> QED
    BY <1>2, <1>3, <2>3
<1>10. Access1(t)'
  BY <1>2, <1>3, <1>5, <1>6, <1>7, <1>8, <1>9, ZenonT(60) DEF Access1, Holders
<1>11. Source(t)'
  BY <1>1 DEF Source
<1> QED
  BY <1>10, <1>11

LEMMA StutterKeeps ==
    ASSUME GcInv, UNCHANGED vars
    PROVE  GcInv'
<1>1. \A o : Holders(o)' = Holders(o) /\ Makers(o)' = Makers(o)
  BY DEF vars, Holders, Makers, New
<1>2. Busy' = Busy
  BY DEF vars, Busy
<1>3. GcTyped' /\ Counts'
  BY <1>1 DEF vars, GcInv, GcTyped, Counts
<1>4. \A t : (Access1(t) => Access1(t)') /\ (Source(t) => Source(t)')
  BY DEF vars, Access1, Source, Holders
<1>5. \A t, u : Apart(t, u)' = Apart(t, u)
  BY DEF vars, Apart
<1> QED
  BY <1>2, <1>3, <1>4, <1>5 DEF GcInv

\* A handle of a thread that is at no access comes to hold b instead of what it
\* holds, and the counts follow.
LEMMA TakesObject ==
    ASSUME GcInv, NEW x \in Handles, busy[Owner[x]].at = "none",
           NEW b \in Objects \cup {Null, NoHandle}, x \in Refs => b # Null,
           held' = [held EXCEPT ![x] = b], UNCHANGED <<kind, cow, busy>>, bad' = "no",
           ref' \in [Objects -> Int],
           \A o \in Objects : ref'[o] = ref[o] - One(held[x], o) + One(b, o),
           val' \in [Objects -> Values \cup {Null}],
           \A o \in Objects : val'[o] = Null <=> ref'[o] = 0,
           held[x] \in Objects /\ held[x] # b => \A t \in Threads \ {Owner[x]} : held[x] \notin InHand(t),
           b \in Objects => \/ \A t \in Threads : b \notin InHand(t)
                            \/ \E y \in Handles : held[y] = b /\ busy[Owner[y]].at = "none",
           b \in Objects => Holders(b) = {} \/ \E y \in Handles : held[y] = b /\ busy[Owner[y]].at = "none"
    PROVE  GcInv'
<1>0. \A o : /\ Cardinality(Holders(o)) \in Nat
            /\ Cardinality(Holders(o)') = Cardinality(Holders(o)) - One(held[x], o) + One(b, o)
  <2>1. DOMAIN held = Handles
    BY DEF GcInv, GcTyped
  <2>2. QED
    BY ONLY <2>1, x \in Handles, held' = [held EXCEPT ![x] = b], HolderChanges
<1> USE DEF GcInv
<1>1. held \in [Handles -> Objects \cup {Null, NoHandle}] /\ held' \in [Handles -> Objects \cup {Null, NoHandle}]
  BY DEF GcTyped
<1>2. \A t \in Threads : New(t)' = New(t)
  BY DEF New
<1>3. \A o : Makers(o)' = Makers(o)
  BY <1>2 DEF Makers
<1>4. Counts'
  <2> SUFFICES ASSUME NEW o \in Objects
               PROVE  ref'[o] = Cardinality(Holders(o)') + Cardinality(Makers(o)')
    BY DEF Counts
  <2>1. Cardinality(Makers(o)') = Cardinality(Makers(o)) /\ Cardinality(Makers(o)) \in Nat
    <3>1. IsFiniteSet(Makers(o))
      BY FinitelyMany, FS_Subset DEF Makers
    <3> QED
      BY <1>3, <3>1, FS_CardinalityType
  <2>2. /\ Cardinality(Holders(o)) \in Nat
        /\ Cardinality(Holders(o)') = Cardinality(Holders(o)) - One(held[x], o) + One(b, o)
    BY <1>0
  <2>3. ref[o] = Cardinality(Holders(o)) + Cardinality(Makers(o))
    BY DEF Counts
  <2>4. ref'[o] = ref[o] - One(held[x], o) + One(b, o)
    OBVIOUS
  <2>5. One(held[x], o) \in Int /\ One(b, o) \in Int
    BY DEF One
  <2> QED
    BY <2>1, <2>2, <2>3, <2>4, <2>5
<1>5. \A o \in Objects : ref'[o] \in Nat
  <2> SUFFICES ASSUME NEW o \in Objects PROVE ref'[o] \in Nat
    OBVIOUS
  <2>1. IsFiniteSet(Holders(o)') /\ IsFiniteSet(Makers(o)')
    BY FinitelyMany, FS_Subset DEF Makers, Holders
  <2>2. Cardinality(Holders(o)') \in Nat /\ Cardinality(Makers(o)') \in Nat
    BY <2>1, FS_CardinalityType
  <2> QED
    BY <1>4, <2>2 DEF Counts
<1>6. GcTyped'
  <2>1. \A r \in Refs : held'[r] # Null
    BY <1>1 DEF GcTyped, Handles
  <2> QED
    BY <1>1, <1>5, <2>1 DEF GcTyped, Accesses
<1>7. ASSUME NEW t \in Busy
      PROVE  Access1(t)' /\ Source(t)'
  <2>1. t \in Threads /\ busy[t] \in Accesses /\ busy'[t] = busy[t] /\ Access1(t) /\ Source(t)
    BY DEF Busy, GcTyped, Idle
  <2>2. t # Owner[x]
    BY <2>1 DEF Busy
  <2>3. busy[t].old \in Objects /\ busy[t].old \in InHand(t)
    BY <2>1 DEF Accesses, InHand, Busy
  <2>4. ref'[busy[t].old] >= ref[busy[t].old]
    <3> DEFINE o == busy[t].old
    <3>1. held[x] # o \/ b = o
      BY <2>1, <2>2, <2>3
    <3>2. ref'[o] = ref[o] - One(held[x], o) + One(b, o) /\ ref[o] \in Nat
      BY <2>3 DEF GcTyped
    <3>3. One(held[x], o) \in {0, 1} /\ One(b, o) \in {0, 1} /\ (held[x] # o => One(held[x], o) = 0)
          /\ (b = o => One(b, o) = 1)
      BY DEF One
    <3> HIDE DEF o
    <3> QED
      BY <3>1, <3>2, <3>3 DEF o
  <2>5. ASSUME b \in Objects
        PROVE  /\ b # busy[t].new
               /\ cow /\ busy[t].at \in {"look", "write"} => b # held[busy[t].on]
    <3>1. CASE \E y \in Handles : held[y] = b /\ busy[Owner[y]].at = "none"
      <4>1. PICK y \in Handles : held[y] = b /\ busy[Owner[y]].at = "none"
        BY <3>1
      <4>2. y # busy[t].on
        BY <2>1, <4>1 DEF Access1, Busy
      <4>3. y \in Holders(b)
        BY <4>1 DEF Holders
      <4> QED
        <5>1. b # busy[t].new
          BY <2>1, <2>5, <4>3, GcAssumption DEF Access1
        <5>2. ASSUME cow, busy[t].at \in {"look", "write"}
              PROVE  b # held[busy[t].on]
          <6>1. Holders(held[busy[t].on]) = {busy[t].on}
            BY <2>1, <5>2 DEF Access1
          <6> QED
            BY <6>1, <4>2, <4>3
        <5> QED
          BY <5>1, <5>2
    <3>2. CASE Holders(b) = {} /\ \A u \in Threads : b \notin InHand(u)
      <4>1. held[busy[t].on] # b
        BY <2>1, <3>2 DEF Holders, Accesses
      <4>2. b # busy[t].new
        BY <2>1, <3>2 DEF InHand, Busy
      <4> QED
        BY <4>1, <4>2
    <3> QED
      BY <2>5, <3>1, <3>2
  <2>6. \A y \in Handles : Owner[y] = t => held'[y] = held[y]
    BY <1>1, <2>2
  <2>7. \A z \in Handles : held'[z] = held[z] \/ held'[z] = b
    BY <1>1
  <2>8. ref' \in [Objects -> Nat]
    BY <1>5
  <2> QED
    BY <1>1, <2>1, <2>4, <2>5, <2>6, <2>7, <2>8, Undisturbed
<1>8. Busy' = Busy
  BY DEF Busy
<1>9. \A t, u \in Busy : t # u => Apart(t, u)'
  BY DEF Apart
<1> QED
  BY <1>4, <1>6, <1>7, <1>8, <1>9

\* The count of what is let go of is one less, of what is taken one more.
LEMMA CountedTwice ==
    ASSUME GcTyped, NEW a, NEW b
    PROVE  /\ Counted(Counted(ref, a, -1), b, 1) \in [Objects -> Int]
           /\ \A o \in Objects : Counted(Counted(ref, a, -1), b, 1)[o] = ref[o] - One(a, o) + One(b, o)
<1> DEFINE r == Counted(ref, a, -1)
<1>1. ref \in [Objects -> Int]
  BY DEF GcTyped
<1>2. r \in [Objects -> Int] /\ \A o \in Objects : r[o] = ref[o] - One(a, o)
  BY <1>1 DEF Counted, One
<1> HIDE DEF r
<1>3. Counted(r, b, 1) \in [Objects -> Int] /\ \A o \in Objects : Counted(r, b, 1)[o] = r[o] + One(b, o)
  BY <1>2 DEF Counted, One
<1>4. QED
  BY <1>1, <1>2, <1>3 DEF r

LEMMA CreateKeeps ==
    ASSUME GcInv, Careful, Locked, NEW x \in Handles, Create(x)
    PROVE  GcInv'
<1>1. CASE bad' \in Thrown /\ UNCHANGED <<held, ref, val>>
  <2>1. bad' = "no" /\ bad = "no"
    BY <1>1 DEF Thrown, GcInv, GcTyped
  <2>2. UNCHANGED vars
    BY <1>1, <2>1 DEF Create, vars
  <2> QED
    BY <2>2, StutterKeeps
<1>2. CASE ~(bad' \in Thrown /\ UNCHANGED <<held, ref, val>>)
  <2>1. PICK o \in Fresh, v \in Values :
          /\ Holds(x) => Untouched(x, held[x])
          /\ ref' = Counted(Counted(ref, o, 1), held[x], -1)
          /\ val' = [e \in Objects |-> IF e = o THEN v ELSE IF e = held[x] /\ ref[e] = 1 THEN Null ELSE val[e]]
          /\ held' = [held EXCEPT ![x] = o]
          /\ bad' = "no"
    BY <1>2 DEF Create
  <2>2. o \in Objects /\ val[o] = Null /\ ref[o] = 0 /\ \A t \in Threads : o \notin InHand(t)
    BY <2>1 DEF Fresh, Live, GcInv, Counts
  <2>3. Holders(o) = {}
    BY <2>2, CountedIsLive DEF GcInv
  <2>4. held[x] # o
    BY <2>3 DEF Holders
  <2>5. /\ ref' \in [Objects -> Int]
        /\ \A e \in Objects : ref'[e] = ref[e] - One(held[x], e) + One(o, e)
    BY <2>1, <2>2, <2>4 DEF Counted, One, GcInv, GcTyped
  <2>6. v \in Values /\ v # Null
    BY <2>1, GcAssumption
  <2>7. val' \in [Objects -> Values \cup {Null}]
    BY <2>1, <2>6 DEF GcInv, GcTyped
  <2>8. \A e \in Objects : val'[e] = Null <=> ref'[e] = 0
    <3> SUFFICES ASSUME NEW e \in Objects PROVE val'[e] = Null <=> ref'[e] = 0
      OBVIOUS
    <3>1. ref[e] \in Nat /\ (val[e] = Null <=> ref[e] = 0)
      BY DEF GcInv, GcTyped, Counts
    <3>2. CASE e = o
      BY <2>1, <2>2, <2>4, <2>5, <2>6, <3>2 DEF One
    <3>3. CASE e # o /\ e = held[x]
      <4>1. ref[e] > 0 /\ val[e] # Null
        BY <3>3, HeldIsLive
      <4>2. ref'[e] = ref[e] - 1
        BY <2>5, <3>1, <3>3 DEF One
      <4>3. val'[e] = IF ref[e] = 1 THEN Null ELSE val[e]
        BY <2>1, <3>3
      <4> QED
        BY <3>1, <4>1, <4>2, <4>3
    <3>4. CASE e # o /\ e # held[x]
      <4>1. ref'[e] = ref[e]
        BY <2>5, <3>1, <3>4 DEF One
      <4>2. val'[e] = val[e]
        BY <2>1, <3>4
      <4> QED
        BY <3>1, <4>1, <4>2
    <3> QED
      BY <3>2, <3>3, <3>4
  <2>9. held[x] \in Objects => \A t \in Threads \ {Owner[x]} : held[x] \notin InHand(t)
    BY <2>1 DEF Holds, Untouched
  <2>10. o # Null /\ busy[Owner[x]].at = "none" /\ UNCHANGED <<kind, cow, busy>>
    BY <2>2, GcAssumption DEF Create, Ready
  <2>11. held' = [held EXCEPT ![x] = o] /\ bad' = "no" /\ o \in Objects \cup {Null, NoHandle}
    BY <2>1, <2>2
  <2> QED
    BY ONLY GcInv, x \in Handles, <2>2, <2>3, <2>5, <2>7, <2>8, <2>9, <2>10, <2>11, TakesObject
<1> QED
  BY <1>1, <1>2

\* A handle lets go of what it holds and takes b, which another holds, or nothing.
LEMMA ReleaseKeeps ==
    ASSUME GcInv, Locked, NEW x \in Handles, Ready(x), NEW b \in Objects \cup {Null, NoHandle},
           x \in Refs => b # Null, held[x] # b,
           b \in Objects => \E y \in Handles : held[y] = b /\ busy[Owner[y]].at = "none",
           Holds(x) => Untouched(x, held[x]),
           ref' = Counted(Counted(ref, held[x], -1), b, 1),
           val' = IF Holds(x) /\ ref[held[x]] = 1 THEN [val EXCEPT ![held[x]] = Null] ELSE val,
           held' = [held EXCEPT ![x] = b], UNCHANGED <<kind, cow, busy, bad>>
    PROVE  GcInv'
<1>1. /\ ref' \in [Objects -> Int]
      /\ \A e \in Objects : ref'[e] = ref[e] - One(held[x], e) + One(b, e)
  BY CountedTwice DEF GcInv
<1>2. val' \in [Objects -> Values \cup {Null}]
  BY DEF GcInv, GcTyped, Holds
<1>3. \A e \in Objects : val'[e] = Null <=> ref'[e] = 0
  <2> SUFFICES ASSUME NEW e \in Objects PROVE val'[e] = Null <=> ref'[e] = 0
    OBVIOUS
  <2>1. ref[e] \in Nat /\ (val[e] = Null <=> ref[e] = 0) /\ val \in [Objects -> Values \cup {Null}]
    BY DEF GcInv, GcTyped, Counts
  <2>2. CASE e = held[x]
    <3>1. ref[e] > 0 /\ val[e] # Null
      BY <2>2, HeldIsLive
    <3>2. ref'[e] = ref[e] - 1
      BY <1>1, <2>1, <2>2 DEF One
    <3>3. val'[e] = IF ref[e] = 1 THEN Null ELSE val[e]
      BY <2>1, <2>2 DEF Holds
    <3> QED
      BY <2>1, <3>1, <3>2, <3>3
  <2>3. CASE e # held[x] /\ e = b
    <3>1. ref[e] > 0
      BY <2>3, HeldIsLive
    <3>2. ref'[e] = ref[e] + 1
      BY <1>1, <2>1, <2>3 DEF One
    <3>3. val'[e] = val[e]
      BY <2>1, <2>3
    <3> QED
      BY <2>1, <3>1, <3>2, <3>3
  <2>4. CASE e # held[x] /\ e # b
    <3>1. ref'[e] = ref[e]
      BY <1>1, <2>1, <2>4 DEF One
    <3>2. val'[e] = val[e]
      BY <2>1, <2>4
    <3> QED
      BY <2>1, <3>1, <3>2
  <2> QED
    BY <2>2, <2>3, <2>4
<1>4. held[x] \in Objects => \A t \in Threads \ {Owner[x]} : held[x] \notin InHand(t)
  BY DEF Holds, Untouched
<1>5. busy[Owner[x]].at = "none" /\ bad' = "no"
  BY DEF Ready
<1> QED
  BY <1>1, <1>2, <1>3, <1>4, <1>5, TakesObject

LEMMA DropKeeps ==
    ASSUME GcInv, Locked, NEW x \in Handles, NEW to \in {Null, NoHandle}, Drop(x, to)
    PROVE  GcInv'
<1>1. to \notin Objects /\ held[x] # NoHandle
  BY GcAssumption DEF Drop, Made
<1>2. x \in Refs => to # Null
  BY GcAssumption DEF Drop
<1>3. CASE held[x] = to
  <2>1. held' = held
    BY <1>3 DEF Drop, GcInv, GcTyped
  <2>2. ref' = ref /\ val' = val
    BY <1>1, <1>3 DEF Drop, ReleaseAndAdd, Counted, Holds
  <2> QED
    BY <2>1, <2>2, StutterKeeps DEF Drop, vars
<1>4. CASE held[x] # to
  <2>1. ref' = Counted(Counted(ref, held[x], -1), to, 1)
    BY <1>1, GcAssumption DEF Drop, ReleaseAndAdd, Counted
  <2>2. /\ Ready(x)
        /\ Holds(x) => Untouched(x, held[x])
        /\ val' = IF Holds(x) /\ ref[held[x]] = 1 THEN [val EXCEPT ![held[x]] = Null] ELSE val
        /\ held' = [held EXCEPT ![x] = to]
        /\ UNCHANGED <<kind, cow, busy, bad>>
    BY DEF Drop, ReleaseAndAdd
  <2> QED
    BY <1>1, <1>2, <1>4, <2>1, <2>2, ReleaseKeeps
<1> QED
  BY <1>3, <1>4

LEMMA AssignKeeps ==
    ASSUME GcInv, Careful, Locked, NEW x \in Handles, NEW y \in Handles, Assign(x, y)
    PROVE  GcInv'
<1>1. x \in Ptrs /\ x \notin Refs /\ held[y] \in Objects \cup {Null, NoHandle}
  BY GcAssumption DEF Assign, Handles, GcInv, GcTyped
<1>2. CASE held[x] = held[y]
  <2>1. held' = held /\ ref' = ref /\ val' = val
    BY <1>1, <1>2 DEF Assign, GcInv, GcTyped
  <2> QED
    BY <2>1, StutterKeeps DEF Assign, vars
<1>3. CASE held[x] # held[y]
  <2>1. ReleaseAndAdd(x, held[y], 1)
    BY <1>1, <1>3 DEF Assign
  <2>2. /\ Holds(x) => Untouched(x, held[x])
        /\ ref' = Counted(Counted(ref, held[x], -1), held[y], 1)
        /\ val' = IF Holds(x) /\ ref[held[x]] = 1 THEN [val EXCEPT ![held[x]] = Null] ELSE val
    BY <2>1 DEF ReleaseAndAdd
  <2>3. Ready(x) /\ busy[Owner[y]].at = "none" /\ held' = [held EXCEPT ![x] = held[y]]
        /\ UNCHANGED <<kind, cow, busy, bad>>
    BY DEF Assign, Ready
  <2> QED
    BY <1>1, <1>3, <2>2, <2>3, ReleaseKeeps
<1> QED
  BY <1>2, <1>3

LEMMA CopyConstructKeeps ==
    ASSUME GcInv, Locked, NEW x \in Handles, NEW y \in Handles, CopyConstruct(x, y)
    PROVE  GcInv'
<1> DEFINE b == held[y]
<1>1. held[x] = NoHandle /\ b # NoHandle /\ b \in Objects \cup {Null, NoHandle}
  BY DEF CopyConstruct, Made, GcInv, GcTyped
<1>2. x \in Refs => b # Null
  BY GcAssumption DEF CopyConstruct, Holds
<1>3. ref' = Counted(Counted(ref, held[x], -1), b, 1)
  BY <1>1, GcAssumption DEF CopyConstruct, Counted
<1>4. Ready(x) /\ busy[Owner[y]].at = "none" /\ held' = [held EXCEPT ![x] = b]
      /\ UNCHANGED <<kind, cow, val, busy, bad>>
  BY DEF CopyConstruct, Ready
<1>5. ~Holds(x)
  BY <1>1, GcAssumption DEF Holds
<1> HIDE DEF b
<1>6. b \in Objects => \E z \in Handles : held[z] = b /\ busy[Owner[z]].at = "none"
  BY <1>4 DEF b
<1> QED
  BY <1>1, <1>2, <1>3, <1>4, <1>5, <1>6, ReleaseKeeps

LEMMA EmptyKeeps ==
    ASSUME GcInv, Locked, NEW x \in Ptrs, Empty(x)
    PROVE  GcInv'
<1>1. x \in Handles /\ x \notin Refs /\ held[x] = NoHandle /\ Null \notin Objects /\ NoHandle \notin Objects /\ Null # NoHandle
  BY GcAssumption DEF Handles, Empty, Made
<1>2. ref' = Counted(Counted(ref, held[x], -1), Null, 1)
  BY <1>1 DEF Empty, Counted
<1>3. Ready(x) /\ held' = [held EXCEPT ![x] = Null] /\ UNCHANGED <<kind, cow, val, busy, bad>>
  BY DEF Empty
<1>4. ~Holds(x)
  BY <1>1 DEF Holds
<1> QED
  BY <1>1, <1>2, <1>3, <1>4, ReleaseKeeps

LEMMA SwapKeeps ==
    ASSUME GcInv, NEW x \in Handles, NEW y \in Handles, Swap(x, y)
    PROVE  GcInv'
<1> USE DEF GcInv
<1>1. /\ x # y /\ (x \in Ptrs <=> y \in Ptrs) /\ held' = [held EXCEPT ![x] = held[y], ![y] = held[x]]
      /\ UNCHANGED <<kind, cow, ref, val, busy, bad>> /\ busy[Owner[x]].at = "none" /\ busy[Owner[y]].at = "none"
      /\ Owner[x] = Owner[y]
  BY DEF Swap, Ready
<1>2. held \in [Handles -> Objects \cup {Null, NoHandle}] /\ held' \in [Handles -> Objects \cup {Null, NoHandle}]
  BY <1>1 DEF GcTyped
<1>3. held'[x] = held[y] /\ held'[y] = held[x] /\ \A z \in Handles \ {x, y} : held'[z] = held[z]
  BY <1>1, <1>2
<1>4. \A o : Cardinality(Holders(o)') = Cardinality(Holders(o))
  <2> TAKE o
  <2> DEFINE R == (Holders(o) \ {x}) \cup (IF held[y] = o THEN {x} ELSE {})
  <2>1. Holders(o) \in SUBSET Handles /\ Holders(o)' \in SUBSET Handles /\ R \in SUBSET Handles
    BY DEF Holders
  <2>2. Holders(o) \ {x} = R \ {x}
    OBVIOUS
  <2>3. R \ {y} = Holders(o)' \ {y}
    BY <1>1, <1>3 DEF Holders
  <2>4. (x \in R <=> y \in Holders(o)) /\ (y \in R <=> y \in Holders(o)) /\ (y \in Holders(o)' <=> x \in Holders(o))
    BY <1>1, <1>3 DEF Holders
  <2> HIDE DEF R
  <2>5. /\ Cardinality(Holders(o)) \in Nat /\ Cardinality(R) \in Nat
        /\ Cardinality(R) = Cardinality(Holders(o)) - In(x, Holders(o)) + In(x, R)
    BY <2>1, <2>2, FinitelyMany, OneChanges, ZenonT(60)
  <2>6. /\ Cardinality(Holders(o)') \in Nat
        /\ Cardinality(Holders(o)') = Cardinality(R) - In(y, R) + In(y, Holders(o)')
    BY <2>1, <2>3, FinitelyMany, OneChanges
  <2>7. In(x, R) = In(y, R) /\ In(y, Holders(o)') = In(x, Holders(o)) /\ In(x, R) \in Int /\ In(x, Holders(o)) \in Int
    BY <2>4 DEF In
  <2> QED
    BY <2>5, <2>6, <2>7
<1>5. \A o : Makers(o)' = Makers(o)
  BY <1>1 DEF Makers, New
<1>6. Counts'
  BY <1>1, <1>4, <1>5 DEF Counts
<1>7. GcTyped'
  <2>1. \A r \in Refs : held'[r] # Null
    BY <1>1, <1>3, GcAssumption DEF GcTyped, Handles
  <2> QED
    BY <1>1, <1>2, <2>1 DEF GcTyped
<1>8. ASSUME NEW t \in Busy
      PROVE  Access1(t)' /\ Source(t)'
  <2>0. t \in Threads /\ busy[t] \in Accesses /\ Access1(t)
    BY DEF Busy, GcTyped, Idle
  <2>1. t \in Threads /\ busy[t] \in Accesses /\ Access1(t) /\ t # Owner[x] /\ t # Owner[y] /\ busy[t].on \in Handles
        /\ busy[t].old \in Objects
    BY <1>1, <2>0 DEF Busy, Accesses
  <2>2. \A z \in Handles : Owner[z] = t => held'[z] = held[z]
    BY <1>3, <2>1
  <2>3. ref' \in [Objects -> Nat] /\ ref'[busy[t].old] >= ref[busy[t].old]
    <3>1. ref' = ref /\ ref \in [Objects -> Nat]
      BY <1>1 DEF GcTyped
    <3> QED
      BY <2>1, <3>1
  <2>4. ASSUME NEW z \in {x, y}, held'[z] \in Objects
        PROVE  /\ held'[z] # busy[t].new
               /\ cow /\ busy[t].at \in {"look", "write"} => held'[z] # held[busy[t].on]
    <3>1. PICK w \in {x, y} : held[w] = held'[z]
      BY <1>3
    <3>2. w \in Holders(held[w]) /\ w # busy[t].on
      BY <2>1 DEF Holders, Access1
    <3>3. held[w] # busy[t].new
      <4>1. busy[t].new # Null => Holders(busy[t].new) = {}
        BY <2>1, Zenon DEF Access1
      <4> QED
        BY <2>4, <3>1, <3>2, <4>1, GcAssumption
    <3>4. ASSUME cow, busy[t].at \in {"look", "write"}
          PROVE  held[w] # held[busy[t].on]
      <4>1. Holders(held[busy[t].on]) = {busy[t].on}
        BY <2>1, <3>4 DEF Access1
      <4> QED
        BY <3>2, <4>1
    <3> QED
      BY <3>1, <3>3, <3>4
  <2>5. \A z \in Handles : held'[z] = held[z] \/ held'[z] \notin Objects
            \/ /\ held'[z] # busy[t].new
               /\ cow /\ busy[t].at \in {"look", "write"} => held'[z] # held[busy[t].on]
    BY <1>3, <2>4
  <2> QED
    BY <1>1, <1>2, <2>1, <2>2, <2>3, <2>5, Undisturbed
<1>9. Busy' = Busy /\ \A t, u : Apart(t, u)' = Apart(t, u)
  BY <1>1 DEF Busy, Apart
<1> QED
  BY <1>6, <1>7, <1>8, <1>9

\* One thread goes on with its access, begins it or ends it.
LEMMA ThreadSteps ==
    ASSUME GcInv, NEW t \in Threads, NEW b \in Accesses \cup {Idle}, busy' = [busy EXCEPT ![t] = b],
           GcTyped', Counts',
           b.at # "none" => Access1(t)' /\ Source(t)',
           \A u \in Busy : u # t => Access1(u)' /\ Source(u)',
           \A u \in Busy : u # t /\ b.at # "none" =>
                /\ b.old # busy[u].old
                /\ b.new # Null => b.new # busy[u].new
    PROVE  GcInv'
<1>1. /\ busy'[t] = b
      /\ \A u \in Threads : u # t => busy'[u] = busy[u]
  BY DEF GcInv, GcTyped
<1>2. Busy' = {u \in Threads : busy'[u].at # "none"}
  BY DEF Busy
<1>3. \A u \in Busy' : u \in Threads /\ (u # t => u \in Busy) /\ (u = t => b.at # "none")
  BY <1>1, <1>2 DEF Busy
<1>4. \A u \in Busy' : Access1(u)' /\ Source(u)'
  BY <1>3
<1>5. ASSUME NEW u \in Busy', NEW w \in Busy', u # w
      PROVE  Apart(u, w)'
  <2>1. u \in Threads /\ w \in Threads
    BY <1>3
  <2>2. CASE u = t
    BY <1>1, <1>3, <1>5, <2>1, <2>2 DEF Apart
  <2>3. CASE w = t
    <3>1. u \in Busy /\ u # t /\ b.at # "none" /\ busy'[u] = busy[u] /\ busy'[w] = b
      BY <1>1, <1>3, <1>5, <2>1, <2>3
    <3>2. b.old # busy[u].old /\ (b.new # Null => b.new # busy[u].new)
      BY <3>1
    <3> QED
      BY <3>1, <3>2 DEF Apart
  <2>4. CASE u # t /\ w # t
    <3>1. u \in Busy /\ w \in Busy /\ busy'[u] = busy[u] /\ busy'[w] = busy[w]
      BY <1>1, <1>3, <2>1, <2>4
    <3>2. Apart(u, w)
      BY <1>5, <3>1 DEF GcInv
    <3> QED
      BY <3>1, <3>2 DEF Apart
  <2> QED
    BY <2>2, <2>3, <2>4
<1> QED
  BY <1>4, <1>5 DEF GcInv

\* The copies in the making, when thread t steps.
LEMMA NewOfOthers ==
    ASSUME GcInv, NEW t \in Threads, NEW b, busy' = [busy EXCEPT ![t] = b]
    PROVE  /\ \A u \in Threads \ {t} : New(u)' = New(u)
           /\ New(t)' = IF b.at = "none" THEN Null ELSE b.new
  BY DEF New, GcInv, GcTyped

LEMMA AccessKeeps ==
    ASSUME GcInv, Locked, NEW x \in Handles, NEW v, NEW from,
           Access(x, v, from),
           \/ v \in Values /\ from = Null
           \/ v = Null /\ \E y \in Handles : Owner[y] = Owner[x] /\ Holds(y) /\ from = held[y]
    PROVE  GcInv'
<1> DEFINE t == Owner[x]
           b == [at |-> IF Shared(held[x]) THEN "copy" ELSE "write",
                 on |-> x, old |-> held[x], new |-> Null, v |-> v, from |-> from]
<1>1. t \in Threads /\ held[x] \in Objects /\ busy[t].at = "none"
  BY DEF Threads, Access, Holds, Ready
<1>2. b \in Accesses /\ b.at # "none"
  BY <1>1 DEF Accesses, Holds
<1>3. busy' = [busy EXCEPT ![t] = b] /\ UNCHANGED <<kind, cow, held, ref, val, bad>>
  BY DEF Access
<1>4. b.at = (IF Shared(held[x]) THEN "copy" ELSE "write") /\ b.on = x /\ b.old = held[x] /\ b.new = Null /\ b.v = v
      /\ b.from = from
  OBVIOUS
<1> HIDE DEF b
<1>5. GcTyped'
  BY <1>1, <1>2, <1>3 DEF GcInv, GcTyped
<1>6. Counts'
  <2>1. \A u \in Threads : New(u)' = New(u)
    BY <1>1, <1>3, <1>4, NewOfOthers DEF New
  <2>2. \A o : Makers(o)' = Makers(o) /\ Holders(o)' = Holders(o)
    BY <1>3, <2>1 DEF Makers, Holders
  <2> QED
    BY <1>3, <2>2 DEF GcInv, Counts
<1>7. busy'[t] = b
  BY <1>1, <1>3 DEF GcInv, GcTyped
<1>8. Access1(t)'
  <2>1. ref[held[x]] > 0 /\ ref[held[x]] \in Nat
    BY <1>1, HeldIsLive DEF GcInv, GcTyped
  <2>2. b.at \in {"copy", "let go"} => ref[held[x]] > 1
    BY <1>4 DEF Shared
  <2>3. b.at # "let go" /\ b.at # "look"
    BY <1>4
  <2>4. cow /\ b.at = "write" => ref[held[x]] <= 1
    BY <1>4, <2>1 DEF Shared
  <2>5. cow /\ b.at = "write" => Holders(held[x]) = {x}
    BY <1>1, <2>4, OneHolder DEF GcInv
  <2>6. Holders(held[x])' = Holders(held[x])
    BY <1>3 DEF Holders
  <2>7. Holders(held[x]) = {z \in Handles : held'[z] = held'[x]}
    BY <1>3 DEF Holders
  <2> QED
    BY <1>1, <1>3, <1>4, <1>7, <2>1, <2>2, <2>3, <2>5, <2>7, Zenon DEF Access1, Holders
<1>9. Source(t)'
  <2>1. CASE v \in Values /\ from = Null
    BY <1>4, <1>7, <2>1, GcAssumption DEF Source
  <2>2. CASE \E y \in Handles : Owner[y] = Owner[x] /\ Holds(y) /\ from = held[y]
    BY <1>3, <1>4, <1>7, <2>2 DEF Source, Holds
  <2> QED
    BY <2>1, <2>2
<1>10. ASSUME NEW u \in Busy, u # t
       PROVE  Access1(u)' /\ Source(u)' /\ b.old # busy[u].old
  <2>1. u \in Threads /\ busy[u] \in Accesses
    BY DEF Busy, GcInv, GcTyped, Idle
  <2>2. busy'[u] = busy[u] /\ held' \in [Handles -> Objects \cup {Null, NoHandle}] /\ ref' \in [Objects -> Nat]
        /\ busy[u].old \in Objects
    BY <1>3, <1>10, <2>1 DEF GcInv, GcTyped, Accesses
  <2>3. ref'[busy[u].old] >= ref[busy[u].old]
    <3>1. ref'[busy[u].old] = ref[busy[u].old] /\ ref[busy[u].old] \in Nat
      BY <1>3, <2>2
    <3> QED
      BY <3>1
  <2>4. held[x] \notin InHand(u)
    BY <1>10, <2>1 DEF Access, Untouched
  <2>5. busy[u].old \in InHand(u)
    BY DEF InHand, Busy
  <2> QED
    BY <1>3, <1>4, <2>2, <2>3, <2>4, <2>5, Undisturbed
<1> QED
  BY <1>1, <1>2, <1>3, <1>4, <1>5, <1>6, <1>8, <1>9, <1>10, ThreadSteps

\* What is known of a thread at an access.
LEMMA AtAccess ==
    ASSUME GcInv, NEW t \in Threads, NEW pc, At(t, pc), pc # "none"
    PROVE  /\ t \in Busy /\ busy[t] \in Accesses /\ busy[t].at = pc
           /\ Access1(t) /\ Source(t)
           /\ busy[t].on \in Handles /\ busy[t].old \in Objects
           /\ val[busy[t].old] # Null
<1>1. t \in Busy /\ busy[t] \in Accesses /\ busy[t].at = pc
  BY DEF At, Busy, GcInv, GcTyped, Idle
<1>2. Access1(t) /\ Source(t)
  BY <1>1 DEF GcInv
<1>3. busy[t].on \in Handles /\ busy[t].old \in Objects
  BY <1>1 DEF Accesses
<1>4. ref[busy[t].old] > 0
  BY <1>2, Zenon DEF Access1
<1>5. ref[busy[t].old] \in Nat /\ (val[busy[t].old] = Null <=> ref[busy[t].old] = 0)
  BY <1>3 DEF GcInv, GcTyped, Counts
<1> QED
  BY <1>1, <1>2, <1>3, <1>4, <1>5

\* A step that changes neither the handles nor a count leaves the others as they are.
LEMMA OthersUndisturbed ==
    ASSUME GcInv, NEW t \in Threads, NEW b, busy' = [busy EXCEPT ![t] = b], cow' = cow, held' = held,
           ref' \in [Objects -> Nat], \A o \in Objects : ref'[o] >= ref[o]
    PROVE  \A u \in Busy : u # t => Access1(u)' /\ Source(u)'
<1> SUFFICES ASSUME NEW u \in Busy, u # t PROVE Access1(u)' /\ Source(u)'
  OBVIOUS
<1>1. u \in Threads /\ busy[u] \in Accesses
  BY DEF Busy, GcInv, GcTyped, Idle
<1>2. busy'[u] = busy[u] /\ held' \in [Handles -> Objects \cup {Null, NoHandle}] /\ busy[u].old \in Objects
  BY <1>1 DEF GcInv, GcTyped, Accesses
<1>3. ref'[busy[u].old] >= ref[busy[u].old]
  BY <1>2
<1> QED
  BY <1>2, <1>3, Undisturbed

LEMMA CopyFails ==
    ASSUME GcInv, NEW t \in Threads, At(t, "copy") \/ At(t, "write"), busy' = [busy EXCEPT ![t] = Idle],
           val' \in [Objects -> Values \cup {Null}], \A o \in Objects : val'[o] = Null <=> val[o] = Null,
           bad' = "no", UNCHANGED <<cow, held, ref>>
    PROVE  GcInv'
<1>1. Access1(t) /\ busy[t].at \in {"copy", "write"}
  BY AtAccess
<1>2. New(t) = Null
  BY <1>1 DEF Access1, New
<1>3. \A u \in Threads : New(u)' = New(u)
  BY <1>2, NewOfOthers DEF Idle
<1>4. \A o : Makers(o)' = Makers(o) /\ Holders(o)' = Holders(o)
  BY <1>3 DEF Makers, Holders
<1>5. Counts'
  BY <1>4 DEF GcInv, Counts
<1>6. GcTyped'
  BY DEF GcInv, GcTyped
<1>7. ref' \in [Objects -> Nat] /\ \A o \in Objects : ref'[o] >= ref[o]
  BY DEF GcInv, GcTyped
<1>8. \A u \in Busy : u # t => Access1(u)' /\ Source(u)'
  BY <1>7, OthersUndisturbed
<1>9. Idle.at = "none" /\ Idle \in Accesses \cup {Idle}
  BY DEF Idle
<1> QED
  BY <1>5, <1>6, <1>8, <1>9, ThreadSteps

LEMMA CopyKeeps ==
    ASSUME GcInv, Careful, NEW t \in Threads, Copy(t)
    PROVE  GcInv'
<1>1. At(t, "copy") /\ UNCHANGED <<kind, cow, held>>
  BY DEF Copy
<1>2. /\ t \in Busy /\ busy[t] \in Accesses /\ busy[t].at = "copy" /\ Access1(t) /\ Source(t)
      /\ busy[t].on \in Handles /\ busy[t].old \in Objects /\ val[busy[t].old] # Null
  BY <1>1, AtAccess
<1>3. CASE busy' = [busy EXCEPT ![t] = Idle] /\ bad' \in Thrown /\ UNCHANGED <<ref, val>>
  <2>1. bad' = "no" /\ val \in [Objects -> Values \cup {Null}]
    BY <1>3 DEF Thrown, GcInv, GcTyped
  <2> QED
    BY <1>1, <1>3, <2>1, CopyFails
<1>4. CASE \E o \in Fresh :
            /\ ref' = [ref EXCEPT ![o] = 1] /\ val' = [val EXCEPT ![o] = val[busy[t].old]]
            /\ busy' = [busy EXCEPT ![t].at = "let go", ![t].new = o]
            /\ bad' = "no"
  <2>1. PICK o \in Fresh :
            /\ ref' = [ref EXCEPT ![o] = 1] /\ val' = [val EXCEPT ![o] = val[busy[t].old]]
            /\ busy' = [busy EXCEPT ![t].at = "let go", ![t].new = o]
            /\ bad' = "no"
    BY <1>4
  <2>2. o \in Objects /\ val[o] = Null /\ ref[o] = 0 /\ \A u \in Threads : o \notin InHand(u)
    BY <2>1 DEF Fresh, Live, GcInv, Counts
  <2>3. o # Null /\ Holders(o) = {} /\ o # busy[t].old
    BY <1>2, <2>2, CountedIsLive, GcAssumption DEF GcInv
  <2> DEFINE b == [busy[t] EXCEPT !.at = "let go", !.new = o]
  <2>4. busy' = [busy EXCEPT ![t] = b]
    BY <2>1 DEF GcInv, GcTyped
  <2>5. b \in Accesses /\ b.at = "let go" /\ b.new = o /\ b.on = busy[t].on /\ b.old = busy[t].old
        /\ b.v = busy[t].v /\ b.from = busy[t].from
    BY <1>2, <2>2 DEF Accesses
  <2> HIDE DEF b
  <2>6. busy'[t] = b
    BY <2>4 DEF GcInv, GcTyped
  <2>7. New(t) = Null
    BY <1>2 DEF Access1, New
  <2>8. (\A u \in Threads \ {t} : New(u)' = New(u)) /\ New(t)' = o
    BY <2>4, <2>5, NewOfOthers
  <2>9. ref' \in [Objects -> Nat] /\ val' \in [Objects -> Values \cup {Null}]
    BY <1>2, <2>1 DEF GcInv, GcTyped
  <2>10. \A e \in Objects : ref'[e] = ref[e] + One(o, e) /\ (val'[e] = Null <=> ref'[e] = 0)
    <3> SUFFICES ASSUME NEW e \in Objects
                 PROVE  ref'[e] = ref[e] + One(o, e) /\ (val'[e] = Null <=> ref'[e] = 0)
      OBVIOUS
    <3>0. ref \in [Objects -> Nat] /\ val \in [Objects -> Values \cup {Null}]
      BY DEF GcInv, GcTyped
    <3>1. ref[e] \in Nat /\ (val[e] = Null <=> ref[e] = 0)
      BY <3>0 DEF GcInv, Counts
    <3>2. CASE e = o
      <4>1. ref'[e] = 1 /\ val'[e] = val[busy[t].old]
        BY <2>1, <2>2, <3>0, <3>2
      <4> QED
        BY <1>2, <2>2, <3>2, <4>1 DEF One
    <3>3. CASE e # o
      <4>1. ref'[e] = ref[e] /\ val'[e] = val[e]
        BY <2>1, <3>0, <3>3
      <4> QED
        BY <3>1, <3>3, <4>1 DEF One
    <3> QED
      BY <3>2, <3>3
  <2>11. Counts'
    <3> SUFFICES ASSUME NEW e \in Objects
                 PROVE  ref'[e] = Cardinality(Holders(e)') + Cardinality(Makers(e)')
      BY <2>10 DEF Counts
    <3>1. Cardinality(Makers(e)) \in Nat /\ Cardinality(Makers(e)') = Cardinality(Makers(e)) - One(New(t), e) + One(o, e)
      BY ONLY t \in Threads, <2>8, MakerChanges
    <3>2. Holders(e)' = Holders(e)
      BY <1>1 DEF Holders
    <3>3. IsFiniteSet(Holders(e))
      BY FinitelyMany, FS_Subset DEF Holders
    <3>4. Cardinality(Holders(e)') = Cardinality(Holders(e)) /\ Cardinality(Holders(e)) \in Nat
      BY <3>2, <3>3, FS_CardinalityType
    <3>5. ref[e] = Cardinality(Holders(e)) + Cardinality(Makers(e)) /\ ref'[e] = ref[e] + One(o, e)
      BY <2>10 DEF GcInv, Counts
    <3>6. One(New(t), e) = 0 /\ One(o, e) \in Int
      BY <2>7, GcAssumption DEF One
    <3> QED
      BY <3>1, <3>4, <3>5, <3>6
  <2>12. GcTyped'
    BY <1>1, <2>1, <2>4, <2>5, <2>9, ZenonT(60) DEF GcInv, GcTyped
  <2>13. Access1(t)'
    <3>1. ref'[busy[t].old] = ref[busy[t].old]
      <4>1. ref \in [Objects -> Nat]
        BY DEF GcInv, GcTyped
      <4> QED
        BY <1>2, <2>1, <2>3, <4>1
    <3>2. /\ Owner[busy[t].on] = t
          /\ held[busy[t].on] \in Objects
          /\ ref[busy[t].old] > 0
          /\ held[busy[t].on] = busy[t].old
          /\ ref[busy[t].old] > 1
      BY <1>2 DEF Access1
    <3>3. {z \in Handles : held'[z] = o} = {}
      BY <1>1, <2>3 DEF Holders
    <3>4. b.at \notin {"look", "write"}
      BY <2>5
    <3> QED
      BY <1>1, <2>3, <2>5, <2>6, <3>1, <3>2, <3>3, <3>4, Zenon DEF Access1, Holders
  <2>14. Source(t)'
    BY <1>1, <1>2, <2>5, <2>6 DEF Source
  <2>15. \A e \in Objects : ref'[e] >= ref[e]
    BY <2>9, <2>10 DEF One, GcInv, GcTyped
  <2>16. \A u \in Busy : u # t => Access1(u)' /\ Source(u)'
    BY <1>1, <2>4, <2>9, <2>15, OthersUndisturbed
  <2>17. ASSUME NEW u \in Busy, u # t
         PROVE  b.old # busy[u].old /\ b.new # busy[u].new
    <3>1. Apart(t, u)
      BY <1>2, <2>17 DEF GcInv
    <3>2. o # busy[u].new
      BY <2>2 DEF InHand, Busy
    <3> QED
      BY <2>5, <3>1, <3>2 DEF Apart
  <2> QED
    BY <2>4, <2>5, <2>11, <2>12, <2>13, <2>14, <2>16, <2>17, ThreadSteps, ZenonT(60)
<1> QED
  BY <1>3, <1>4 DEF Copy

\* The handle's reference goes from the object to the copy, which comes to be held.
LEMMA LetGoKeeps ==
    ASSUME GcInv, NEW t \in Threads, LetGo(t)
    PROVE  GcInv'
<1> DEFINE x == busy[t].on
           o == busy[t].old
           n == busy[t].new
           b == [busy[t] EXCEPT !.at = "look", !.new = Null]
<1>1. At(t, "let go") /\ UNCHANGED <<kind, cow, val, bad>>
  BY DEF LetGo
<1>2. /\ t \in Busy /\ busy[t] \in Accesses /\ busy[t].at = "let go" /\ Access1(t) /\ Source(t)
      /\ x \in Handles /\ o \in Objects
  BY <1>1, AtAccess
<1>3. /\ Owner[x] = t /\ held[x] = o /\ ref[o] > 1
      /\ n # Null /\ n \in Objects /\ Holders(n) = {}
  BY <1>2 DEF Access1, Accesses
<1>4. b \in Accesses /\ b.at = "look" /\ b.new = Null /\ b.on = x /\ b.old = o /\ b.v = busy[t].v /\ b.from = busy[t].from
  BY <1>2 DEF Accesses
<1>5. held' = [held EXCEPT ![x] = n] /\ ref' = [ref EXCEPT ![o] = ref[o] - 1] /\ busy' = [busy EXCEPT ![t] = b]
  BY <1>2 DEF LetGo, GcInv, GcTyped
<1>6. New(t) = n
  BY <1>2 DEF New
<1> HIDE DEF x, o, n, b
<1>7. held \in [Handles -> Objects \cup {Null, NoHandle}] /\ ref \in [Objects -> Nat]
  BY DEF GcInv, GcTyped
<1>8. held' \in [Handles -> Objects \cup {Null, NoHandle}] /\ held'[x] = n /\ \A z \in Handles : z # x => held'[z] = held[z]
  BY <1>2, <1>3, <1>5, <1>7
<1>9. o # n
  BY <1>2, <1>3 DEF Holders
<1>10. ref' \in [Objects -> Nat] /\ ref'[o] > 0 /\ \A e \in Objects : ref'[e] = ref[e] - One(o, e)
  <2>1. ref[o] \in Nat /\ ref[o] - 1 \in Nat /\ ref'[o] = ref[o] - 1 /\ \A e \in Objects : e # o => ref'[e] = ref[e]
    <3>1. ref[o] \in Nat /\ ref[o] > 1
      BY <1>2, <1>3, <1>7
    <3>2. ref[o] - 1 \in Nat
      BY <3>1
    <3>3. ref'[o] = ref[o] - 1 /\ \A e \in Objects : e # o => ref'[e] = ref[e]
      BY <1>2, <1>5, <1>7
    <3> QED
      BY <3>1, <3>2, <3>3
  <2>2. \A e \in Objects : ref[e] \in Nat
    BY <1>7
  <2>3. \A e \in Objects : ref'[e] = ref[e] - One(o, e)
    BY <2>1, <2>2 DEF One
  <2> QED
    BY <1>3, <1>5, <1>7, <2>1, <2>3
<1>11. busy'[t] = b
  BY <1>5 DEF GcInv, GcTyped
<1>12. Counts'
  <2>1. (\A u \in Threads \ {t} : New(u)' = New(u)) /\ New(t)' = Null
    BY <1>4, <1>5, NewOfOthers
  <2>2. \A e : /\ Cardinality(Makers(e)) \in Nat
               /\ Cardinality(Makers(e)') = Cardinality(Makers(e)) - One(New(t), e) + One(Null, e)
    BY ONLY t \in Threads, <2>1, MakerChanges
  <2>3. DOMAIN held = Handles
    BY <1>7
  <2>4. \A e : /\ Cardinality(Holders(e)) \in Nat
               /\ Cardinality(Holders(e)') = Cardinality(Holders(e)) - One(held[x], e) + One(n, e)
    BY ONLY <1>2, <1>5, <2>3, HolderChanges
  <2>5. ASSUME NEW e \in Objects
        PROVE  ref'[e] = Cardinality(Holders(e)') + Cardinality(Makers(e)')
    <3>1. ref[e] = Cardinality(Holders(e)) + Cardinality(Makers(e)) /\ ref'[e] = ref[e] - One(o, e)
      BY <1>10 DEF GcInv, Counts
    <3>2. One(Null, e) = 0 /\ One(n, e) \in Int /\ One(o, e) \in Int /\ held[x] = o /\ New(t) = n
      BY <1>3, <1>6, GcAssumption DEF One
    <3>3. /\ Cardinality(Makers(e)) \in Nat
          /\ Cardinality(Makers(e)') = Cardinality(Makers(e)) - One(n, e)
      BY <2>2, <3>2
    <3>4. /\ Cardinality(Holders(e)) \in Nat
          /\ Cardinality(Holders(e)') = Cardinality(Holders(e)) - One(o, e) + One(n, e)
      BY <2>4, <3>2
    <3> QED
      BY <3>1, <3>2, <3>3, <3>4
  <2>6. ASSUME NEW e \in Objects
        PROVE  val'[e] = Null <=> ref'[e] = 0
    <3>1. val'[e] = val[e] /\ (val[e] = Null <=> ref[e] = 0) /\ ref[e] \in Nat
      BY <1>1, <1>7 DEF GcInv, Counts
    <3>2. CASE e = o
      BY <1>3, <1>10, <3>1, <3>2
    <3>3. CASE e # o
      BY <1>10, <3>1, <3>3 DEF One
    <3> QED
      BY <3>2, <3>3
  <2> QED
    BY <2>5, <2>6 DEF Counts
<1>13. GcTyped'
  <2>1. \A r \in Refs : held'[r] # Null
    BY <1>3, <1>8 DEF GcInv, GcTyped, Handles
  <2> QED
    BY <1>1, <1>4, <1>5, <1>8, <1>10, <2>1 DEF GcInv, GcTyped
<1>14. Access1(t)'
  <2>1. {z \in Handles : held'[z] = held'[x]} = {x}
    BY <1>2, <1>3, <1>8 DEF Holders
  <2> QED
    BY <1>3, <1>4, <1>8, <1>10, <1>11, <2>1, Zenon DEF Access1, Holders
<1>15. Source(t)'
  BY <1>2, <1>4, <1>8, <1>11 DEF Source, x, o
<1>16. ASSUME NEW u \in Busy, u # t
       PROVE  Access1(u)' /\ Source(u)' /\ b.old # busy[u].old
  <2>1. u \in Threads /\ busy[u] \in Accesses /\ Access1(u) /\ Apart(t, u) /\ Apart(u, t)
    <3>1. u \in Threads /\ busy[u] \in Accesses
      BY DEF Busy, GcInv, GcTyped, Idle
    <3>2. Access1(u) /\ Apart(t, u) /\ Apart(u, t)
      BY <1>2, <1>16 DEF GcInv
    <3> QED
      BY <3>1, <3>2
  <2>2. busy'[u] = busy[u] /\ busy[u].old \in Objects /\ busy[u].on \in Handles /\ held[busy[u].on] \in Objects
    BY <1>5, <1>16, <2>1, ZenonT(60) DEF GcInv, GcTyped, Accesses, Access1
  <2>3. busy[u].old # o /\ busy[u].new # n
    BY <1>3, <2>1 DEF Apart, o, n
  <2>4. ref'[busy[u].old] >= ref[busy[u].old]
    <3>1. ref'[busy[u].old] = ref[busy[u].old] /\ ref[busy[u].old] \in Nat
      BY <1>7, <1>10, <2>2, <2>3 DEF One
    <3> QED
      BY <3>1
  <2>5. n # held[busy[u].on]
    BY <1>3, <2>2 DEF Holders
  <2>6. \A y \in Handles : Owner[y] = u => held'[y] = held[y]
    BY <1>3, <1>8, <1>16
  <2>7. \A z \in Handles : held'[z] = held[z] \/ held'[z] \notin Objects
            \/ /\ held'[z] # busy[u].new
               /\ cow /\ busy[u].at \in {"look", "write"} => held'[z] # held[busy[u].on]
    BY <1>8, <2>3, <2>5
  <2>8. cow' = cow
    BY <1>1
  <2>9. b.old # busy[u].old
    BY <1>4, <2>3
  <2> QED
    BY <1>8, <1>10, <2>2, <2>4, <2>6, <2>7, <2>8, <2>9, Undisturbed
<1> QED
  BY <1>4, <1>5, <1>12, <1>13, <1>14, <1>15, <1>16, ThreadSteps

\* The assertion of _DoCopy.
LEMMA LookKeeps ==
    ASSUME GcInv, NEW t \in Threads, Look(t)
    PROVE  GcInv'
<1> DEFINE b == [busy[t] EXCEPT !.at = "write"]
<1>1. At(t, "look") /\ UNCHANGED <<kind, cow, held, ref, val>>
  BY DEF Look
<1>2. /\ t \in Busy /\ busy[t] \in Accesses /\ busy[t].at = "look" /\ Access1(t) /\ Source(t)
      /\ busy[t].on \in Handles /\ busy[t].old \in Objects /\ val[busy[t].old] # Null
  BY <1>1, AtAccess
<1>3. bad' = "no"
  <2>1. ref[busy[t].old] > 0
    BY <1>2, Zenon DEF Access1
  <2>2. busy[t].old \in Live
    BY <1>2 DEF Live
  <2>3. ref[busy[t].old] # 0
    BY <2>1
  <2> QED
    BY <2>2, <2>3 DEF Look
<1>4. b \in Accesses /\ b.at = "write" /\ b.new = busy[t].new /\ b.on = busy[t].on /\ b.old = busy[t].old
      /\ b.v = busy[t].v /\ b.from = busy[t].from
  BY <1>2 DEF Accesses
<1>5. busy' = [busy EXCEPT ![t] = b]
  BY <1>1, <1>2 DEF Look, Goes, GcInv, GcTyped
<1> HIDE DEF b
<1>6. busy'[t] = b
  BY <1>5 DEF GcInv, GcTyped
<1>7. b.new = Null
  BY <1>2, <1>4 DEF Access1
<1>8. \A u \in Threads : New(u)' = New(u)
  BY <1>2, <1>4, <1>5, NewOfOthers DEF New
<1>9. \A o : Makers(o)' = Makers(o) /\ Holders(o)' = Holders(o)
  BY <1>1, <1>8 DEF Makers, Holders
<1>10. Counts'
  BY <1>1, <1>9 DEF GcInv, Counts
<1>11. GcTyped'
  BY <1>1, <1>3, <1>4, <1>5 DEF GcInv, GcTyped
<1>12. Access1(t)'
  <2>1. {z \in Handles : held'[z] = held'[busy[t].on]} = Holders(held[busy[t].on])
    BY <1>1 DEF Holders
  <2> QED
    BY <1>1, <1>2, <1>4, <1>6, <1>7, <2>1, Zenon DEF Access1, Holders
<1>13. Source(t)'
  BY <1>1, <1>2, <1>4, <1>6 DEF Source
<1>14. ref' \in [Objects -> Nat] /\ \A o \in Objects : ref'[o] >= ref[o]
  BY <1>1 DEF GcInv, GcTyped
<1>15. \A u \in Busy : u # t => Access1(u)' /\ Source(u)'
  BY <1>1, <1>5, <1>14, OthersUndisturbed
<1>16. \A u \in Busy : u # t => b.old # busy[u].old
  BY <1>2, <1>4 DEF GcInv, Apart
<1> QED
  BY <1>4, <1>5, <1>7, <1>10, <1>11, <1>12, <1>13, <1>15, <1>16, ThreadSteps

\* What is written is a value, and its object is there.
LEMMA SourceIsLive ==
    ASSUME GcInv, NEW t \in Threads, At(t, "write")
    PROVE  /\ (IF busy[t].from \in Objects THEN val[busy[t].from] ELSE busy[t].v) \in Values
           /\ busy[t].from \in Objects => busy[t].from \in Live
           /\ held[busy[t].on] \in Objects /\ val[held[busy[t].on]] # Null
<1>1. /\ busy[t] \in Accesses /\ Access1(t) /\ Source(t)
      /\ busy[t].on \in Handles /\ busy[t].old \in Objects /\ val[busy[t].old] # Null
  BY AtAccess
<1>2. held[busy[t].on] \in Objects
  BY <1>1 DEF Access1
<1>3. val[held[busy[t].on]] # Null
  BY <1>1, <1>2, HeldIsLive
<1>4. busy[t].from \in Objects => val[busy[t].from] # Null
  <2> SUFFICES ASSUME busy[t].from \in Objects PROVE val[busy[t].from] # Null
    OBVIOUS
  <2>1. CASE busy[t].from = busy[t].old
    BY <1>1, <2>1
  <2>2. CASE \E y \in Handles : held[y] = busy[t].from
    BY <2>2, HeldIsLive
  <2> QED
    BY <1>1, <2>1, <2>2, GcAssumption DEF Source
<1>5. busy[t].from \notin Objects => busy[t].v \in Values
  <2> SUFFICES ASSUME busy[t].from \notin Objects PROVE busy[t].v \in Values
    OBVIOUS
  <2>1. busy[t].from = Null /\ busy[t].v \in Values \cup {Null}
    BY <1>1 DEF Accesses
  <2>2. busy[t].v # Null
    BY <1>1, <2>1, GcAssumption DEF Source
  <2> QED
    BY <2>1, <2>2
<1>6. val \in [Objects -> Values \cup {Null}]
  BY DEF GcInv, GcTyped
<1> QED
  BY <1>2, <1>3, <1>4, <1>5, <1>6 DEF Live

LEMMA WriteKeeps ==
    ASSUME GcInv, NEW t \in Threads, Write(t)
    PROVE  GcInv'
<1>1. At(t, "write") /\ busy' = [busy EXCEPT ![t] = Idle] /\ UNCHANGED <<cow, held, ref>>
  BY DEF Write
<1>2. bad' = "no"
  BY <1>1, SourceIsLive DEF Write
<1> DEFINE v == IF busy[t].from \in Objects THEN val[busy[t].from] ELSE busy[t].v
           h == held[busy[t].on]
<1>3. val' = [val EXCEPT ![h] = v]
  BY DEF Write
<1>4. v \in Values /\ h \in Objects /\ val[h] # Null
  BY <1>1, SourceIsLive
<1> HIDE DEF v, h
<1>5. v # Null
  BY <1>4, GcAssumption
<1>6. val' \in [Objects -> Values \cup {Null}] /\ \A o \in Objects : val'[o] = Null <=> val[o] = Null
  BY <1>3, <1>4, <1>5 DEF GcInv, GcTyped
<1> QED
  BY <1>1, <1>2, <1>6, CopyFails

THEOREM CountsStaySound == ASSUME Careful, Locked PROVE Spec => []GcInv
<1>1. GcInv /\ [Next]_vars => GcInv'
  <2> SUFFICES ASSUME GcInv, [Next]_vars PROVE GcInv'
    OBVIOUS
  <2>1. ASSUME NEW x \in Handles, Create(x) PROVE GcInv'
    BY <2>1, CreateKeeps
  <2>2. ASSUME NEW x \in Handles, NEW to \in {Null, NoHandle}, Drop(x, to) PROVE GcInv'
    BY <2>2, DropKeeps
  <2>3. ASSUME NEW p \in Ptrs, Empty(p) PROVE GcInv'
    BY <2>3, EmptyKeeps
  <2>4. ASSUME NEW x \in Handles, NEW y \in Handles, CopyConstruct(x, y) \/ Assign(x, y) \/ Swap(x, y) PROVE GcInv'
    BY <2>4, CopyConstructKeeps, AssignKeeps, SwapKeeps
  <2>5. ASSUME NEW x \in Handles, NEW v \in Values, Access(x, v, Null) PROVE GcInv'
    BY <2>5, AccessKeeps
  <2>6. ASSUME NEW r \in Refs, NEW y \in Handles, Ready(y), Owner[y] = Owner[r], Holds(y), Access(r, Null, held[y])
        PROVE  GcInv'
    BY <2>6, AccessKeeps DEF Handles
  <2>7. ASSUME NEW t \in Threads, Copy(t) \/ LetGo(t) \/ Look(t) \/ Write(t) PROVE GcInv'
    BY <2>7, CopyKeeps, LetGoKeeps, LookKeeps, WriteKeeps
  <2>8. CASE UNCHANGED vars
    BY <2>8, StutterKeeps
  <2> QED
    BY <2>1, <2>2, <2>3, <2>4, <2>5, <2>6, <2>7, <2>8 DEF Next
<1> QED
  BY InitIsSound, <1>1, PTL DEF Spec

\* Every count is the number of the handles, and of the makers, that refer to the
\* object; a handle's object is there, an object that is there is held; and no
\* assertion fails, that of _DoCopy among them.
THEOREM ObjectsStaySound == ASSUME Careful, Locked PROVE Spec => []ObjectsAreSound
<1>1. GcInv => ObjectsAreSound
  <2> SUFFICES ASSUME GcInv PROVE ObjectsAreSound
    OBVIOUS
  <2>1. ASSUME NEW o \in Objects
        PROVE  Makers(o) = {t \in Threads : o \in InHand(t) /\ busy[t].new = o}
    BY <2>1, GcAssumption DEF Makers, New, InHand
  <2>2. ReferencesAreCounted
    BY <2>1 DEF ReferencesAreCounted, GcInv, Counts, Live, Holders
  <2>3. HeldWhileNeeded
    <3>1. \A x \in Handles : Holds(x) => held[x] \in Live
      BY HeldIsLive DEF Holds, Live
    <3>2. \A o \in Live : ref[o] > 0
      BY DEF Live, GcInv, GcTyped, Counts
    <3> QED
      BY <3>1, <3>2 DEF HeldWhileNeeded
  <2>4. NothingGoesAstray
    BY DEF NothingGoesAstray, GcInv, GcTyped
  <2> QED
    BY <2>2, <2>3, <2>4 DEF ObjectsAreSound
<1> QED
  BY <1>1, CountsStaySound, PTL

-----------------------------------------------------------------------------
(***************************************************************************)
(* Handles that copy on write have values of their own.                    *)
(***************************************************************************)

\* What a client sees of a handle.
CellOf(x) == IF ~cow THEN NoHandle ELSE IF Holds(x) THEN val[held[x]] ELSE held[x]

LEMMA CellTyped ==
    ASSUME GcTyped, NEW x \in Handles
    PROVE  CellOf(x) \in Values \cup {Null, NoHandle}
  BY DEF CellOf, GcTyped, Holds

\* A step in which nobody but x sees a change.
LEMMA ChangesOne ==
    ASSUME GcTyped', NEW x \in Handles, cow' = cow,
           \A z \in Handles : z # x => held'[z] = held[z] /\ (Holds(z) => val'[held[z]] = val[held[z]])
    PROVE  Cells!Next
<1> DEFINE v == CellOf(x)'
<1>1. v \in Values \cup {Null, NoHandle}
  <2>1. \A z \in Handles : CellOf(z)' \in Values \cup {Null, NoHandle}
    BY DEF CellOf, GcTyped, Holds
  <2> QED
    BY <2>1
<1>2. \A z \in Handles : z # x => CellOf(z)' = CellOf(z)
  BY DEF CellOf, Holds
<1> HIDE DEF v
<1>3. \A z \in Handles : CellOf(z)' = IF z = x THEN v ELSE CellOf(z)
  BY <1>2 DEF v
<1>4. [z \in Handles |-> CellOf(z)]' = [z \in Handles |-> IF z = x THEN v ELSE CellOf(z)]
  BY <1>3, Zenon
<1>5. [z \in Handles |-> IF z = x THEN v ELSE CellOf(z)] = [[z \in Handles |-> CellOf(z)] EXCEPT ![x] = v]
  OBVIOUS
<1>6. [z \in Handles |-> CellOf(z)]' = [[z \in Handles |-> CellOf(z)] EXCEPT ![x] = v]
  BY <1>4, <1>5, Zenon
<1>7. Cells!Change
  BY <1>1, <1>6 DEF Cells!Change, CellOf
<1> QED
  BY <1>7 DEF Cells!Next

LEMMA NobodySees ==
    ASSUME cow' = cow, \A z \in Handles : held'[z] = held[z] /\ (Holds(z) => val'[held[z]] = val[held[z]])
    PROVE  [z \in Handles |-> CellOf(z)]' = [z \in Handles |-> CellOf(z)]
<1>1. \A z \in Handles : CellOf(z)' = CellOf(z)
  BY DEF CellOf, Holds
<1> QED
  BY <1>1, Zenon

\* The last reference is its holder's: what it destroys nobody else sees.
LEMMA DestroysItsOwn ==
    ASSUME GcInv, NEW x \in Handles, NEW z \in Handles, z # x, Holds(x), Holds(z), ref[held[x]] = 1
    PROVE  held[z] # held[x]
<1>1. Holders(held[x]) = {x}
  BY OneHolder DEF GcInv, Holds
<1> QED
  BY <1>1 DEF Holders

LEMMA ReleaseChangesOne ==
    ASSUME GcInv, GcInv', NEW x \in Handles, NEW b, NEW n, held' = [held EXCEPT ![x] = b],
           ReleaseAndAdd(x, b, n), cow' = cow
    PROVE  Cells!Next
<1> SUFFICES ASSUME NEW z \in Handles, z # x
             PROVE  held'[z] = held[z] /\ (Holds(z) => val'[held[z]] = val[held[z]])
  BY ChangesOne DEF GcInv
<1>1. held'[z] = held[z]
  BY DEF GcInv, GcTyped
<1>2. Holds(z) => val'[held[z]] = val[held[z]]
  BY DestroysItsOwn DEF ReleaseAndAdd, GcInv, GcTyped
<1> QED
  BY <1>1, <1>2

LEMMA CreateChangesOne ==
    ASSUME GcInv, GcInv', Careful, NEW x \in Handles, Create(x)
    PROVE  Cells!Next \/ UNCHANGED [z \in Handles |-> CellOf(z)]
<1>1. CASE UNCHANGED <<held, ref, val>>
  BY <1>1, NobodySees DEF Create
<1>2. CASE ~UNCHANGED <<held, ref, val>>
  <2>1. PICK o \in Fresh, v \in Values :
          /\ val' = [e \in Objects |-> IF e = o THEN v ELSE IF e = held[x] /\ ref[e] = 1 THEN Null ELSE val[e]]
          /\ held' = [held EXCEPT ![x] = o]
    BY <1>2 DEF Create
  <2>2. val[o] = Null
    BY <2>1 DEF Fresh, Live
  <2>3. ASSUME NEW z \in Handles, z # x
        PROVE  held'[z] = held[z] /\ (Holds(z) => val'[held[z]] = val[held[z]])
    <3>1. held'[z] = held[z]
      BY <2>1, <2>3 DEF GcInv, GcTyped
    <3>2. ASSUME Holds(z)
          PROVE  val'[held[z]] = val[held[z]]
      <4>1. held[z] \in Objects /\ held[z] # o
        BY <2>2, <3>2, HeldIsLive DEF Holds
      <4>2. ~(held[z] = held[x] /\ ref[held[z]] = 1)
        BY <2>3, <3>2, DestroysItsOwn DEF Holds
      <4> QED
        BY <2>1, <4>1, <4>2
    <3> QED
      BY <3>1, <3>2
  <2>4. cow' = cow
    BY DEF Create
  <2> QED
    BY <2>3, <2>4, ChangesOne DEF GcInv
<1> QED
  BY <1>1, <1>2

LEMMA SwapExchanges ==
    ASSUME GcInv, NEW x \in Handles, NEW y \in Handles, Swap(x, y)
    PROVE  Cells!Next
<1> DEFINE c == [z \in Handles |-> CellOf(z)]
<1>1. \A z \in Handles : CellOf(z)' = IF z = x THEN CellOf(y) ELSE IF z = y THEN CellOf(x) ELSE CellOf(z)
  BY DEF Swap, CellOf, Holds, GcInv, GcTyped
<1>2. c' = [z \in Handles |-> IF z = x THEN CellOf(y) ELSE IF z = y THEN CellOf(x) ELSE CellOf(z)]
  BY <1>1, Zenon
<1>3. c[x] = CellOf(x) /\ c[y] = CellOf(y)
  OBVIOUS
<1>4. x # y
  BY DEF Swap
<1>5. [z \in Handles |-> IF z = x THEN CellOf(y) ELSE IF z = y THEN CellOf(x) ELSE CellOf(z)]
        = [c EXCEPT ![x] = c[y], ![y] = c[x]]
  BY <1>3, <1>4
<1>6. c' = [c EXCEPT ![x] = c[y], ![y] = c[x]]
  BY <1>2, <1>5, Zenon
<1>7. Cells!Exchange
  BY <1>6 DEF Cells!Exchange, CellOf
<1> QED
  BY <1>7 DEF Cells!Next

LEMMA AccessChangesOne ==
    ASSUME GcInv, GcInv', NEW t \in Threads, Copy(t) \/ LetGo(t) \/ Look(t) \/ Write(t)
    PROVE  Cells!Next \/ UNCHANGED [z \in Handles |-> CellOf(z)]
<1>1. cow' = cow
  BY DEF Copy, LetGo, Look, Write
<1>2. CASE Copy(t)
  <2>1. ASSUME NEW z \in Handles, Holds(z)
        PROVE  val'[held[z]] = val[held[z]]
    <3>1. val[held[z]] # Null
      BY <2>1, HeldIsLive DEF Holds
    <3> QED
      BY <1>2, <2>1, <3>1 DEF Copy, Fresh, Live, GcInv, GcTyped, Holds
  <2>2. held' = held
    BY <1>2 DEF Copy
  <2> QED
    BY <1>1, <2>1, <2>2, NobodySees
<1>3. CASE LetGo(t)
  <2>1. busy[t].on \in Handles
    BY <1>3, AtAccess DEF LetGo
  <2>2. \A z \in Handles : z # busy[t].on => held'[z] = held[z]
    BY <1>3, <2>1 DEF LetGo, GcInv, GcTyped
  <2>3. val' = val
    BY <1>3 DEF LetGo
  <2> QED
    BY <1>1, <2>1, <2>2, <2>3, ChangesOne DEF GcInv
<1>4. CASE Look(t)
  BY <1>1, <1>4, NobodySees DEF Look
<1>5. CASE Write(t)
  <2>1. At(t, "write") /\ held' = held
    BY <1>5 DEF Write
  <2>2. busy[t].on \in Handles /\ Access1(t) /\ busy[t].at = "write"
    BY <2>1, AtAccess
  <2>3. CASE cow
    <3>1. Holders(held[busy[t].on]) = {busy[t].on}
      BY <2>2, <2>3 DEF Access1
    <3>2. ASSUME NEW z \in Handles, z # busy[t].on
          PROVE  held[z] # held[busy[t].on]
      BY <3>1, <3>2 DEF Holders
    <3>3. \A z \in Handles : z # busy[t].on => (Holds(z) => val'[held[z]] = val[held[z]])
      BY <1>5, <3>2 DEF Write, GcInv, GcTyped, Holds
    <3> QED
      BY <1>1, <2>1, <2>2, <3>3, ChangesOne DEF GcInv
  <2>4. CASE ~cow
    <3>1. \A z \in Handles : CellOf(z)' = CellOf(z)
      BY <1>1, <2>4 DEF CellOf
    <3> QED
      BY <3>1, Zenon
  <2> QED
    BY <2>3, <2>4
<1> QED
  BY <1>2, <1>3, <1>4, <1>5

\* What is written through a handle that copies on write is seen through no other,
\* a copy that fails is not seen at all, and no step changes two handles but swap().
THEOREM HandlesAreValues == ASSUME Careful, Locked PROVE Spec => CopyOnWriteIsByValue
<1>1. Init => Cells!Init
  <2> SUFFICES ASSUME Init PROVE Cells!Init
    OBVIOUS
  <2>1. \A x \in Handles : CellOf(x) = NoHandle
    BY GcAssumption DEF Init, CellOf, Holds
  <2>2. [x \in Handles |-> CellOf(x)] = [x \in Handles |-> NoHandle]
    BY <2>1, Zenon
  <2> QED
    BY <2>2 DEF Cells!Init, CellOf
<1>2. GcInv /\ GcInv' /\ [Next]_vars => [Cells!Next]_[x \in Handles |-> IF ~cow THEN NoHandle ELSE IF Holds(x) THEN val[held[x]] ELSE held[x]]
  <2> SUFFICES ASSUME GcInv, GcInv', [Next]_vars
               PROVE  Cells!Next \/ UNCHANGED [x \in Handles |-> CellOf(x)]
    BY DEF CellOf
  <2>1. ASSUME NEW x \in Handles, Create(x) PROVE Cells!Next \/ UNCHANGED [z \in Handles |-> CellOf(z)]
    BY <2>1, CreateChangesOne
  <2>2. ASSUME NEW x \in Handles, NEW to, Drop(x, to) PROVE Cells!Next
    <3>1. held' = [held EXCEPT ![x] = to] /\ cow' = cow
      BY <2>2 DEF Drop
    <3>2. ASSUME NEW z \in Handles, z # x
          PROVE  held'[z] = held[z] /\ (Holds(z) => val'[held[z]] = val[held[z]])
      <4>1. held'[z] = held[z]
        BY <3>1, <3>2 DEF GcInv, GcTyped
      <4>2. Holds(z) => val'[held[z]] = val[held[z]]
        BY <2>2, <3>2, DestroysItsOwn DEF Drop, ReleaseAndAdd, GcInv, GcTyped
      <4> QED
        BY <4>1, <4>2
    <3> QED
      BY <3>1, <3>2, ChangesOne DEF GcInv
  <2>3. ASSUME NEW x \in Handles, Empty(x) PROVE Cells!Next
    BY <2>3, ChangesOne DEF Empty, GcInv, GcTyped
  <2>4. ASSUME NEW x \in Handles, NEW y \in Handles, CopyConstruct(x, y) PROVE Cells!Next
    BY <2>4, ChangesOne DEF CopyConstruct, GcInv, GcTyped
  <2>5. ASSUME NEW x \in Handles, NEW y \in Handles, Assign(x, y) PROVE Cells!Next
    <3>1. held' = [held EXCEPT ![x] = held[y]] /\ cow' = cow
      BY <2>5 DEF Assign
    <3>2. CASE val' = val
      BY <3>1, <3>2, ChangesOne DEF GcInv, GcTyped
    <3>3. CASE val' # val
      <4>1. ReleaseAndAdd(x, held[y], IF x \in Ptrs THEN 1 ELSE 0)
        BY <2>5, <3>3, Zenon DEF Assign
      <4> QED
        BY <3>1, <4>1, ReleaseChangesOne
    <3> QED
      BY <3>2, <3>3
  <2>6. ASSUME NEW x \in Handles, NEW y \in Handles, Swap(x, y) PROVE Cells!Next
    BY <2>6, SwapExchanges
  <2>7. ASSUME NEW x, NEW v, NEW from, Access(x, v, from) PROVE UNCHANGED [z \in Handles |-> CellOf(z)]
    BY <2>7, NobodySees DEF Access
  <2>8. ASSUME NEW t \in Threads, Copy(t) \/ LetGo(t) \/ Look(t) \/ Write(t)
        PROVE  Cells!Next \/ UNCHANGED [z \in Handles |-> CellOf(z)]
    BY <2>8, AccessChangesOne
  <2>9. CASE UNCHANGED vars
    BY <2>9, NobodySees DEF vars
  <2> QED
    BY <2>1, <2>2, <2>3, <2>4, <2>5, <2>6, <2>7, <2>8, <2>9 DEF Next, Handles
<1>3. Spec => []GcInv
  BY CountsStaySound
<1> QED
  BY <1>1, <1>2, <1>3, PTL DEF Spec, CopyOnWriteIsByValue, Cells!Spec
=============================================================================
