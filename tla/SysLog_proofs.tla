--------------------------- MODULE SysLog_proofs ---------------------------
(***************************************************************************)
(* Whatever a client asks of a thread's log and whatever fails below: one  *)
(* assertion is reported at a time and lets go of its flag, the manager    *)
(* opens one file, the parts of the file are there together wherever a     *)
(* message is logged, the file of a thread in which nothing went wrong is  *)
(* JSON and holds the last messages of the system's log, and a program     *)
(* that aborts has said why and has closed its file.                       *)
(***************************************************************************)
EXTENDS SysLog, FiniteSetTheorems, SequenceTheorems, TLAPS

Messages == {PlainMessage, CreatedMessage, FailedMessage, Traced, AssertionMessage}
Why == {"errorAssertion", "infoTrace"}

Bare == {"manager", "create", "created", "closeArray", "closeRoot", "closeStream", "gone", "abort"}
Items ==
    [do : Bare] \cup [do : {"has", "entry"}, msg : Messages] \cup [do : {"write"}, msg : Messages, context : BOOLEAN]
    \cup [do : {"end"}, part : {"array", "root"}] \cup [do : {"assert", "asserted", "traced"}, act : Actions]

\* What is open in a file that something went wrong with may be anything.
LogTyped ==
    /\ mgr \in {"none", "live", "gone"} /\ parts \in SUBSET AllParts
    /\ file \in [nest : {file.nest}, entries : Seq(Messages), json : BOOLEAN]
    /\ inAssert \in BOOLEAN /\ exc \in BOOLEAN /\ unwinding \in BOOLEAN /\ upset \in BOOLEAN
    /\ todo \in Seq(Items) /\ syslogged \in Seq(Messages)
    /\ dead \in {"no", "abort", "terminate", "astray"}

\* todo from the bottom: what is done last is at 1, and stays there.
Stack(t) == [h \in 1 .. Len(t) |-> t[Len(t) + 1 - h]]
D(s, h) == s[h].do
Top(s) == D(s, Len(s))

(***************************************************************************)
(* The invariant.                                                          *)
(***************************************************************************)

\* up is the flag; a report that aborts keeps it to its end.
Reports(s, up) ==
    /\ \A h, k \in 1 .. Len(s) : D(s, h) = "asserted" /\ D(s, k) = "asserted" => h = k
    /\ \A h \in 1 .. Len(s) : D(s, h) = "asserted" => up
    /\ up => \E h \in 1 .. Len(s) : D(s, h) \in {"asserted", "abort"}
    /\ \A h, k \in 1 .. Len(s) : h < k /\ D(s, k) = "abort" => D(s, h) # "asserted"

TracedLast(s) == \A h \in 1 .. Len(s) : D(s, h) = "traced" => h = 1

\* Nothing that can throw is above what closes the file, but in the destructor of
\* a part, which lets nothing out.
Closes == {"closeArray", "closeRoot", "closeStream"}
Kept == Closes \cup {"abort"}
EndBetween(s, h, k) == \E e \in 1 .. Len(s) : h < e /\ e <= k /\ D(s, e) = "end"
Sheltered(s, m) ==
    \A h, k \in 1 .. Len(s) : h < k /\ D(s, h) \in Kept =>
        D(s, k) \in Closes \/ (D(s, k) = "manager" /\ m # "none") \/ EndBetween(s, h, k)
Stopped(s, x) == x => \A h \in 1 .. Len(s) : D(s, h) \in Kept => EndBetween(s, h, Len(s))

\* The manager is made first, and once.
Unmade(s, m, x) ==
    m = "none" => /\ \A h \in 1 .. Len(s) : D(s, h) \in {"manager", "has", "assert", "traced"} /\ (D(s, h) = "manager" => h = Len(s))
                  /\ ~x /\ Len(s) > 0 => Top(s) = "manager"
Makes == {"create", "created"}
Making(s) ==
    /\ \A h, k \in 1 .. Len(s) : D(s, h) \in Makes /\ D(s, k) \in Makes => h = k
    /\ \A h, k \in 1 .. Len(s) : h < k /\ D(s, k) \in Makes => D(s, h) \in {"has", "assert", "traced"}

\* The parts go in their order, and all of them before an abort.
Below(s, h, x) == h > 1 /\ D(s, h - 1) = x
Shape(s) ==
    \A h \in 1 .. Len(s) :
        /\ D(s, h) = "closeArray" \/ (D(s, h) = "end" /\ s[h].part = "array") => Below(s, h, "closeRoot")
        /\ D(s, h) = "closeRoot" \/ (D(s, h) = "end" /\ s[h].part = "root") => Below(s, h, "closeStream")
Above(s, h, x) == \E k \in 1 .. Len(s) : h < k /\ D(s, k) = x
Remaining(s, p) ==
    \A h \in 1 .. Len(s) :
        /\ D(s, h) = "abort" /\ p # {} => Above(s, h, "closeStream")
        /\ D(s, h) = "closeStream" /\ p \cap {"root", "array"} # {} => Above(s, h, "closeRoot")
        /\ D(s, h) = "closeRoot" /\ "array" \in p => Above(s, h, "closeArray")
Torn(s, p) == (p # {} /\ p # AllParts) => \E h \in 1 .. Len(s) : D(s, h) = "closeStream"

\* While the file is being closed only the report of an assertion looks at it.
Asks(s) ==
    \A h, k \in 1 .. Len(s) : h < k /\ D(s, h) = "closeStream" /\ D(s, k) = "has" =>
       \E a \in 1 .. Len(s) : a < k /\ D(s, a) = "asserted"

\* What may abort has its message on the way, or in the log.
WhyLogged(log) == \E i \in DOMAIN log : log[i] \in Why
Told(s, x, log) ==
    \A h \in 1 .. Len(s) :
        /\ D(s, h) \in {"asserted", "traced"} =>
             IF h = Len(s) THEN x \/ WhyLogged(log)
             ELSE \/ D(s, h + 1) \in {"has", "write"} /\ s[h + 1].msg \in Why
                  \/ D(s, h + 1) = "entry" /\ WhyLogged(log)
        /\ D(s, h) = "abort" => WhyLogged(log)

\* When nothing went wrong calls nest in a few ways only.
Pairs ==
    {<<"manager", "has">>, <<"manager", "assert">>, <<"manager", "closeArray">>, <<"create", "has">>, <<"create", "assert">>,
     <<"created", "has">>, <<"created", "assert">>,
     <<"closeArray", "closeRoot">>, <<"closeRoot", "closeStream">>, <<"end", "closeRoot">>, <<"end", "closeStream">>,
     <<"closeStream", "abort">>, <<"closeStream", "gone">>}
    \cup ({"has", "write", "entry"} \X {"has", "assert", "created", "traced", "asserted"})
Orderly(s) == \A h \in 1 .. Len(s) : h < Len(s) => <<D(s, h + 1), D(s, h)>> \in Pairs

\* Then the file is open or shut but for what is being done to it.
EndsWith(log, e) ==
    LET d == Len(log) - Len(e) IN d >= 0 /\ \A i \in 1 .. Len(e) : e[i] = log[d + i]
Open == parts = AllParts /\ file.nest = <<"array", "root">>
Shut == parts = {} /\ file.nest = <<>>
Steady == (Open \/ Shut) /\ (Open => EndsWith(syslogged, file.entries))
Upcoming == IF todo = <<>> THEN "none" ELSE Now.do
Stage ==
    /\ file.json /\ ~unwinding
    /\ exc \/ Upcoming \notin {"write", "entry", "end", "closeRoot", "closeStream", "abort", "gone"} => Steady
    /\ ~exc =>
       /\ Upcoming = "write" => Steady /\ Now.context = ("stream" \in parts)
       /\ Upcoming = "entry" => /\ parts = AllParts /\ file.nest = <<"entry", "array", "root">>
                             /\ EndsWith(syslogged, Append(file.entries, Now.msg))
       /\ Upcoming = "end" /\ Now.part = "array" => parts = {"stream", "root"} /\ file.nest = <<"array", "root">>
       /\ Upcoming = "end" /\ Now.part = "root" => parts = {"stream"} /\ file.nest = <<"root">>
       /\ Upcoming = "closeRoot" => Shut \/ (parts = {"stream", "root"} /\ file.nest = <<"root">>)
       /\ Upcoming = "closeStream" => Shut \/ (parts = {"stream"} /\ file.nest = <<>>)
       /\ Upcoming \in {"abort", "gone"} => Shut

Structure(s, m) == TracedLast(s) /\ Sheltered(s, m) /\ Making(s) /\ Shape(s) /\ Asks(s)

Held(s, m, up, x, p, log) ==
    /\ Structure(s, m) /\ Reports(s, up) /\ Stopped(s, x) /\ Unmade(s, m, x)
    /\ Remaining(s, p) /\ Torn(s, p) /\ Told(s, x, log)

Core ==
    /\ Held(Stack(todo), mgr, inAssert, exc, parts, syslogged)
    /\ mgr = "none" => parts = {} /\ file = NoFile
    /\ ~upset => Orderly(Stack(todo)) /\ Stage

\* A program that has ended did so in a state where everything holds.
LogInv ==
    /\ LogTyped /\ LogIsSound /\ AbortTellsWhy
    /\ dead = "no" => Core

-----------------------------------------------------------------------------
(***************************************************************************)
(* What a step does to the stack: the top goes, and others may come.       *)
(***************************************************************************)

Kept1(s, s1) == \A h \in 1 .. Len(s) - 1 : s1[h] = s[h]
Pop(s, s1) == Len(s1) = Len(s) - 1 /\ Kept1(s, s1)
Put1(s, s1, w) == Len(s1) = Len(s) /\ Kept1(s, s1) /\ s1[Len(s)] = w
Put2(s, s1, w, x) == Len(s1) = Len(s) + 1 /\ Kept1(s, s1) /\ s1[Len(s)] = w /\ s1[Len(s) + 1] = x
Put3(s, s1, w, x, y) ==
    /\ Len(s1) = Len(s) + 2 /\ Kept1(s, s1)
    /\ s1[Len(s)] = w /\ s1[Len(s) + 1] = x /\ s1[Len(s) + 2] = y
Put4(s, s1, w, x, y, z) ==
    /\ Len(s1) = Len(s) + 3 /\ Kept1(s, s1)
    /\ s1[Len(s)] = w /\ s1[Len(s) + 1] = x /\ s1[Len(s) + 2] = y /\ s1[Len(s) + 3] = z

ManagerItem == [do |-> "manager"]
HasItem(m) == [do |-> "has", msg |-> m]

LEMMA Stacks ==
    ASSUME NEW t \in Seq(Items)
    PROVE  /\ Stack(t) \in Seq(Items) /\ Len(Stack(t)) = Len(t)
           /\ t # <<>> => Len(t) \in Nat /\ Len(t) > 0 /\ Stack(t)[Len(t)] = Head(t) /\ Head(t) \in Items
           /\ t = <<>> <=> Len(t) = 0
BY DEF Stack

LEMMA Restack ==
    ASSUME NEW t \in Seq(Items), t # <<>>, NEW u \in Seq(Items)
    PROVE  /\ u \o Tail(t) \in Seq(Items)
           /\ Len(Stack(u \o Tail(t))) = Len(t) - 1 + Len(u)
           /\ Kept1(Stack(t), Stack(u \o Tail(t)))
           /\ \A i \in 1 .. Len(u) : Stack(u \o Tail(t))[Len(t) - 1 + i] = u[Len(u) + 1 - i]
<1> DEFINE v == u \o Tail(t)
<1>1. v \in Seq(Items) /\ Len(v) = Len(u) + Len(t) - 1
  OBVIOUS
<1>2. \A i \in 1 .. Len(v) : v[i] = IF i <= Len(u) THEN u[i] ELSE t[i - Len(u) + 1]
  OBVIOUS
<1> HIDE DEF v
<1>3. Len(Stack(v)) = Len(t) - 1 + Len(u) /\ Len(Stack(t)) = Len(t)
  BY <1>1 DEF Stack
<1>4. \A h \in 1 .. Len(v) : Stack(v)[h] = v[Len(v) + 1 - h]
  BY <1>1 DEF Stack
<1>5. \A h \in 1 .. Len(t) : Stack(t)[h] = t[Len(t) + 1 - h]
  BY DEF Stack
<1>6. ASSUME NEW h \in 1 .. Len(t) - 1 PROVE Stack(v)[h] = Stack(t)[h]
  <2>1. h \in 1 .. Len(v) /\ h \in 1 .. Len(t) /\ Len(v) + 1 - h \in 1 .. Len(v) /\ ~(Len(v) + 1 - h <= Len(u))
    BY <1>1
  <2>2. (Len(v) + 1 - h) - Len(u) + 1 = Len(t) + 1 - h
    BY <1>1
  <2> QED
    BY <1>2, <1>4, <1>5, <2>1, <2>2
<1>7. ASSUME NEW i \in 1 .. Len(u) PROVE Stack(v)[Len(t) - 1 + i] = u[Len(u) + 1 - i]
  <2>1. Len(t) - 1 + i \in 1 .. Len(v) /\ Len(v) + 1 - (Len(t) - 1 + i) = Len(u) + 1 - i
        /\ Len(u) + 1 - i \in 1 .. Len(v) /\ Len(u) + 1 - i <= Len(u)
    BY <1>1
  <2> QED
    BY <1>2, <1>4, <2>1
<1> QED
  BY <1>1, <1>3, <1>6, <1>7 DEF v, Kept1

\* The steps that this model has.
LEMMA Popped ==
    ASSUME NEW t \in Seq(Items), t # <<>>
    PROVE  /\ Tail(t) \in Seq(Items) /\ <<>> \o Tail(t) = Tail(t)
           /\ Pop(Stack(t), Stack(Tail(t)))
<1> DEFINE u == <<>>
<1>1. u \o Tail(t) = Tail(t) /\ Tail(t) \in Seq(Items) /\ u \in Seq(Items) /\ Len(u) = 0
  OBVIOUS
<1> HIDE DEF u
<1>2. Len(Stack(u \o Tail(t))) = Len(t) - 1 + Len(u) /\ Kept1(Stack(t), Stack(u \o Tail(t)))
  BY <1>1, Restack
<1>3. Len(Stack(t)) = Len(t) /\ Len(t) \in Nat
  BY Stacks
<1> QED
  BY <1>1, <1>2, <1>3 DEF Pop, u

LEMMA PutOne ==
    ASSUME NEW t \in Seq(Items), t # <<>>, NEW w \in Items
    PROVE  <<w>> \o Tail(t) \in Seq(Items) /\ Put1(Stack(t), Stack(<<w>> \o Tail(t)), w)
<1> DEFINE u == <<w>>
<1>1. u \in Seq(Items) /\ Len(u) = 1 /\ u[1] = w
  OBVIOUS
<1> HIDE DEF u
<1> DEFINE s1 == Stack(u \o Tail(t))
<1>2. u \o Tail(t) \in Seq(Items) /\ Len(s1) = Len(t) - 1 + Len(u) /\ Kept1(Stack(t), s1)
      /\ \A i \in 1 .. Len(u) : s1[Len(t) - 1 + i] = u[Len(u) + 1 - i]
  BY <1>1, Restack
<1>3. Len(Stack(t)) = Len(t) /\ Len(t) \in Nat
  BY Stacks
<1> HIDE DEF s1
<1>4. s1[Len(t) - 1 + 1] = u[Len(u) + 1 - 1]
  BY <1>1, <1>2
<1> QED
  BY <1>1, <1>2, <1>3, <1>4 DEF Put1, u, s1

LEMMA PutTwo ==
    ASSUME NEW t \in Seq(Items), t # <<>>, NEW w \in Items, NEW x \in Items
    PROVE  <<x, w>> \o Tail(t) \in Seq(Items) /\ Put2(Stack(t), Stack(<<x, w>> \o Tail(t)), w, x)
<1> DEFINE u == <<x, w>>
<1>1. u \in Seq(Items) /\ Len(u) = 2 /\ u[2] = w /\ u[1] = x
  OBVIOUS
<1> HIDE DEF u
<1> DEFINE s1 == Stack(u \o Tail(t))
<1>2. u \o Tail(t) \in Seq(Items) /\ Len(s1) = Len(t) - 1 + Len(u) /\ Kept1(Stack(t), s1)
      /\ \A i \in 1 .. Len(u) : s1[Len(t) - 1 + i] = u[Len(u) + 1 - i]
  BY <1>1, Restack
<1>3. Len(Stack(t)) = Len(t) /\ Len(t) \in Nat
  BY Stacks
<1> HIDE DEF s1
<1>4. s1[Len(t) - 1 + 1] = u[Len(u) + 1 - 1]
  BY <1>1, <1>2
<1>5. s1[Len(t) - 1 + 2] = u[Len(u) + 1 - 2]
  BY <1>1, <1>2
<1> QED
  BY <1>1, <1>2, <1>3, <1>4, <1>5 DEF Put2, u, s1

LEMMA PutThree ==
    ASSUME NEW t \in Seq(Items), t # <<>>, NEW w \in Items, NEW x \in Items, NEW y \in Items
    PROVE  <<y, x, w>> \o Tail(t) \in Seq(Items) /\ Put3(Stack(t), Stack(<<y, x, w>> \o Tail(t)), w, x, y)
<1> DEFINE u == <<y, x, w>>
<1>1. u \in Seq(Items) /\ Len(u) = 3 /\ u[3] = w /\ u[2] = x /\ u[1] = y
  OBVIOUS
<1> HIDE DEF u
<1> DEFINE s1 == Stack(u \o Tail(t))
<1>2. u \o Tail(t) \in Seq(Items) /\ Len(s1) = Len(t) - 1 + Len(u) /\ Kept1(Stack(t), s1)
      /\ \A i \in 1 .. Len(u) : s1[Len(t) - 1 + i] = u[Len(u) + 1 - i]
  BY <1>1, Restack
<1>3. Len(Stack(t)) = Len(t) /\ Len(t) \in Nat
  BY Stacks
<1> HIDE DEF s1
<1>4. s1[Len(t) - 1 + 1] = u[Len(u) + 1 - 1]
  BY <1>1, <1>2
<1>5. s1[Len(t) - 1 + 2] = u[Len(u) + 1 - 2]
  BY <1>1, <1>2
<1>6. s1[Len(t) - 1 + 3] = u[Len(u) + 1 - 3]
  BY <1>1, <1>2
<1> QED
  BY <1>1, <1>2, <1>3, <1>4, <1>5, <1>6 DEF Put3, u, s1

LEMMA PutFour ==
    ASSUME NEW t \in Seq(Items), t # <<>>, NEW w \in Items, NEW x \in Items, NEW y \in Items, NEW z \in Items
    PROVE  <<z, y, x, w>> \o Tail(t) \in Seq(Items) /\ Put4(Stack(t), Stack(<<z, y, x, w>> \o Tail(t)), w, x, y, z)
<1> DEFINE u == <<z, y, x, w>>
<1>1. u \in Seq(Items) /\ Len(u) = 4 /\ u[4] = w /\ u[3] = x /\ u[2] = y /\ u[1] = z
  OBVIOUS
<1> HIDE DEF u
<1> DEFINE s1 == Stack(u \o Tail(t))
<1>2. u \o Tail(t) \in Seq(Items) /\ Len(s1) = Len(t) - 1 + Len(u) /\ Kept1(Stack(t), s1)
      /\ \A i \in 1 .. Len(u) : s1[Len(t) - 1 + i] = u[Len(u) + 1 - i]
  BY <1>1, Restack
<1>3. Len(Stack(t)) = Len(t) /\ Len(t) \in Nat
  BY Stacks
<1> HIDE DEF s1
<1>4. s1[Len(t) - 1 + 1] = u[Len(u) + 1 - 1]
  BY <1>1, <1>2
<1>5. s1[Len(t) - 1 + 2] = u[Len(u) + 1 - 2]
  BY <1>1, <1>2
<1>6. s1[Len(t) - 1 + 3] = u[Len(u) + 1 - 3]
  BY <1>1, <1>2
<1>7. s1[Len(t) - 1 + 4] = u[Len(u) + 1 - 4]
  BY <1>1, <1>2
<1> QED
  BY <1>1, <1>2, <1>3, <1>4, <1>5, <1>6, <1>7 DEF Put4, u, s1

\* The new items are of the kinds in S.
Fresh(s, s1, S) ==
    /\ Len(s) \in Nat \ {0} /\ Len(s1) \in Nat /\ Len(s1) >= Len(s) - 1 /\ Kept1(s, s1)
    /\ \A h \in Len(s) .. Len(s1) : D(s1, h) \in S

LEMMA FreshPops ==
    ASSUME NEW s, NEW s1, Len(s) \in Nat \ {0}, Pop(s, s1)
    PROVE  Fresh(s, s1, {})
BY DEF Pop, Fresh

LEMMA FreshOne ==
    ASSUME NEW s, NEW s1, NEW w, Len(s) \in Nat \ {0}, Put1(s, s1, w)
    PROVE  Fresh(s, s1, {w.do})
BY DEF Put1, Fresh, D

LEMMA FreshTwo ==
    ASSUME NEW s, NEW s1, NEW w, NEW x, Len(s) \in Nat \ {0}, Put2(s, s1, w, x)
    PROVE  Fresh(s, s1, {w.do, x.do})
<1>1. \A h \in Len(s) .. Len(s1) : h = Len(s) \/ h = Len(s) + 1
  BY DEF Put2
<1> QED
  BY <1>1 DEF Put2, Fresh, D

LEMMA FreshThree ==
    ASSUME NEW s, NEW s1, NEW w, NEW x, NEW y, Len(s) \in Nat \ {0}, Put3(s, s1, w, x, y)
    PROVE  Fresh(s, s1, {w.do, x.do, y.do})
<1>1. \A h \in Len(s) .. Len(s1) : h = Len(s) \/ h = Len(s) + 1 \/ h = Len(s) + 2
  BY DEF Put3
<1> QED
  BY <1>1 DEF Put3, Fresh, D

LEMMA FreshFour ==
    ASSUME NEW s, NEW s1, NEW w, NEW x, NEW y, NEW z, Len(s) \in Nat \ {0}, Put4(s, s1, w, x, y, z)
    PROVE  Fresh(s, s1, {w.do, x.do, y.do, z.do})
<1>1. \A h \in Len(s) .. Len(s1) : h = Len(s) \/ h = Len(s) + 1 \/ h = Len(s) + 2 \/ h = Len(s) + 3
  BY DEF Put4
<1> QED
  BY <1>1 DEF Put4, Fresh, D

-----------------------------------------------------------------------------
(***************************************************************************)
(* What the parts of the invariant need of a step.                         *)
(***************************************************************************)

\* An item is old, or one of the new.
LEMMA OldOrNew ==
    ASSUME NEW s, NEW s1, NEW S, Fresh(s, s1, S)
    PROVE  /\ Len(s) \in Nat /\ Len(s) > 0 /\ Len(s1) \in Nat /\ Len(s1) >= Len(s) - 1
           /\ \A h \in 1 .. Len(s1) : \/ h < Len(s) /\ h \in 1 .. Len(s) /\ s1[h] = s[h] /\ D(s1, h) = D(s, h)
                                      \/ h >= Len(s) /\ D(s1, h) \in S
           /\ \A h \in 1 .. Len(s) : h < Len(s) => h \in 1 .. Len(s1) /\ s1[h] = s[h] /\ D(s1, h) = D(s, h)
BY DEF Fresh, Kept1, D

LEMMA TracedLastKept ==
    ASSUME NEW s, NEW s1, NEW S, Fresh(s, s1, S), "traced" \notin S, TracedLast(s)
    PROVE  TracedLast(s1)
BY OldOrNew DEF TracedLast

LEMMA PopSheltered ==
    ASSUME NEW s, NEW s1, NEW m, Fresh(s, s1, {}), Sheltered(s, m)
    PROVE  Sheltered(s1, m)
<1> SUFFICES ASSUME NEW h \in 1 .. Len(s1), NEW k \in 1 .. Len(s1), h < k, D(s1, h) \in Kept
             PROVE  D(s1, k) \in Closes \/ (D(s1, k) = "manager" /\ m # "none") \/ EndBetween(s1, h, k)
  BY DEF Sheltered
<1>1. h \in 1 .. Len(s) /\ k \in 1 .. Len(s) /\ k < Len(s) /\ D(s1, h) = D(s, h) /\ D(s1, k) = D(s, k)
  BY OldOrNew
<1>2. D(s, k) \in Closes \/ (D(s, k) = "manager" /\ m # "none") \/ EndBetween(s, h, k)
  BY <1>1 DEF Sheltered
<1>3. EndBetween(s, h, k) => EndBetween(s1, h, k)
  BY <1>1, OldOrNew DEF EndBetween
<1> QED
  BY <1>1, <1>2, <1>3

\* Above what closes there is a destructor, and it stays there.
LEMMA PushSheltered ==
    ASSUME NEW s, NEW s1, NEW S, NEW m, NEW m1, Fresh(s, s1, S), Sheltered(s, m), m # "none" => m1 # "none",
           Top(s) \notin Closes \cup {"manager", "end"}, S \cap Kept = {}
    PROVE  Sheltered(s1, m1)
<1> USE OldOrNew DEF EndBetween
<1> SUFFICES ASSUME NEW h \in 1 .. Len(s1), NEW k \in 1 .. Len(s1), h < k, D(s1, h) \in Kept
             PROVE  D(s1, k) \in Closes \/ (D(s1, k) = "manager" /\ m1 # "none") \/ EndBetween(s1, h, k)
  BY DEF Sheltered
<1>1. h < Len(s) /\ D(s, h) \in Kept
  OBVIOUS
<1>2. CASE k < Len(s)
  BY <1>1, <1>2 DEF Sheltered
<1>3. CASE k >= Len(s)
  <2>1. EndBetween(s, h, Len(s))
    BY <1>1 DEF Sheltered, Top
  <2>2. PICK e \in 1 .. Len(s) : h < e /\ D(s, e) = "end"
    BY <2>1
  <2>3. e # Len(s)
    BY <2>2 DEF Top
  <2> QED
    BY <1>3, <2>2, <2>3
<1> QED
  BY <1>2, <1>3

LEMMA ShapeKept ==
    ASSUME NEW s, NEW s1, NEW S, Fresh(s, s1, S), Shape(s),
           "closeArray" \notin S, "closeRoot" \notin S, "end" \notin S
    PROVE  Shape(s1)
<1>1. Len(s) \in Nat /\ Len(s) > 0 /\ Len(s1) \in Nat /\ Len(s1) >= Len(s) - 1
  BY OldOrNew
<1>2. /\ \A h \in 1 .. Len(s1) : \/ h < Len(s) /\ h \in 1 .. Len(s) /\ s1[h] = s[h] /\ D(s1, h) = D(s, h)
                                 \/ h >= Len(s) /\ D(s1, h) \in S
      /\ \A h \in 1 .. Len(s) : h < Len(s) => h \in 1 .. Len(s1) /\ s1[h] = s[h] /\ D(s1, h) = D(s, h)
  BY OldOrNew
<1>3. ASSUME NEW h \in 1 .. Len(s1), D(s1, h) \in {"closeArray", "closeRoot", "end"}
      PROVE  h \in 1 .. Len(s) /\ s1[h] = s[h] /\ D(s1, h) = D(s, h) /\ \A x : Below(s, h, x) => Below(s1, h, x)
  <2>1. h \in 1 .. Len(s) /\ s1[h] = s[h] /\ D(s1, h) = D(s, h)
    BY <1>3, <1>2
  <2>2. h \in Nat /\ h <= Len(s)
    BY <2>1, <1>1
  <2>3. h > 1 => h - 1 \in 1 .. Len(s) /\ h - 1 < Len(s)
    BY ONLY <2>2, <1>1
  <2>4. h > 1 => D(s1, h - 1) = D(s, h - 1)
    BY <2>3, <1>2
  <2> QED
    BY <2>1, <2>4 DEF Below
<1> QED
  BY <1>3 DEF Shape

LEMMA AsksKept ==
    ASSUME NEW s, NEW s1, NEW S, Fresh(s, s1, S), Asks(s), "has" \notin S
    PROVE  Asks(s1)
<1>1. Len(s) \in Nat /\ Len(s) > 0 /\ Len(s1) \in Nat /\ Len(s1) >= Len(s) - 1
  BY OldOrNew
<1>2. /\ \A h \in 1 .. Len(s1) : \/ h < Len(s) /\ h \in 1 .. Len(s) /\ s1[h] = s[h] /\ D(s1, h) = D(s, h)
                                 \/ h >= Len(s) /\ D(s1, h) \in S
      /\ \A h \in 1 .. Len(s) : h < Len(s) => h \in 1 .. Len(s1) /\ s1[h] = s[h] /\ D(s1, h) = D(s, h)
  BY OldOrNew
<1>3. ASSUME NEW h \in 1 .. Len(s1), NEW k \in 1 .. Len(s1), h < k, D(s1, h) = "closeStream", D(s1, k) = "has"
      PROVE  \E a \in 1 .. Len(s1) : a < k /\ D(s1, a) = "asserted"
  <2>1. k < Len(s) /\ k \in 1 .. Len(s) /\ D(s, k) = "has"
    BY <1>3, <1>2
  <2>2. h < Len(s)
    BY <1>3, <2>1, <1>1
  <2>3. h \in 1 .. Len(s) /\ D(s, h) = "closeStream"
    BY <2>2, <1>3, <2>1, <1>2, <1>1
  <2>4. PICK a \in 1 .. Len(s) : a < k /\ D(s, a) = "asserted"
    BY <1>3, <2>1, <2>3 DEF Asks
  <2>5. a < Len(s)
    BY <2>1, <2>4, <1>2
  <2>6. a \in 1 .. Len(s1) /\ D(s1, a) = "asserted"
    BY <2>4, <2>5, <1>2
  <2> QED
    BY <2>4, <2>6
<1> QED
  BY <1>3 DEF Asks

LEMMA MakingKept ==
    ASSUME NEW s, NEW s1, NEW S, Fresh(s, s1, S), Making(s), S \cap Makes = {}
    PROVE  Making(s1)
<1>1. \A h \in 1 .. Len(s1) : D(s1, h) \in Makes => h < Len(s) /\ D(s, h) \in Makes
  BY OldOrNew
<1> QED
  BY <1>1, OldOrNew DEF Making

LEMMA ReportsKept ==
    ASSUME NEW s, NEW s1, NEW S, NEW up, Fresh(s, s1, S), Reports(s, up),
           Top(s) \notin {"asserted", "abort"}, S \cap {"asserted", "abort"} = {}
    PROVE  Reports(s1, up)
<1>1. \A h \in 1 .. Len(s1) : D(s1, h) \in {"asserted", "abort"} => h < Len(s) /\ D(s1, h) = D(s, h)
  BY OldOrNew
<1>2. ASSUME NEW h \in 1 .. Len(s), D(s, h) \in {"asserted", "abort"} PROVE h \in 1 .. Len(s1) /\ D(s1, h) = D(s, h)
  BY <1>2, OldOrNew DEF Top
<1>3. Len(s) \in Nat /\ Len(s1) \in Nat
  BY OldOrNew
<1>4. up => \E h \in 1 .. Len(s1) : D(s1, h) \in {"asserted", "abort"}
  BY <1>2 DEF Reports
<1> QED
  BY <1>1, <1>3, <1>4 DEF Reports

LEMMA RemainingKept ==
    ASSUME NEW s, NEW s1, NEW S, NEW p, Fresh(s, s1, S), Remaining(s, p),
           Top(s) \notin Closes, S \cap Kept = {}
    PROVE  Remaining(s1, p)
<1>1. \A h \in 1 .. Len(s1) : D(s1, h) \in Kept => h < Len(s) /\ D(s1, h) = D(s, h)
  BY OldOrNew
<1>2. ASSUME NEW h \in 1 .. Len(s1), NEW x \in Closes, h < Len(s), Above(s, h, x) PROVE Above(s1, h, x)
  BY <1>2, OldOrNew DEF Top, Above
<1>3. ASSUME NEW h \in 1 .. Len(s1), D(s1, h) \in Kept
      PROVE  /\ D(s1, h) = "abort" /\ p # {} => Above(s1, h, "closeStream")
             /\ D(s1, h) = "closeStream" /\ p \cap {"root", "array"} # {} => Above(s1, h, "closeRoot")
             /\ D(s1, h) = "closeRoot" /\ "array" \in p => Above(s1, h, "closeArray")
  BY <1>1, <1>2, <1>3, OldOrNew DEF Remaining, Closes
<1> QED
  BY <1>3 DEF Remaining, Kept, Closes

LEMMA TornKept ==
    ASSUME NEW s, NEW s1, NEW S, NEW p, Fresh(s, s1, S), Torn(s, p), Top(s) # "closeStream"
    PROVE  Torn(s1, p)
<1>1. Len(s) \in Nat /\ Len(s) > 0 /\ Len(s1) \in Nat /\ Len(s1) >= Len(s) - 1
  BY OldOrNew
<1>2. /\ \A h \in 1 .. Len(s1) : \/ h < Len(s) /\ h \in 1 .. Len(s) /\ s1[h] = s[h] /\ D(s1, h) = D(s, h)
                                 \/ h >= Len(s) /\ D(s1, h) \in S
      /\ \A h \in 1 .. Len(s) : h < Len(s) => h \in 1 .. Len(s1) /\ s1[h] = s[h] /\ D(s1, h) = D(s, h)
  BY OldOrNew
<1>3. ASSUME NEW h \in 1 .. Len(s), D(s, h) = "closeStream" PROVE h \in 1 .. Len(s1) /\ D(s1, h) = "closeStream"
  <2>1. h # Len(s)
    BY <1>3 DEF Top
  <2>2. h < Len(s)
    BY <2>1, <1>1
  <2> QED
    BY <1>3, <2>1, <1>2, <1>1
<1> QED
  BY <1>3 DEF Torn

LEMMA PopTold ==
    ASSUME NEW s, NEW s1, NEW x, NEW x1, NEW log, Fresh(s, s1, {}), Told(s, x, log),
           Top(s) \notin {"has", "write", "entry"} \/ x1 \/ WhyLogged(log)
    PROVE  Told(s1, x1, log)
<1> SUFFICES ASSUME NEW h \in 1 .. Len(s1)
             PROVE  /\ D(s1, h) \in {"asserted", "traced"} =>
                         IF h = Len(s1) THEN x1 \/ WhyLogged(log)
                         ELSE \/ D(s1, h + 1) \in {"has", "write"} /\ s1[h + 1].msg \in Why
                              \/ D(s1, h + 1) = "entry" /\ WhyLogged(log)
                    /\ D(s1, h) = "abort" => WhyLogged(log)
  BY DEF Told
<1>1. Len(s1) = Len(s) - 1 /\ h < Len(s) /\ h \in 1 .. Len(s) /\ D(s1, h) = D(s, h)
  BY OldOrNew
<1>2. CASE h = Len(s1)
  BY <1>1, <1>2, OldOrNew DEF Told, Top
<1>3. CASE h # Len(s1)
  <2>1. s1[h + 1] = s[h + 1] /\ D(s1, h + 1) = D(s, h + 1)
    BY <1>1, <1>3, OldOrNew
  <2> QED
    BY <1>1, <1>3, <2>1 DEF Told
<1> QED
  BY <1>2, <1>3

LEMMA OrderlyPop ==
    ASSUME NEW s, NEW s1, Fresh(s, s1, {}), Orderly(s)
    PROVE  Orderly(s1)
BY OldOrNew DEF Orderly

\* Items are put over the others: nothing goes.
Grown(s, s1, S) ==
    /\ Len(s) \in Nat /\ Len(s1) \in Nat /\ Len(s1) >= Len(s)
    /\ \A h \in 1 .. Len(s) : s1[h] = s[h] /\ D(s1, h) = D(s, h)
    /\ \A h \in 1 .. Len(s1) : h > Len(s) => D(s1, h) \in S

LEMMA Overstack ==
    ASSUME NEW t \in Seq(Items), NEW w \in Items, NEW x \in Items
    PROVE  <<x, w>> \o t \in Seq(Items) /\ Grown(Stack(t), Stack(<<x, w>> \o t), {w.do, x.do})
<1> DEFINE v == <<x, w>> \o t
<1>1. v \in Seq(Items) /\ Len(v) = Len(t) + 2 /\ Len(t) \in Nat
  OBVIOUS
<1>2. v[1] = x /\ v[2] = w /\ \A i \in 1 .. Len(v) : i > 2 => v[i] = t[i - 2]
  OBVIOUS
<1> HIDE DEF v
<1>3. Len(Stack(v)) = Len(v) /\ Len(Stack(t)) = Len(t)
  BY <1>1, Stacks
<1>4. \A h \in 1 .. Len(v) : Stack(v)[h] = v[Len(v) + 1 - h]
  BY <1>1 DEF Stack
<1>5. \A h \in 1 .. Len(t) : Stack(t)[h] = t[Len(t) + 1 - h]
  BY DEF Stack
<1>6. ASSUME NEW h \in 1 .. Len(t) PROVE Stack(v)[h] = Stack(t)[h]
  <2>1. h \in 1 .. Len(v) /\ Len(v) + 1 - h \in 1 .. Len(v) /\ Len(v) + 1 - h > 2 /\ (Len(v) + 1 - h) - 2 = Len(t) + 1 - h
    BY <1>1
  <2> QED
    BY <1>2, <1>4, <1>5, <2>1
<1>7. Stack(v)[Len(t) + 1] = w /\ Stack(v)[Len(t) + 2] = x
  <2>1. Len(t) + 1 \in 1 .. Len(v) /\ Len(v) + 1 - (Len(t) + 1) = 2 /\ Len(t) + 2 \in 1 .. Len(v) /\ Len(v) + 1 - (Len(t) + 2) = 1
    BY <1>1
  <2> QED
    BY <1>2, <1>4, <2>1
<1>8. \A h \in 1 .. Len(v) : h > Len(t) => h = Len(t) + 1 \/ h = Len(t) + 2
  BY <1>1
<1>9. Grown(Stack(t), Stack(v), {w.do, x.do})
  BY <1>1, <1>3, <1>6, <1>7, <1>8 DEF Grown, D
<1> QED
  BY <1>1, <1>9 DEF v

\* An assertion fails before what is to be done.
LEMMA GrownKeeps ==
    ASSUME NEW s, NEW s1, NEW m, NEW up, NEW p, NEW log, Len(s) > 0,
           Grown(s, s1, {"assert", "manager"}), Top(s) \in {"create", "entry", "end"},
           Structure(s, m), Reports(s, up), Remaining(s, p), Torn(s, p), Told(s, FALSE, log)
    PROVE  Structure(s1, m) /\ Reports(s1, up) /\ Remaining(s1, p) /\ Torn(s1, p) /\ Told(s1, FALSE, log)
<1>1. Len(s) \in Nat /\ Len(s) > 0 /\ Len(s1) \in Nat /\ Len(s1) >= Len(s)
  BY DEF Grown
<1>2. \A h \in 1 .. Len(s1) : \/ h \in 1 .. Len(s) /\ s1[h] = s[h] /\ D(s1, h) = D(s, h)
                              \/ h > Len(s) /\ D(s1, h) \in {"assert", "manager"}
  BY <1>1 DEF Grown
<1>3. \A h \in 1 .. Len(s) : h \in 1 .. Len(s1) /\ s1[h] = s[h] /\ D(s1, h) = D(s, h)
  BY <1>1 DEF Grown
<1>4. TracedLast(s1)
  BY <1>2 DEF Structure, TracedLast
<1>5. Sheltered(s1, m)
  <2> SUFFICES ASSUME NEW h \in 1 .. Len(s1), NEW k \in 1 .. Len(s1), h < k, D(s1, h) \in Kept
               PROVE  D(s1, k) \in Closes \/ (D(s1, k) = "manager" /\ m # "none") \/ EndBetween(s1, h, k)
    BY DEF Sheltered
  <2>1. h \in 1 .. Len(s) /\ D(s, h) \in Kept
    BY <1>2 DEF Kept, Closes
  <2>2. CASE k <= Len(s)
    BY <1>1, <1>3, <2>1, <2>2 DEF Structure, Sheltered, EndBetween
  <2>3. CASE k > Len(s)
    <3>1. h # Len(s)
      BY <2>1 DEF Top, Kept, Closes
    <3>2. EndBetween(s, h, Len(s))
      BY <1>1, <2>1, <3>1 DEF Structure, Sheltered, Top, Closes
    <3> QED
      BY <1>1, <1>3, <2>3, <3>2 DEF EndBetween
  <2> QED
    BY <1>1, <2>2, <2>3
<1>6. Making(s1)
  BY <1>1, <1>2 DEF Structure, Making, Makes
<1>7. Shape(s1)
  <2>1. ASSUME NEW h \in 1 .. Len(s1), D(s1, h) \in {"closeArray", "closeRoot", "end"}
        PROVE  h \in 1 .. Len(s) /\ s1[h] = s[h] /\ D(s1, h) = D(s, h) /\ \A x : Below(s, h, x) => Below(s1, h, x)
    BY <1>1, <1>2, <1>3, <2>1 DEF Below
  <2> QED
    BY <2>1 DEF Structure, Shape
<1>8. Asks(s1)
  BY <1>1, <1>2, <1>3 DEF Structure, Asks
<1>9. Reports(s1, up)
  BY <1>1, <1>2, <1>3 DEF Reports
<1>10. Remaining(s1, p)
  <2>1. ASSUME NEW h \in 1 .. Len(s1), D(s1, h) \in Kept
        PROVE  h \in 1 .. Len(s) /\ D(s1, h) = D(s, h) /\ \A x : Above(s, h, x) => Above(s1, h, x)
    BY <1>1, <1>2, <1>3, <2>1 DEF Above, Kept, Closes
  <2> QED
    BY <2>1 DEF Remaining, Kept, Closes
<1>11. Torn(s1, p)
  BY <1>3 DEF Torn
<1>12. Told(s1, FALSE, log)
  <2>1. ASSUME NEW h \in 1 .. Len(s1), D(s1, h) \in {"asserted", "traced", "abort"}
        PROVE  h \in 1 .. Len(s) /\ h < Len(s) /\ h # Len(s1) /\ D(s1, h) = D(s, h) /\ s1[h + 1] = s[h + 1] /\ D(s1, h + 1) = D(s, h + 1)
    <3>1. h \in 1 .. Len(s) /\ D(s1, h) = D(s, h)
      BY <1>2, <2>1
    <3>2. h # Len(s)
      BY <2>1, <3>1 DEF Top
    <3> QED
      BY <1>1, <1>3, <3>1, <3>2
  <2> QED
    BY <2>1 DEF Told
<1> QED
  BY <1>4, <1>5, <1>6, <1>7, <1>8, <1>9, <1>10, <1>11, <1>12 DEF Structure

\* The manager is made.
LEMMA MakeOne ==
    ASSUME NEW s, NEW s1, NEW w, Len(s) \in Nat \ {0}, Put1(s, s1, w), w.do = "create",
           \A h \in 1 .. Len(s) : h < Len(s) => D(s, h) \in {"has", "assert", "traced"}
    PROVE  Making(s1)
<1>1. \A h \in 1 .. Len(s1) : \/ h < Len(s) /\ D(s1, h) \in {"has", "assert", "traced"}
                              \/ h = Len(s) /\ D(s1, h) = "create"
  BY DEF Put1, Kept1, D
<1>2. Len(s1) = Len(s)
  BY DEF Put1
<1> QED
  BY <1>1, <1>2 DEF Making, Makes

\* Its file is made.
LEMMA MadeOne ==
    ASSUME NEW s, NEW s1, NEW w, NEW x, NEW y, Len(s) \in Nat \ {0}, Put3(s, s1, w, x, y), Making(s),
           Top(s) \in Makes, w.do = "created", x.do = "has", y.do = "manager"
    PROVE  Making(s1)
<1>1. \A h \in 1 .. Len(s1) : \/ h < Len(s) /\ h \in 1 .. Len(s) /\ D(s1, h) = D(s, h)
                              \/ h = Len(s) /\ D(s1, h) = "created"
                              \/ h > Len(s) /\ D(s1, h) \in {"has", "manager"}
  BY DEF Put3, Kept1, D
<1>2. Len(s1) = Len(s) + 2
  BY DEF Put3
<1>3. \A h \in 1 .. Len(s) : h < Len(s) => D(s, h) \in {"has", "assert", "traced"}
  BY DEF Making, Top
<1> QED
  BY <1>1, <1>2, <1>3 DEF Making, Makes

\* What the making logs is not logged while the file is closed.
LEMMA AsksMade ==
    ASSUME NEW s, NEW s1, NEW S, Fresh(s, s1, S), Making(s), Asks(s), Top(s) \in Makes, "closeStream" \notin S
    PROVE  Asks(s1)
<1>1. ASSUME NEW h \in 1 .. Len(s1), D(s1, h) = "closeStream" PROVE FALSE
  <2>1. h \in 1 .. Len(s) /\ h < Len(s) /\ D(s, h) = "closeStream"
    BY <1>1, OldOrNew
  <2> QED
    BY <2>1, OldOrNew DEF Making, Top
<1> QED
  BY <1>1 DEF Asks

\* A report begins.
LEMMA ReportBegins ==
    ASSUME NEW s, NEW s1, NEW w, NEW x, NEW y, Len(s) \in Nat \ {0}, Put3(s, s1, w, x, y),
           Reports(s, FALSE), w.do = "asserted", x.do = "has", y.do = "manager"
    PROVE  Reports(s1, TRUE)
<1>1. \A h \in 1 .. Len(s1) : \/ h < Len(s) /\ D(s1, h) = D(s, h) /\ h \in 1 .. Len(s)
                              \/ h = Len(s) /\ D(s1, h) = "asserted"
                              \/ h > Len(s) /\ D(s1, h) \in {"has", "manager"}
  BY DEF Put3, Kept1, D
<1>2. Len(s1) = Len(s) + 2 /\ Len(s) \in 1 .. Len(s1) /\ D(s1, Len(s)) = "asserted"
  BY DEF Put3, D
<1>3. \A h \in 1 .. Len(s) : D(s, h) # "asserted"
  BY DEF Reports
<1> QED
  BY <1>1, <1>2, <1>3 DEF Reports

LEMMA AsksReport ==
    ASSUME NEW s, NEW s1, NEW w, NEW x, NEW y, Len(s) \in Nat \ {0}, Put3(s, s1, w, x, y),
           Asks(s), w.do = "asserted", x.do = "has", y.do = "manager"
    PROVE  Asks(s1)
<1>1. \A h \in 1 .. Len(s1) : \/ h < Len(s) /\ D(s1, h) = D(s, h) /\ h \in 1 .. Len(s)
                              \/ h = Len(s) /\ D(s1, h) = "asserted"
                              \/ h > Len(s) /\ D(s1, h) \in {"has", "manager"}
  BY DEF Put3, Kept1, D
<1>2. Len(s1) = Len(s) + 2 /\ Len(s) \in 1 .. Len(s1) /\ D(s1, Len(s)) = "asserted"
  BY DEF Put3, D
<1>3. \A h \in 1 .. Len(s) : h < Len(s) => h \in 1 .. Len(s1) /\ D(s1, h) = D(s, h)
  BY <1>2 DEF Put3, Kept1, D
<1> SUFFICES ASSUME NEW h \in 1 .. Len(s1), NEW k \in 1 .. Len(s1), h < k, D(s1, h) = "closeStream", D(s1, k) = "has"
             PROVE  \E a \in 1 .. Len(s1) : a < k /\ D(s1, a) = "asserted"
  BY DEF Asks
<1>4. CASE k > Len(s)
  BY <1>2, <1>4
<1>5. CASE k <= Len(s)
  <2>1. k < Len(s) /\ k \in 1 .. Len(s) /\ D(s, k) = "has" /\ h \in 1 .. Len(s) /\ D(s, h) = "closeStream"
    BY <1>1, <1>2, <1>5
  <2>2. PICK a \in 1 .. Len(s) : a < k /\ D(s, a) = "asserted"
    BY <2>1 DEF Asks
  <2> QED
    BY <1>3, <2>1, <2>2
<1> QED
  BY <1>2, <1>4, <1>5

\* A report ends.
LEMMA ReportEnds ==
    ASSUME NEW s, NEW s1, NEW up, Fresh(s, s1, {}), Reports(s, up), Top(s) = "asserted"
    PROVE  Reports(s1, FALSE)
<1>1. ASSUME NEW h \in 1 .. Len(s1) PROVE D(s1, h) # "asserted"
  <2>1. h \in 1 .. Len(s) /\ h < Len(s) /\ D(s1, h) = D(s, h)
    BY OldOrNew
  <2>2. Len(s) \in 1 .. Len(s) /\ h # Len(s)
    BY <2>1, OldOrNew
  <2> QED
    BY <2>1, <2>2 DEF Reports, Top
<1> QED
  BY <1>1 DEF Reports

\* What has no part in the order of things.
LEMMA PartEnds ==
    ASSUME NEW s, NEW s1, NEW w, NEW m, Len(s) \in Nat \ {0}, Put1(s, s1, w), w.do = "end",
           \/ Top(s) = "closeArray" /\ w.part = "array"
           \/ Top(s) = "closeRoot" /\ w.part = "root",
           Sheltered(s, m), Shape(s)
    PROVE  Sheltered(s1, m) /\ Shape(s1)
<1>1. /\ Len(s1) = Len(s) /\ s1[Len(s)] = w /\ D(s1, Len(s)) = "end" /\ Len(s) \in 1 .. Len(s)
      /\ \A h \in 1 .. Len(s) : h < Len(s) => s1[h] = s[h] /\ D(s1, h) = D(s, h)
  BY DEF Put1, Kept1, D
<1>2. Sheltered(s1, m)
  <2> SUFFICES ASSUME NEW h \in 1 .. Len(s), NEW k \in 1 .. Len(s), h < k, D(s1, h) \in Kept
               PROVE  D(s1, k) \in Closes \/ (D(s1, k) = "manager" /\ m # "none") \/ EndBetween(s1, h, k)
    BY <1>1 DEF Sheltered
  <2>1. CASE k = Len(s)
    BY <1>1, <2>1 DEF EndBetween
  <2>2. CASE k < Len(s)
    <3>1. D(s, k) \in Closes \/ (D(s, k) = "manager" /\ m # "none") \/ EndBetween(s, h, k)
      BY <1>1, <2>2 DEF Sheltered
    <3> QED
      BY <1>1, <2>2, <3>1 DEF EndBetween
  <2> QED
    BY <2>1, <2>2
<1>3. ASSUME NEW h \in 1 .. Len(s), NEW x, Below(s, h, x) PROVE Below(s1, h, x)
  <2>1. h > 1 /\ h - 1 \in 1 .. Len(s) /\ h - 1 < Len(s)
    BY <1>3 DEF Below
  <2> QED
    BY <1>1, <1>3, <2>1 DEF Below
<1>4. ASSUME NEW h \in 1 .. Len(s)
      PROVE  /\ D(s1, h) = "closeArray" \/ (D(s1, h) = "end" /\ s1[h].part = "array") => Below(s1, h, "closeRoot")
             /\ D(s1, h) = "closeRoot" \/ (D(s1, h) = "end" /\ s1[h].part = "root") => Below(s1, h, "closeStream")
  <2>1. CASE h = Len(s)
    BY <1>1, <1>3, <2>1 DEF Shape, Top
  <2>2. CASE h < Len(s)
    BY <1>1, <1>3, <2>2 DEF Shape
  <2> QED
    BY <2>1, <2>2
<1> QED
  BY <1>1, <1>2, <1>4 DEF Shape

\* A part goes.
Part(d) == CASE d = "closeArray" -> "array" [] d = "closeRoot" -> "root" [] OTHER -> "stream"
LEMMA PartGoes ==
    ASSUME NEW s, NEW s1, NEW S, NEW p \in SUBSET AllParts, Fresh(s, s1, S), S \subseteq {"end"}, Top(s) \in Closes,
           Remaining(s, p), Shape(s)
    PROVE  Remaining(s1, p \ {Part(Top(s))}) /\ Torn(s1, p \ {Part(Top(s))})
<1> DEFINE d == Part(Top(s))
           q == p \ {d}
<1>1. Len(s) \in Nat /\ Len(s) > 0 /\ Len(s1) \in Nat /\ Len(s1) >= Len(s) - 1 /\ Len(s) \in 1 .. Len(s)
  BY OldOrNew
<1>2. \A h \in 1 .. Len(s1) : D(s1, h) \in Kept => h \in 1 .. Len(s) /\ h < Len(s) /\ D(s1, h) = D(s, h)
  BY OldOrNew DEF Kept, Closes
<1>3. \A h \in 1 .. Len(s) : h < Len(s) => h \in 1 .. Len(s1) /\ D(s1, h) = D(s, h)
  BY OldOrNew
<1>4. ASSUME NEW h \in 1 .. Len(s), NEW x, x # Top(s), Above(s, h, x) PROVE Above(s1, h, x)
  BY <1>1, <1>3, <1>4 DEF Above, Top
<1>5. \A h \in 1 .. Len(s) : ~\E k \in 1 .. Len(s) : Len(s) < k
  BY <1>1
<1>6. /\ Top(s) = "closeStream" => p \cap {"root", "array"} = {}
      /\ Top(s) = "closeRoot" => "array" \notin p
  BY <1>1, <1>5 DEF Remaining, Top, Above
<1>7. /\ Top(s) = "closeArray" => q = p \ {"array"}
      /\ Top(s) = "closeRoot" => q = p \ {"root"}
      /\ Top(s) = "closeStream" => q = p \ {"stream"}
  BY DEF Part
<1>8. /\ Top(s) = "closeStream" => q = {}
      /\ Top(s) = "closeRoot" => q \cap {"root", "array"} = {}
      /\ "array" \in q => "array" \in p /\ Top(s) # "closeArray"
      /\ q # {} => p # {} /\ Top(s) # "closeStream"
      /\ q \cap {"root", "array"} # {} => p \cap {"root", "array"} # {}
  BY <1>6, <1>7 DEF AllParts, Closes
<1> HIDE DEF q, d
<1>9. Remaining(s1, q)
  <2>1. ASSUME NEW h \in 1 .. Len(s1), D(s1, h) \in Kept
        PROVE  /\ D(s1, h) = "abort" /\ q # {} => Above(s1, h, "closeStream")
               /\ D(s1, h) = "closeStream" /\ q \cap {"root", "array"} # {} => Above(s1, h, "closeRoot")
               /\ D(s1, h) = "closeRoot" /\ "array" \in q => Above(s1, h, "closeArray")
    BY <1>2, <1>4, <1>8, <2>1 DEF Remaining
  <2> QED
    BY <2>1 DEF Remaining, Kept, Closes
<1>10. Torn(s1, q)
  <2>1. ASSUME Top(s) \in {"closeArray", "closeRoot"} PROVE \E h \in 1 .. Len(s1) : D(s1, h) = "closeStream"
    <3>1. CASE Top(s) = "closeRoot"
      <4>1. Len(s) > 1 /\ D(s, Len(s) - 1) = "closeStream"
        BY <1>1, <3>1 DEF Shape, Top, Below
      <4> QED
        BY <1>1, <1>3, <4>1
    <3>2. CASE Top(s) = "closeArray"
      <4>1. Len(s) > 1 /\ D(s, Len(s) - 1) = "closeRoot"
        BY <1>1, <3>2 DEF Shape, Top, Below
      <4>2. Len(s) - 1 \in 1 .. Len(s)
        BY <1>1, <4>1
      <4>3. Len(s) - 1 > 1 /\ D(s, (Len(s) - 1) - 1) = "closeStream"
        BY <4>1, <4>2 DEF Shape, Below
      <4>4. (Len(s) - 1) - 1 \in 1 .. Len(s) /\ (Len(s) - 1) - 1 < Len(s)
        BY <1>1, <4>3
      <4> QED
        BY <1>3, <4>3, <4>4
    <3> QED
      BY <2>1, <3>1, <3>2
  <2>2. Top(s) \notin {"closeArray", "closeRoot"} => q = {}
    BY <1>8 DEF Closes
  <2> QED
    BY <2>1, <2>2 DEF Torn
<1> QED
  BY <1>9, <1>10 DEF q, d

\* The end of a report that aborts: the file is closed first.
LEMMA CloseAndAbort ==
    ASSUME NEW s, NEW s1, NEW w, NEW x, NEW y, NEW z, NEW m, NEW up, NEW p, NEW log,
           Len(s) \in Nat \ {0}, Put4(s, s1, w, x, y, z),
           w.do = "abort", x.do = "closeStream", y.do = "closeRoot", z.do = "closeArray",
           Top(s) \in {"asserted", "traced"}, Structure(s, m), Reports(s, up), Remaining(s, p), Torn(s, p),
           Told(s, FALSE, log), WhyLogged(log)
    PROVE  /\ Structure(s1, m) /\ Remaining(s1, p) /\ Torn(s1, p) /\ Told(s1, FALSE, log)
           /\ Reports(s1, IF Top(s) = "asserted" THEN TRUE ELSE up)
<1> DEFINE n == Len(s)
<1>1. /\ n \in Nat /\ n > 0 /\ Len(s1) = n + 3
      /\ s1[n] = w /\ D(s1, n) = "abort" /\ D(s1, n + 1) = "closeStream"
      /\ D(s1, n + 2) = "closeRoot" /\ D(s1, n + 3) = "closeArray"
  BY DEF Put4, D
<1>2. Fresh(s, s1, {"abort", "closeStream", "closeRoot", "closeArray"})
  BY FreshFour
<1>3. \A h \in 1 .. n : h < n => h \in 1 .. Len(s1) /\ s1[h] = s[h] /\ D(s1, h) = D(s, h)
  BY <1>2, OldOrNew
<1>4. \A h \in 1 .. Len(s1) : \/ h \in 1 .. n /\ h < n /\ s1[h] = s[h] /\ D(s1, h) = D(s, h)
                              \/ h = n \/ h = n + 1 \/ h = n + 2 \/ h = n + 3
  BY <1>1, <1>3
<1> HIDE DEF n
<1>5. TracedLast(s1) /\ Asks(s1) /\ Making(s1)
  BY <1>2, TracedLastKept, AsksKept, MakingKept DEF Structure, Makes
<1>6. Sheltered(s1, m)
  <2> SUFFICES ASSUME NEW h \in 1 .. Len(s1), NEW k \in 1 .. Len(s1), h < k, D(s1, h) \in Kept
               PROVE  D(s1, k) \in Closes \/ (D(s1, k) = "manager" /\ m # "none") \/ EndBetween(s1, h, k)
    BY DEF Sheltered
  <2>1. CASE k > n
    BY <1>1, <1>4, <2>1 DEF Closes
  <2>2. CASE k <= n
    <3>1. h < n /\ h \in 1 .. n /\ n \in 1 .. n /\ k \in 1 .. n /\ D(s, h) \in Kept /\ h < k
      BY <1>1, <1>4, <2>2
    <3>2. k < n => D(s1, k) = D(s, k)
      BY <1>3, <3>1
    <3>3. k = n => EndBetween(s, h, k)
      BY <3>1 DEF Structure, Sheltered, Top, Closes, n
    <3>4. k < n => D(s, k) \in Closes \/ (D(s, k) = "manager" /\ m # "none") \/ EndBetween(s, h, k)
      BY <3>1 DEF Structure, Sheltered, n
    <3>5. EndBetween(s, h, k) => EndBetween(s1, h, k)
      <4> SUFFICES ASSUME NEW e \in 1 .. n, h < e, e <= k, D(s, e) = "end" PROVE EndBetween(s1, h, k)
        BY DEF EndBetween, n
      <4>1. e # n
        BY DEF Top, n
      <4>2. e < n
        BY <1>1, <4>1
      <4> QED
        BY <1>3, <4>2 DEF EndBetween
    <3> QED
      BY <1>1, <2>2, <3>2, <3>3, <3>4, <3>5
  <2> QED
    BY <1>1, <2>1, <2>2
<1>7. Shape(s1)
  <2>1. ASSUME NEW h \in 1 .. n, h < n, NEW v, Below(s, h, v) PROVE Below(s1, h, v)
    <3>1. h > 1 /\ h - 1 \in 1 .. n /\ h - 1 < n
      BY <1>1, <2>1 DEF Below
    <3> QED
      BY <1>3, <2>1, <3>1 DEF Below
  <2>2. Below(s1, n + 2, "closeStream") /\ Below(s1, n + 3, "closeRoot")
    BY <1>1 DEF Below
  <2>3. ASSUME NEW h \in 1 .. Len(s1)
        PROVE  /\ D(s1, h) = "closeArray" \/ (D(s1, h) = "end" /\ s1[h].part = "array") => Below(s1, h, "closeRoot")
               /\ D(s1, h) = "closeRoot" \/ (D(s1, h) = "end" /\ s1[h].part = "root") => Below(s1, h, "closeStream")
    <3>1. CASE h \in 1 .. n /\ h < n /\ s1[h] = s[h] /\ D(s1, h) = D(s, h)
      BY <2>1, <3>1 DEF Structure, Shape, n
    <3>2. CASE h = n \/ h = n + 1 \/ h = n + 2 \/ h = n + 3
      BY <1>1, <2>2, <3>2
    <3> QED
      BY <1>4, <3>1, <3>2
  <2> QED
    BY <2>3 DEF Shape
<1>8. Remaining(s1, p)
  <2>1. /\ Above(s1, n, "closeStream") /\ Above(s1, n + 1, "closeRoot") /\ Above(s1, n + 2, "closeArray")
    <3>1. n + 1 \in 1 .. Len(s1) /\ n + 2 \in 1 .. Len(s1) /\ n + 3 \in 1 .. Len(s1) /\ n < n + 1 /\ n + 1 < n + 2 /\ n + 2 < n + 3
      BY <1>1
    <3> QED
      BY <1>1, <3>1 DEF Above
  <2>2. ASSUME NEW h \in 1 .. n, h < n, NEW v \in Closes, Above(s, h, v) PROVE Above(s1, h, v)
    <3>1. PICK k \in 1 .. n : h < k /\ D(s, k) = v
      BY <2>2 DEF Above, n
    <3>2. k # n
      BY <3>1 DEF Top, n, Closes
    <3>3. k < n
      BY <1>1, <3>1, <3>2
    <3> QED
      BY <1>3, <3>1, <3>3 DEF Above
  <2>3. ASSUME NEW h \in 1 .. Len(s1)
        PROVE  /\ D(s1, h) = "abort" /\ p # {} => Above(s1, h, "closeStream")
               /\ D(s1, h) = "closeStream" /\ p \cap {"root", "array"} # {} => Above(s1, h, "closeRoot")
               /\ D(s1, h) = "closeRoot" /\ "array" \in p => Above(s1, h, "closeArray")
    <3>1. CASE h \in 1 .. n /\ h < n /\ s1[h] = s[h] /\ D(s1, h) = D(s, h)
      BY <2>2, <3>1 DEF Remaining, n, Closes
    <3>2. CASE h = n \/ h = n + 1 \/ h = n + 2 \/ h = n + 3
      BY <1>1, <2>1, <3>2
    <3> QED
      BY <1>4, <3>1, <3>2
  <2> QED
    BY <2>3 DEF Remaining
<1>9. Torn(s1, p)
  BY <1>1 DEF Torn
<1>10. Told(s1, FALSE, log)
  <2>1. ASSUME NEW h \in 1 .. Len(s1), D(s1, h) \in {"asserted", "traced"}
        PROVE  h # Len(s1) /\ ((D(s1, h + 1) \in {"has", "write"} /\ s1[h + 1].msg \in Why) \/ (D(s1, h + 1) = "entry" /\ WhyLogged(log)))
    <3>1. h \in 1 .. n /\ h < n /\ D(s1, h) = D(s, h)
      BY <1>1, <1>4, <2>1
    <3>2. h # n /\ ((D(s, h + 1) \in {"has", "write"} /\ s[h + 1].msg \in Why) \/ (D(s, h + 1) = "entry" /\ WhyLogged(log)))
      BY <1>1, <2>1, <3>1 DEF Told, n
    <3>3. h + 1 # n
      BY <3>2 DEF Top, n
    <3>4. h + 1 \in 1 .. n /\ h + 1 < n
      BY <1>1, <3>1, <3>3
    <3> QED
      BY <1>1, <1>3, <3>1, <3>2, <3>4
  <2> QED
    BY <2>1 DEF Told
<1>11. Reports(s1, IF Top(s) = "asserted" THEN TRUE ELSE up)
  <2>1. n \in 1 .. Len(s1) /\ n \in 1 .. n
    BY <1>1
  <2>2. ASSUME NEW h \in 1 .. n, h < n PROVE D(s, h) # "asserted"
    <3>1. CASE Top(s) = "asserted"
      BY <1>1, <2>1, <2>2, <3>1 DEF Reports, Top, n
    <3>2. CASE Top(s) = "traced"
      <4>1. n = 1
        BY <1>1, <2>1, <3>2 DEF Structure, TracedLast, Top, n
      <4> QED
        BY <2>2, <4>1
    <3> QED
      BY <3>1, <3>2
  <2>3. \A h \in 1 .. Len(s1) : D(s1, h) # "asserted"
    BY <1>1, <1>4, <2>2
  <2> QED
    BY <1>1, <2>1, <2>3 DEF Reports
<1> QED
  BY <1>5, <1>6, <1>7, <1>8, <1>9, <1>10, <1>11 DEF Structure

\* What is logged stays logged.
LEMMA ToldMore ==
    ASSUME NEW s, NEW x, NEW log, NEW log1, WhyLogged(log) => WhyLogged(log1), Told(s, x, log)
    PROVE  Told(s, x, log1)
BY DEF Told

\* Nothing is put over what may abort but its message.
LEMMA ToldKept ==
    ASSUME NEW s, NEW s1, NEW S, NEW x, NEW log, Fresh(s, s1, S), Len(s1) >= Len(s),
           "asserted" \notin S, "traced" \notin S, "abort" \notin S, Told(s, x, log),
           Top(s) \in {"has", "write"} /\ s[Len(s)].msg \in Why =>
             \/ D(s1, Len(s)) \in {"has", "write"} /\ s1[Len(s)].msg \in Why
             \/ D(s1, Len(s)) = "entry" /\ WhyLogged(log),
           Top(s) # "entry"
    PROVE  Told(s1, FALSE, log)
<1>1. Len(s) \in Nat /\ Len(s) > 0 /\ Len(s1) \in Nat /\ Len(s1) >= Len(s)
  BY OldOrNew
<1>2. ASSUME NEW h \in 1 .. Len(s1), D(s1, h) \in {"asserted", "traced"}
      PROVE  h # Len(s1) /\ ((D(s1, h + 1) \in {"has", "write"} /\ s1[h + 1].msg \in Why) \/ (D(s1, h + 1) = "entry" /\ WhyLogged(log)))
  <2>1. h \in 1 .. Len(s) /\ h < Len(s) /\ D(s1, h) = D(s, h)
    BY <1>2, OldOrNew
  <2>2. h # Len(s) /\ ((D(s, h + 1) \in {"has", "write"} /\ s[h + 1].msg \in Why) \/ (D(s, h + 1) = "entry" /\ WhyLogged(log)))
    BY <1>1, <1>2, <2>1 DEF Told
  <2>3. CASE h + 1 = Len(s)
    BY <1>1, <2>1, <2>2, <2>3 DEF Top
  <2>4. CASE h + 1 # Len(s)
    <3>1. h + 1 \in 1 .. Len(s) /\ h + 1 < Len(s)
      BY <1>1, <2>1, <2>4
    <3>2. s1[h + 1] = s[h + 1] /\ D(s1, h + 1) = D(s, h + 1)
      BY <3>1, OldOrNew
    <3> QED
      BY <1>1, <2>1, <2>2, <3>2
  <2> QED
    BY <2>3, <2>4
<1>3. ASSUME NEW h \in 1 .. Len(s1), D(s1, h) = "abort" PROVE WhyLogged(log)
  BY <1>3, OldOrNew DEF Told
<1> QED
  BY <1>2, <1>3 DEF Told

\* The report of an assertion has its message put over it.
LEMMA ToldReport ==
    ASSUME NEW s, NEW s1, NEW w, NEW x, NEW y, NEW log, Len(s) \in Nat \ {0}, Put3(s, s1, w, x, y),
           Told(s, FALSE, log), Top(s) = "assert", w.do = "asserted", x.do = "has", x.msg \in Why, y.do = "manager"
    PROVE  Told(s1, FALSE, log)
<1> DEFINE n == Len(s)
<1>1. n \in Nat /\ n > 0 /\ Len(s1) = n + 2 /\ D(s1, n) = "asserted" /\ D(s1, n + 1) = "has" /\ s1[n + 1] = x /\ D(s1, n + 2) = "manager"
  BY DEF Put3, D
<1>2. \A h \in 1 .. Len(s1) : \/ h \in 1 .. n /\ h < n /\ s1[h] = s[h] /\ D(s1, h) = D(s, h)
                              \/ h = n \/ h = n + 1 \/ h = n + 2
  BY DEF Put3, Kept1, D
<1> HIDE DEF n
<1>3. ASSUME NEW h \in 1 .. Len(s1), D(s1, h) \in {"asserted", "traced"}
      PROVE  h # Len(s1) /\ ((D(s1, h + 1) \in {"has", "write"} /\ s1[h + 1].msg \in Why) \/ (D(s1, h + 1) = "entry" /\ WhyLogged(log)))
  <2>1. CASE h = n
    BY <1>1, <2>1
  <2>2. CASE h # n
    <3>1. h \in 1 .. n /\ h < n /\ D(s1, h) = D(s, h)
      BY <1>1, <1>2, <1>3, <2>2
    <3>2. ((D(s, h + 1) \in {"has", "write"} /\ s[h + 1].msg \in Why) \/ (D(s, h + 1) = "entry" /\ WhyLogged(log)))
      BY <1>1, <1>3, <3>1 DEF Told, n
    <3>3. h + 1 # n
      BY <3>2 DEF Top, n
    <3>4. h + 1 \in 1 .. Len(s1) /\ h + 1 < n
      BY <1>1, <3>1, <3>3
    <3>5. s1[h + 1] = s[h + 1] /\ D(s1, h + 1) = D(s, h + 1)
      BY <1>1, <1>2, <3>4
    <3> QED
      BY <1>1, <3>1, <3>2, <3>5
  <2> QED
    BY <2>1, <2>2
<1>4. ASSUME NEW h \in 1 .. Len(s1), D(s1, h) = "abort" PROVE WhyLogged(log)
  BY <1>1, <1>2, <1>4 DEF Told, n
<1> QED
  BY <1>3, <1>4 DEF Told

\* An exception comes by.
LEMMA Stops ==
    ASSUME NEW s, NEW s1, NEW m, Fresh(s, s1, {}), Sheltered(s, m), Top(s) \notin Closes \cup {"manager", "end"}
    PROVE  Stopped(s1, TRUE)
<1>1. ASSUME NEW h \in 1 .. Len(s1), D(s1, h) \in Kept PROVE EndBetween(s1, h, Len(s1))
  <2>1. Len(s) \in Nat /\ Len(s) > 0 /\ Len(s1) = Len(s) - 1 /\ Len(s) \in 1 .. Len(s)
    BY OldOrNew DEF Fresh
  <2>2. h \in 1 .. Len(s) /\ h < Len(s) /\ D(s, h) \in Kept
    BY <1>1, OldOrNew
  <2>3. PICK e \in 1 .. Len(s) : h < e /\ D(s, e) = "end"
    BY <2>1, <2>2 DEF Sheltered, Top, EndBetween
  <2>4. e # Len(s)
    BY <2>3 DEF Top
  <2>5. e \in 1 .. Len(s1) /\ D(s1, e) = "end" /\ e <= Len(s1)
    BY <2>1, <2>3, <2>4, OldOrNew
  <2> QED
    BY <2>3, <2>5 DEF EndBetween
<1> QED
  BY <1>1 DEF Stopped

LEMMA StopsOn ==
    ASSUME NEW s, NEW s1, Fresh(s, s1, {}), Stopped(s, TRUE), Top(s) # "end"
    PROVE  Stopped(s1, TRUE) /\ Top(s) \notin Kept
<1>1. Len(s) \in Nat /\ Len(s) > 0 /\ Len(s1) = Len(s) - 1 /\ Len(s) \in 1 .. Len(s)
  BY OldOrNew DEF Fresh
<1>2. ASSUME NEW h \in 1 .. Len(s1), D(s1, h) \in Kept PROVE EndBetween(s1, h, Len(s1))
  <2>1. h \in 1 .. Len(s) /\ h < Len(s) /\ D(s, h) \in Kept
    BY <1>2, OldOrNew
  <2>2. PICK e \in 1 .. Len(s) : h < e /\ D(s, e) = "end"
    BY <2>1 DEF Stopped, EndBetween
  <2>3. e # Len(s)
    BY <2>2 DEF Top
  <2>4. e \in 1 .. Len(s1) /\ D(s1, e) = "end" /\ e <= Len(s1)
    BY <1>1, <2>2, <2>3, OldOrNew
  <2> QED
    BY <2>2, <2>4 DEF EndBetween
<1>3. Top(s) \notin Kept
  BY <1>1 DEF Stopped, EndBetween, Top
<1> QED
  BY <1>2, <1>3 DEF Stopped

LEMMA PopLogged ==
    ASSUME NEW s, NEW s1, NEW x, NEW log, NEW log1, Fresh(s, s1, {}), Told(s, x, log),
           Top(s) \in {"write", "entry"}, WhyLogged(log) => WhyLogged(log1),
           Top(s) = "write" /\ s[Len(s)].msg \in Why => WhyLogged(log1)
    PROVE  Told(s1, FALSE, log1)
<1>1. Len(s) \in Nat /\ Len(s) > 0 /\ Len(s1) = Len(s) - 1 /\ Len(s) \in 1 .. Len(s)
  BY OldOrNew DEF Fresh
<1>2. ASSUME NEW h \in 1 .. Len(s1)
      PROVE  /\ D(s1, h) \in {"asserted", "traced"} =>
                  IF h = Len(s1) THEN WhyLogged(log1)
                  ELSE \/ D(s1, h + 1) \in {"has", "write"} /\ s1[h + 1].msg \in Why
                       \/ D(s1, h + 1) = "entry" /\ WhyLogged(log1)
             /\ D(s1, h) = "abort" => WhyLogged(log1)
  <2>1. h \in 1 .. Len(s) /\ h < Len(s) /\ D(s1, h) = D(s, h)
    BY <1>2, OldOrNew
  <2>2. CASE h = Len(s1)
    <3>1. h + 1 = Len(s)
      BY <1>1, <2>2
    <3> QED
      BY <1>1, <2>1, <2>2, <3>1 DEF Told, Top
  <2>3. CASE h # Len(s1)
    <3>1. h + 1 \in 1 .. Len(s) /\ h + 1 < Len(s)
      BY <1>1, <2>1, <2>3
    <3>2. s1[h + 1] = s[h + 1] /\ D(s1, h + 1) = D(s, h + 1)
      BY <3>1, OldOrNew
    <3> QED
      BY <1>1, <2>1, <2>3, <3>2 DEF Told
  <2> QED
    BY <2>2, <2>3
<1> QED
  BY <1>2 DEF Told

LEMMA OrderlyPut ==
    ASSUME NEW s, NEW s1, NEW S, Fresh(s, s1, S), Orderly(s),
           Len(s) > 1 /\ <<Top(s), D(s, Len(s) - 1)>> \in Pairs /\ Len(s1) >= Len(s) => <<D(s1, Len(s)), D(s, Len(s) - 1)>> \in Pairs,
           \A h \in Len(s) .. Len(s1) - 1 : <<D(s1, h + 1), D(s1, h)>> \in Pairs
    PROVE  Orderly(s1)
<1>1. Len(s) \in Nat /\ Len(s) > 0 /\ Len(s1) \in Nat /\ Len(s1) >= Len(s) - 1
  BY OldOrNew
<1>2. ASSUME NEW h \in 1 .. Len(s1), h < Len(s1) PROVE <<D(s1, h + 1), D(s1, h)>> \in Pairs
  <2>1. CASE h >= Len(s)
    BY <1>1, <1>2, <2>1
  <2>2. CASE h + 1 = Len(s)
    <3>1. h = Len(s) - 1 /\ Len(s) > 1 /\ Len(s1) >= Len(s) /\ h \in 1 .. Len(s) /\ h < Len(s)
      BY <1>1, <1>2, <2>2
    <3>2. D(s1, h) = D(s, h)
      BY <3>1, OldOrNew
    <3>3. <<D(s, h + 1), D(s, h)>> \in Pairs
      BY <3>1 DEF Orderly
    <3> QED
      BY <2>2, <3>1, <3>2, <3>3 DEF Top
  <2>3. CASE h + 1 < Len(s)
    <3>1. h \in 1 .. Len(s) /\ h + 1 \in 1 .. Len(s) /\ h < Len(s)
      BY <1>1, <2>3
    <3>2. D(s1, h) = D(s, h) /\ D(s1, h + 1) = D(s, h + 1)
      BY <2>3, <3>1, OldOrNew
    <3> QED
      BY <3>1, <3>2 DEF Orderly
  <2> QED
    BY <1>1, <2>1, <2>2, <2>3
<1> QED
  BY <1>2 DEF Orderly

-----------------------------------------------------------------------------
(***************************************************************************)
(* The steps, on the stack.                                                *)
(***************************************************************************)

LEMMA NotStopped ==
    ASSUME NEW s, NEW m, m # "none"
    PROVE  Stopped(s, FALSE) /\ \A x : Unmade(s, m, x)
BY DEF Stopped, Unmade

\* Something is done, and nothing comes of it.
LEMMA HeldPop ==
    ASSUME NEW s, NEW s1, NEW m, NEW m1, NEW up, NEW p, NEW log, Held(s, m, up, FALSE, p, log), Fresh(s, s1, {}),
           m # "none", m1 # "none", Top(s) \in {"manager", "created", "end", "assert", "traced", "gone"}
    PROVE  Held(s1, m1, up, FALSE, p, log)
<1>1. TracedLast(s1) /\ Making(s1) /\ Asks(s1) /\ Shape(s1)
  BY TracedLastKept, MakingKept, AsksKept, ShapeKept DEF Held, Structure
<1>2. Sheltered(s1, m)
  BY PopSheltered DEF Held, Structure
<1>3. Sheltered(s1, m1)
  BY <1>2 DEF Sheltered
<1>4. Reports(s1, up)
  BY ReportsKept DEF Held
<1>5. Remaining(s1, p)
  BY RemainingKept DEF Held, Closes
<1>6. Torn(s1, p)
  BY TornKept DEF Held
<1>7. Told(s1, FALSE, log)
  BY PopTold DEF Held
<1> QED
  BY <1>1, <1>3, <1>4, <1>5, <1>6, <1>7, NotStopped DEF Held, Structure

LEMMA HeldLogged ==
    ASSUME NEW s, NEW s1, NEW m, NEW up, NEW p, NEW log, NEW log1, Held(s, m, up, FALSE, p, log), Fresh(s, s1, {}),
           m # "none", Top(s) \in {"write", "entry"}, WhyLogged(log) => WhyLogged(log1),
           Top(s) = "write" /\ s[Len(s)].msg \in Why => WhyLogged(log1)
    PROVE  Held(s1, m, up, FALSE, p, log1)
<1>1. TracedLast(s1) /\ Making(s1) /\ Asks(s1) /\ Shape(s1)
  BY TracedLastKept, MakingKept, AsksKept, ShapeKept DEF Held, Structure
<1>2. Sheltered(s1, m)
  BY PopSheltered DEF Held, Structure
<1>3. Reports(s1, up)
  BY ReportsKept DEF Held
<1>4. Remaining(s1, p)
  BY RemainingKept DEF Held, Closes
<1>5. Torn(s1, p)
  BY TornKept DEF Held
<1>6. Told(s1, FALSE, log1)
  BY PopLogged DEF Held
<1> QED
  BY <1>1, <1>2, <1>3, <1>4, <1>5, <1>6, NotStopped DEF Held, Structure

\* Something is about to be done.
LEMMA HeldOne ==
    ASSUME NEW s, NEW s1, NEW w, NEW m, NEW up, NEW p, NEW log, NEW log1, Held(s, m, up, FALSE, p, log),
           Len(s) \in Nat \ {0}, Put1(s, s1, w), m # "none", WhyLogged(log) => WhyLogged(log1),
           Top(s) \in {"has", "write"}, w.do \in {"write", "entry"}, w.msg = s[Len(s)].msg,
           w.do = "entry" /\ w.msg \in Why => WhyLogged(log1)
    PROVE  Held(s1, m, up, FALSE, p, log1)
<1>1. Fresh(s, s1, {w.do}) /\ Len(s1) >= Len(s) /\ s1[Len(s)] = w /\ D(s1, Len(s)) = w.do
  BY FreshOne DEF Put1, D
<1>2. TracedLast(s1) /\ Making(s1) /\ Asks(s1) /\ Shape(s1)
  BY <1>1, TracedLastKept, MakingKept, AsksKept, ShapeKept DEF Held, Structure, Makes
<1>3. Sheltered(s1, m)
  BY <1>1, PushSheltered DEF Held, Structure, Kept, Closes
<1>4. Reports(s1, up)
  BY <1>1, ReportsKept DEF Held
<1>5. Remaining(s1, p)
  BY <1>1, RemainingKept DEF Held, Kept, Closes
<1>6. Torn(s1, p)
  BY <1>1, TornKept DEF Held
<1>7. Told(s, FALSE, log1)
  BY ToldMore DEF Held
<1>8. Told(s1, FALSE, log1)
  BY <1>1, <1>7, ToldKept
<1> QED
  BY <1>2, <1>3, <1>4, <1>5, <1>6, <1>8, NotStopped DEF Held, Structure

LEMMA HeldMaker ==
    ASSUME NEW s, NEW s1, NEW w, NEW up, NEW p, NEW log, Held(s, "none", up, FALSE, p, log),
           Len(s) \in Nat \ {0}, Put1(s, s1, w), w.do = "create"
    PROVE  Held(s1, "live", up, FALSE, p, log)
<1>1. Fresh(s, s1, {w.do}) /\ Len(s1) >= Len(s) /\ D(s1, Len(s)) = "create" /\ Len(s) \in 1 .. Len(s)
  BY FreshOne DEF Put1, D
<1>2. /\ Top(s) = "manager"
      /\ \A h \in 1 .. Len(s) : h < Len(s) => D(s, h) \in {"has", "assert", "traced"}
  BY <1>1 DEF Held, Unmade
<1>3. \A h \in 1 .. Len(s1) : D(s1, h) \notin Kept
  BY <1>1, <1>2, OldOrNew DEF Kept, Closes
<1>4. Making(s1)
  BY <1>2, MakeOne
<1>5. TracedLast(s1) /\ Asks(s1) /\ Shape(s1)
  BY <1>1, TracedLastKept, AsksKept, ShapeKept DEF Held, Structure
<1>6. Sheltered(s1, "live")
  BY <1>3 DEF Sheltered
<1>7. Reports(s1, up)
  BY <1>1, <1>2, ReportsKept DEF Held
<1>8. Remaining(s1, p)
  BY <1>1, <1>2, RemainingKept DEF Held, Kept, Closes
<1>9. Torn(s1, p)
  BY <1>1, <1>2, TornKept DEF Held
<1>10. Told(s1, FALSE, log)
  BY <1>1, <1>2, ToldKept DEF Held
<1> QED
  BY <1>4, <1>5, <1>6, <1>7, <1>8, <1>9, <1>10, NotStopped DEF Held, Structure

\* The file of a manager that was made.
LEMMA HeldMade ==
    ASSUME NEW s, NEW s1, NEW w, NEW x, NEW y, NEW m, NEW up, NEW p, NEW q, NEW log, Held(s, m, up, FALSE, p, log),
           Len(s) \in Nat \ {0}, Put3(s, s1, w, x, y), m # "none", q = AllParts,
           Top(s) = "create", w.do = "created", x.do = "has", y.do = "manager"
    PROVE  Held(s1, m, up, FALSE, q, log)
<1>1. Fresh(s, s1, {w.do, x.do, y.do}) /\ Len(s1) >= Len(s) /\ Len(s) \in 1 .. Len(s)
  BY FreshThree DEF Put3
<1>2. \A h \in 1 .. Len(s) : D(s, h) \in {"create", "has", "assert", "traced"}
  BY <1>1 DEF Held, Structure, Making, Makes, Top
<1>3. \A h \in 1 .. Len(s1) : D(s1, h) \notin Kept
  BY <1>1, <1>2, OldOrNew DEF Kept, Closes
<1>4. Making(s1)
  BY MadeOne DEF Held, Structure, Makes
<1>5. TracedLast(s1) /\ Shape(s1)
  BY <1>1, TracedLastKept, ShapeKept DEF Held, Structure
<1>6. Asks(s1)
  BY <1>1, AsksMade DEF Held, Structure, Makes
<1>7. Sheltered(s1, m)
  BY <1>3 DEF Sheltered
<1>8. Reports(s1, up)
  BY <1>1, ReportsKept DEF Held
<1>9. Remaining(s1, q) /\ Torn(s1, q)
  BY <1>3 DEF Remaining, Torn, Kept, Closes
<1>10. Told(s1, FALSE, log)
  BY <1>1, ToldKept DEF Held
<1> QED
  BY <1>4, <1>5, <1>6, <1>7, <1>8, <1>9, <1>10, NotStopped DEF Held, Structure

\* The file could not be made: the exception is caught here.
LEMMA HeldUnmade ==
    ASSUME NEW s, NEW s1, NEW w, NEW y, NEW m, NEW up, NEW x \in BOOLEAN, NEW p, NEW log, Held(s, m, up, x, p, log),
           Len(s) \in Nat \ {0}, Put2(s, s1, w, y), m # "none", Top(s) \in Makes, w.do = "has", y.do = "manager"
    PROVE  Held(s1, m, up, FALSE, p, log)
<1>1. Fresh(s, s1, {w.do, y.do}) /\ Len(s1) >= Len(s)
  BY FreshTwo DEF Put2
<1>2. TracedLast(s1) /\ Shape(s1) /\ Making(s1)
  BY <1>1, TracedLastKept, ShapeKept, MakingKept DEF Held, Structure, Makes
<1>3. Asks(s1)
  BY <1>1, AsksMade DEF Held, Structure
<1>4. Sheltered(s1, m)
  BY <1>1, PushSheltered DEF Held, Structure, Makes, Kept, Closes
<1>5. Reports(s1, up)
  BY <1>1, ReportsKept DEF Held, Makes
<1>6. Remaining(s1, p)
  BY <1>1, RemainingKept DEF Held, Makes, Kept, Closes
<1>7. Torn(s1, p)
  BY <1>1, TornKept DEF Held, Makes
<1>8. Told(s1, FALSE, log)
  BY <1>1, ToldKept DEF Held, Makes
<1> QED
  BY <1>2, <1>3, <1>4, <1>5, <1>6, <1>7, <1>8, NotStopped DEF Held, Structure

\* An assertion is reported.
LEMMA HeldReport ==
    ASSUME NEW s, NEW s1, NEW w, NEW x, NEW y, NEW m, NEW p, NEW log, Held(s, m, FALSE, FALSE, p, log),
           Len(s) \in Nat \ {0}, Put3(s, s1, w, x, y), m # "none",
           Top(s) = "assert", w.do = "asserted", x.do = "has", x.msg \in Why, y.do = "manager"
    PROVE  Held(s1, m, TRUE, FALSE, p, log)
<1>1. Fresh(s, s1, {w.do, x.do, y.do}) /\ Len(s1) >= Len(s)
  BY FreshThree DEF Put3
<1>2. TracedLast(s1) /\ Shape(s1) /\ Making(s1)
  BY <1>1, TracedLastKept, ShapeKept, MakingKept DEF Held, Structure, Makes
<1>3. Asks(s1)
  BY AsksReport DEF Held, Structure
<1>4. Sheltered(s1, m)
  BY <1>1, PushSheltered DEF Held, Structure, Kept, Closes
<1>5. Reports(s1, TRUE)
  BY ReportBegins DEF Held
<1>6. Remaining(s1, p)
  BY <1>1, RemainingKept DEF Held, Kept, Closes
<1>7. Torn(s1, p)
  BY <1>1, TornKept DEF Held
<1>8. Told(s1, FALSE, log)
  BY ToldReport DEF Held
<1> QED
  BY <1>2, <1>3, <1>4, <1>5, <1>6, <1>7, <1>8, NotStopped DEF Held, Structure

\* The parts do not agree, and an assertion fails over the message.
LEMMA HeldAsked ==
    ASSUME NEW s, NEW s1, NEW w, NEW x, NEW y, NEW m, NEW up, NEW p, NEW log, Held(s, m, up, FALSE, p, log),
           Len(s) \in Nat \ {0}, Put3(s, s1, w, x, y), m # "none",
           Top(s) = "has", w.do = "write", w.msg = s[Len(s)].msg, x.do = "assert", y.do = "manager"
    PROVE  Held(s1, m, up, FALSE, p, log)
<1>1. Fresh(s, s1, {w.do, x.do, y.do}) /\ Len(s1) >= Len(s) /\ s1[Len(s)] = w /\ D(s1, Len(s)) = w.do
  BY FreshThree DEF Put3, D
<1>2. TracedLast(s1) /\ Shape(s1) /\ Making(s1) /\ Asks(s1)
  BY <1>1, TracedLastKept, ShapeKept, MakingKept, AsksKept DEF Held, Structure, Makes
<1>3. Sheltered(s1, m)
  BY <1>1, PushSheltered DEF Held, Structure, Kept, Closes
<1>4. Reports(s1, up)
  BY <1>1, ReportsKept DEF Held
<1>5. Remaining(s1, p)
  BY <1>1, RemainingKept DEF Held, Kept, Closes
<1>6. Torn(s1, p)
  BY <1>1, TornKept DEF Held
<1>7. Told(s1, FALSE, log)
  BY <1>1, ToldKept DEF Held
<1> QED
  BY <1>2, <1>3, <1>4, <1>5, <1>6, <1>7, NotStopped DEF Held, Structure

\* A part is let go of, and then what it pointed to.
LEMMA HeldPart ==
    ASSUME NEW s, NEW s1, NEW w, NEW m, NEW up, NEW p \in SUBSET AllParts, NEW log, Held(s, m, up, FALSE, p, log),
           Len(s) \in Nat \ {0}, m # "none", Top(s) \in Closes,
           \/ Fresh(s, s1, {})
           \/ /\ Put1(s, s1, w) /\ w.do = "end"
              /\ \/ Top(s) = "closeArray" /\ w.part = "array"
                 \/ Top(s) = "closeRoot" /\ w.part = "root"
    PROVE  Held(s1, m, up, FALSE, p \ {Part(Top(s))}, log)
<1>1. PICK S : Fresh(s, s1, S) /\ S \subseteq {"end"} /\ (S = {} \/ S = {"end"})
  <2>1. {"end"} \subseteq {"end"} /\ {} \subseteq {"end"}
    OBVIOUS
  <2> QED
    BY <2>1, FreshOne
<1>2. TracedLast(s1) /\ Making(s1) /\ Asks(s1)
  BY <1>1, TracedLastKept, MakingKept, AsksKept DEF Held, Structure, Makes
<1>3. Sheltered(s1, m) /\ Shape(s1)
  <2>1. CASE Fresh(s, s1, {})
    BY <2>1, PopSheltered, ShapeKept DEF Held, Structure
  <2>2. CASE ~Fresh(s, s1, {})
    BY <2>2, PartEnds DEF Held, Structure
  <2> QED
    BY <2>1, <2>2
<1>4. Reports(s1, up)
  BY <1>1, ReportsKept DEF Held, Closes
<1>5. Remaining(s1, p \ {Part(Top(s))}) /\ Torn(s1, p \ {Part(Top(s))})
  BY <1>1, PartGoes DEF Held, Structure
<1>6. Told(s1, FALSE, log)
  <2>1. CASE Fresh(s, s1, {})
    BY <2>1, PopTold DEF Held, Closes
  <2>2. CASE ~Fresh(s, s1, {})
    <3>1. Fresh(s, s1, {"end"}) /\ Len(s1) >= Len(s)
      BY <2>2, FreshOne DEF Put1
    <3> QED
      BY <3>1, ToldKept DEF Held, Closes
  <2> QED
    BY <2>1, <2>2
<1> QED
  BY <1>2, <1>3, <1>4, <1>5, <1>6, NotStopped DEF Held, Structure

\* Something throws.
LEMMA HeldThrow ==
    ASSUME NEW s, NEW s1, NEW m, NEW up, NEW up1, NEW p, NEW log, Held(s, m, up, FALSE, p, log), Fresh(s, s1, {}),
           \/ m = "none" /\ Top(s) = "manager" /\ up1 = up
           \/ m # "none" /\ Top(s) = "entry" /\ up1 = up
           \/ m # "none" /\ Top(s) = "asserted" /\ up1 = FALSE
    PROVE  Held(s1, m, up1, TRUE, p, log)
<1>1. TracedLast(s1) /\ Making(s1) /\ Asks(s1) /\ Shape(s1)
  BY TracedLastKept, MakingKept, AsksKept, ShapeKept DEF Held, Structure
<1>2. Sheltered(s1, m)
  BY PopSheltered DEF Held, Structure
<1>3. Stopped(s1, TRUE)
  <2>1. CASE Top(s) \in {"entry", "asserted"}
    BY <2>1, Stops DEF Held, Structure, Closes
  <2>2. CASE m = "none"
    BY <2>2, OldOrNew DEF Held, Unmade, Stopped, Kept, Closes
  <2> QED
    BY <2>1, <2>2
<1>4. Unmade(s1, m, TRUE)
  BY OldOrNew DEF Held, Unmade
<1>5. Reports(s1, up1)
  <2>1. CASE Top(s) = "asserted"
    BY <2>1, ReportEnds DEF Held
  <2>2. CASE Top(s) # "asserted"
    BY <2>2, ReportsKept DEF Held
  <2> QED
    BY <2>1, <2>2
<1>6. Remaining(s1, p)
  BY RemainingKept DEF Held, Closes
<1>7. Torn(s1, p)
  BY TornKept DEF Held
<1>8. Told(s1, TRUE, log)
  BY PopTold DEF Held
<1> QED
  BY <1>1, <1>2, <1>3, <1>4, <1>5, <1>6, <1>7, <1>8 DEF Held, Structure

\* It comes by what is left undone.
LEMMA HeldUndone ==
    ASSUME NEW s, NEW s1, NEW m, NEW up, NEW up1, NEW p, NEW log, Held(s, m, up, TRUE, p, log), Fresh(s, s1, {}),
           Top(s) # "end", up1 = IF Top(s) = "asserted" THEN FALSE ELSE up
    PROVE  /\ Held(s1, m, up1, TRUE, p, log)
           /\ Top(s) = "traced" => Held(s1, m, up1, FALSE, p, log)
<1>1. TracedLast(s1) /\ Making(s1) /\ Asks(s1) /\ Shape(s1)
  BY TracedLastKept, MakingKept, AsksKept, ShapeKept DEF Held, Structure
<1>2. Sheltered(s1, m)
  BY PopSheltered DEF Held, Structure
<1>3. Stopped(s1, TRUE) /\ Top(s) \notin Kept
  BY StopsOn DEF Held
<1>4. Unmade(s1, m, TRUE)
  BY OldOrNew DEF Held, Unmade
<1>5. Reports(s1, up1)
  <2>1. CASE Top(s) = "asserted"
    BY <2>1, ReportEnds DEF Held
  <2>2. CASE Top(s) # "asserted"
    BY <1>3, <2>2, ReportsKept DEF Held, Kept
  <2> QED
    BY <2>1, <2>2
<1>6. Remaining(s1, p)
  BY <1>3, RemainingKept DEF Held, Kept
<1>7. Torn(s1, p)
  BY <1>3, TornKept DEF Held, Kept, Closes
<1>8. Told(s1, TRUE, log)
  BY PopTold DEF Held
<1>9. ASSUME Top(s) = "traced"
      PROVE  Stopped(s1, FALSE) /\ Unmade(s1, m, FALSE) /\ Told(s1, FALSE, log)
  <2>1. Len(s) \in 1 .. Len(s) /\ Len(s) \in Nat /\ Len(s1) = Len(s) - 1
    BY OldOrNew DEF Fresh
  <2>2. Len(s) = 1
    BY <1>9, <2>1 DEF Held, Structure, TracedLast, Top
  <2>3. Len(s1) = 0
    BY <2>1, <2>2
  <2> QED
    BY <2>3 DEF Stopped, Unmade, Told
<1> QED
  BY <1>1, <1>2, <1>3, <1>4, <1>5, <1>6, <1>7, <1>8, <1>9 DEF Held, Structure

LEMMA HeldAbort ==
    ASSUME NEW s, NEW s1, NEW w, NEW x, NEW y, NEW z, NEW m, NEW up, NEW p, NEW log, Held(s, m, up, FALSE, p, log),
           Len(s) \in Nat \ {0}, Put4(s, s1, w, x, y, z), m # "none", Top(s) \in {"asserted", "traced"},
           w.do = "abort", x.do = "closeStream", y.do = "closeRoot", z.do = "closeArray"
    PROVE  Held(s1, m, IF Top(s) = "asserted" THEN TRUE ELSE up, FALSE, p, log)
<1>1. WhyLogged(log)
  BY DEF Held, Told, Top
<1> QED
  BY <1>1, CloseAndAbort, NotStopped DEF Held

LEMMA HeldReported ==
    ASSUME NEW s, NEW s1, NEW m, NEW up, NEW p, NEW log, Held(s, m, up, FALSE, p, log), Fresh(s, s1, {}),
           m # "none", Top(s) = "asserted"
    PROVE  Held(s1, m, FALSE, FALSE, p, log)
<1>1. TracedLast(s1) /\ Making(s1) /\ Asks(s1) /\ Shape(s1)
  BY TracedLastKept, MakingKept, AsksKept, ShapeKept DEF Held, Structure
<1>2. Sheltered(s1, m)
  BY PopSheltered DEF Held, Structure
<1>3. Reports(s1, FALSE)
  BY ReportEnds DEF Held
<1>4. Remaining(s1, p)
  BY RemainingKept DEF Held, Closes
<1>5. Torn(s1, p)
  BY TornKept DEF Held
<1>6. Told(s1, FALSE, log)
  BY PopTold DEF Held
<1> QED
  BY <1>1, <1>2, <1>3, <1>4, <1>5, <1>6, NotStopped DEF Held, Structure

LEMMA HeldOver ==
    ASSUME NEW s, NEW s1, NEW m, NEW up, NEW p, NEW log, Held(s, m, up, FALSE, p, log), Len(s) > 0,
           Grown(s, s1, {"assert", "manager"}), m # "none", Top(s) \in {"create", "entry", "end"}
    PROVE  Held(s1, m, up, FALSE, p, log)
BY GrownKeeps, NotStopped DEF Held

-----------------------------------------------------------------------------
(***************************************************************************)
(* The calls, on an empty stack.                                           *)
(***************************************************************************)

Whole(p) == p = {} \/ p = AllParts

LEMMA HeldEmpty ==
    ASSUME NEW s, NEW m, NEW up \in BOOLEAN, NEW x, NEW p, NEW log, Len(s) = 0, Held(s, m, up, x, p, log)
    PROVE  up = FALSE /\ Whole(p) /\ Held(s, m, up, FALSE, p, log)
<1>1. \A h \in 1 .. Len(s) : FALSE
  OBVIOUS
<1>2. up = FALSE
  BY <1>1 DEF Held, Reports
<1>3. Whole(p)
  BY <1>1 DEF Held, Torn, Whole
<1>4. Stopped(s, FALSE) /\ Unmade(s, m, FALSE) /\ Told(s, FALSE, log)
  BY <1>1 DEF Stopped, Unmade, Told
<1> QED
  BY <1>2, <1>3, <1>4 DEF Held

\* Nothing that was put off, and the message before what traces.
Begun(s) ==
    /\ Len(s) \in Nat \ {0} /\ Top(s) = "manager"
    /\ \A h \in 1 .. Len(s) :
          /\ h < Len(s) => D(s, h) \in {"has", "traced", "assert"}
          /\ D(s, h) = "traced" => h = 1 /\ D(s, h + 1) = "has" /\ s[h + 1].msg \in Why

LEMMA HeldBegun ==
    ASSUME NEW s, NEW m, NEW p, NEW log, Whole(p), Begun(s)
    PROVE  Held(s, m, FALSE, FALSE, p, log)
<1>1. /\ \A h \in 1 .. Len(s) : D(s, h) \in {"manager", "has", "traced", "assert"} /\ (D(s, h) = "manager" => h = Len(s))
                                /\ (D(s, h) = "traced" => h = 1)
      /\ D(s, Len(s)) = "manager" /\ Len(s) \in 1 .. Len(s) /\ Len(s) \in Nat \ {0} /\ Top(s) = "manager"
  BY DEF Begun, Top
<1>2. TracedLast(s) /\ Sheltered(s, m) /\ Making(s) /\ Shape(s) /\ Asks(s)
  BY <1>1 DEF TracedLast, Sheltered, Making, Makes, Shape, Asks, Kept, Closes
<1>3. Reports(s, FALSE) /\ Stopped(s, FALSE) /\ Remaining(s, p) /\ Torn(s, p)
  BY <1>1 DEF Reports, Stopped, Remaining, Torn, Whole
<1>4. Told(s, FALSE, log)
  <2>1. ASSUME NEW h \in 1 .. Len(s), D(s, h) \in {"asserted", "traced", "abort"}
        PROVE  D(s, h) = "traced" /\ h # Len(s) /\ D(s, h + 1) = "has" /\ s[h + 1].msg \in Why
    BY <1>1, <2>1 DEF Begun
  <2> QED
    BY <2>1 DEF Told
<1>5. Unmade(s, m, FALSE)
  <2>1. \A h \in 1 .. Len(s) : D(s, h) \in {"manager", "has", "assert", "traced"} /\ (D(s, h) = "manager" => h = Len(s))
    BY <1>1
  <2> QED
    BY <1>1, <2>1 DEF Unmade
<1>6. Structure(s, m)
  BY <1>2 DEF Structure
<1> QED
  BY <1>3, <1>4, <1>5, <1>6, Zenon DEF Held

\* A thread's file is closed by itself, or with the manager.
LEMMA HeldClosing ==
    ASSUME NEW s, NEW m, NEW p, NEW log, Whole(p), m # "none", Len(s) = 4,
           \/ D(s, 1) = "closeStream" /\ D(s, 2) = "closeRoot" /\ D(s, 3) = "closeArray" /\ D(s, 4) = "manager"
           \/ D(s, 1) = "gone" /\ D(s, 2) = "closeStream" /\ D(s, 3) = "closeRoot" /\ D(s, 4) = "closeArray"
    PROVE  Held(s, m, FALSE, FALSE, p, log)
<1>1. \A h \in 1 .. Len(s) : h = 1 \/ h = 2 \/ h = 3 \/ h = 4
  OBVIOUS
<1>2. TracedLast(s) /\ Making(s) /\ Asks(s) /\ Reports(s, FALSE)
  BY <1>1 DEF TracedLast, Making, Makes, Asks, Reports
<1>3. Sheltered(s, m)
  BY <1>1 DEF Sheltered, Kept, Closes
<1>4. Shape(s)
  BY <1>1 DEF Shape, Below
<1>5. Remaining(s, p)
  <2>1. 1 \in 1 .. Len(s) /\ 2 \in 1 .. Len(s) /\ 3 \in 1 .. Len(s) /\ 4 \in 1 .. Len(s)
    OBVIOUS
  <2> QED
    BY <1>1, <2>1 DEF Remaining, Above
<1>6. Torn(s, p)
  BY DEF Torn, Whole
<1>7. Told(s, FALSE, log)
  BY <1>1 DEF Told
<1> QED
  BY <1>2, <1>3, <1>4, <1>5, <1>6, <1>7, NotStopped DEF Held, Structure
-----------------------------------------------------------------------------
(***************************************************************************)
(* What the calls and the steps put on the stack.                          *)
(***************************************************************************)

Item(d) == [do |-> d]
ActItem(d, act) == [do |-> d, act |-> act]
WriteItem(m, c) == [do |-> "write", msg |-> m, context |-> c]
EntryItem(m) == [do |-> "entry", msg |-> m]
EndItem(part) == [do |-> "end", part |-> part]

LEMMA ItemsAre ==
    /\ \A d \in Bare : Item(d) \in Items /\ Item(d).do = d
    /\ ManagerItem = Item("manager") /\ ManagerItem \in Items /\ ManagerItem.do = "manager"
    /\ \A m \in Messages : HasItem(m) \in Items /\ HasItem(m).do = "has" /\ HasItem(m).msg = m
    /\ \A m \in Messages : EntryItem(m) \in Items /\ EntryItem(m).do = "entry" /\ EntryItem(m).msg = m
    /\ \A m \in Messages, c \in BOOLEAN :
          WriteItem(m, c) \in Items /\ WriteItem(m, c).do = "write" /\ WriteItem(m, c).msg = m /\ WriteItem(m, c).context = c
    /\ \A d \in {"assert", "asserted", "traced"}, act \in Actions :
          ActItem(d, act) \in Items /\ ActItem(d, act).do = d /\ ActItem(d, act).act = act
    /\ \A part \in {"array", "root"} : EndItem(part) \in Items /\ EndItem(part).do = "end" /\ EndItem(part).part = part
<1>1. \A d \in Bare : Item(d) \in Items /\ Item(d).do = d
  BY DEF Item, Items
<1>2. ManagerItem = Item("manager") /\ "manager" \in Bare
  BY DEF Item, ManagerItem, Bare
<1>3. \A m \in Messages : HasItem(m) \in Items /\ HasItem(m).do = "has" /\ HasItem(m).msg = m
  BY DEF HasItem, Items
<1>4. \A m \in Messages : EntryItem(m) \in Items /\ EntryItem(m).do = "entry" /\ EntryItem(m).msg = m
  BY DEF EntryItem, Items
<1>5. \A m \in Messages, c \in BOOLEAN :
          WriteItem(m, c) \in Items /\ WriteItem(m, c).do = "write" /\ WriteItem(m, c).msg = m /\ WriteItem(m, c).context = c
  BY DEF WriteItem, Items
<1>6. \A d \in {"assert", "asserted", "traced"}, act \in Actions :
          ActItem(d, act) \in Items /\ ActItem(d, act).do = d /\ ActItem(d, act).act = act
  BY DEF ActItem, Items
<1>7. \A part \in {"array", "root"} : EndItem(part) \in Items /\ EndItem(part).do = "end" /\ EndItem(part).part = part
  BY DEF EndItem, Items
<1> QED
  BY <1>1, <1>2, <1>3, <1>4, <1>5, <1>6, <1>7

LEMMA Kinds ==
    ASSUME NEW x \in Items
    PROVE  /\ x.do \in {"manager", "create", "created", "has", "write", "entry", "closeArray", "closeRoot", "closeStream",
                        "end", "assert", "asserted", "traced", "gone", "abort"}
           /\ x.do \in {"has", "write", "entry"} => x.msg \in Messages
           /\ x.do = "write" => x.context \in BOOLEAN
           /\ x.do \in {"assert", "asserted", "traced"} => x.act \in Actions
           /\ x.do = "end" => x.part \in {"array", "root"}
BY DEF Items, Bare

LEMMA JoinTwo ==
    ASSUME NEW a, NEW b
    PROVE  <<a>> \o <<b>> = <<a, b>>
<1> DEFINE u == <<a>> \o <<b>>  v == <<a, b>>
<1>1. u \in Seq({a, b}) /\ v \in Seq({a, b}) /\ Len(u) = 2 /\ Len(v) = 2
  OBVIOUS
<1>2. u[1] = v[1] /\ u[2] = v[2]
  OBVIOUS
<1>3. \A i \in 1 .. Len(u) : u[i] = v[i]
  BY <1>1, <1>2
<1> QED
  BY <1>1, <1>3, SeqEqual

LEMMA JoinThree ==
    ASSUME NEW a, NEW b, NEW c
    PROVE  <<a, b>> \o <<c>> = <<a, b, c>>
<1> DEFINE u == <<a, b>> \o <<c>>  v == <<a, b, c>>
<1>1. u \in Seq({a, b, c}) /\ v \in Seq({a, b, c}) /\ Len(u) = 3 /\ Len(v) = 3
  OBVIOUS
<1>2. u[1] = v[1] /\ u[2] = v[2] /\ u[3] = v[3]
  OBVIOUS
<1>3. \A i \in 1 .. Len(u) : u[i] = v[i]
  BY <1>1, <1>2
<1> QED
  BY <1>1, <1>3, SeqEqual

LEMMA TwoAfter ==
    ASSUME NEW a, NEW b, NEW c
    PROVE  <<a>> \o <<b, c>> = <<a, b, c>>
<1> DEFINE u == <<a>> \o <<b, c>>  v == <<a, b, c>>
<1>1. u \in Seq({a, b, c}) /\ v \in Seq({a, b, c}) /\ Len(u) = 3 /\ Len(v) = 3
  OBVIOUS
<1>2. u[1] = v[1] /\ u[2] = v[2] /\ u[3] = v[3]
  OBVIOUS
<1>3. \A i \in 1 .. Len(u) : u[i] = v[i]
  BY <1>1, <1>2
<1> QED
  BY <1>1, <1>3, SeqEqual

LEMMA Tails ==
    /\ Tail(<<"entry", "array", "root">>) = <<"array", "root">>
    /\ Tail(<<"array", "root">>) = <<"root">> /\ Tail(<<"root">>) = <<>>
<1> DEFINE S == {"entry", "array", "root"}
<1>1. /\ Tail(<<"entry", "array", "root">>) \in Seq(S) /\ <<"array", "root">> \in Seq(S)
      /\ Tail(<<"array", "root">>) \in Seq(S) /\ <<"root">> \in Seq(S) /\ Tail(<<"root">>) \in Seq(S)
  OBVIOUS
<1>2. Tail(<<"entry", "array", "root">>) = <<"array", "root">>
  BY <1>1, SeqEqual
<1>3. Tail(<<"array", "root">>) = <<"root">>
  BY <1>1, SeqEqual
<1>4. Tail(<<"root">>) = <<>>
  BY <1>1
<1> QED
  BY <1>2, <1>3, <1>4

LEMMA JoinFour ==
    ASSUME NEW a, NEW b, NEW c, NEW d
    PROVE  <<a, b, c>> \o <<d>> = <<a, b, c, d>> /\ <<a>> \o <<b, c, d>> = <<a, b, c, d>>
<1> DEFINE u == <<a, b, c>> \o <<d>>  t == <<a>> \o <<b, c, d>>  v == <<a, b, c, d>>  S == {a, b, c, d}
<1>1. u \in Seq(S) /\ t \in Seq(S) /\ v \in Seq(S) /\ Len(u) = 4 /\ Len(t) = 4 /\ Len(v) = 4
  OBVIOUS
<1>2. u[1] = v[1] /\ u[2] = v[2] /\ u[3] = v[3] /\ u[4] = v[4] /\ t[1] = v[1] /\ t[2] = v[2] /\ t[3] = v[3] /\ t[4] = v[4]
  OBVIOUS
<1>3. \A i \in 1 .. Len(v) : u[i] = v[i] /\ t[i] = v[i]
  BY <1>1, <1>2
<1> QED
  BY <1>1, <1>3, SeqEqual

LEMMA Lists ==
    /\ \A m : Log(m) = <<ManagerItem, HasItem(m)>>
    /\ \A act : Assertion(act) = <<ManagerItem, ActItem("assert", act)>>
    /\ \A d : Do(d) = <<Item(d)>>
    /\ \A m, x : Log(m) \o <<x>> = <<ManagerItem, HasItem(m), x>>
    /\ \A act, x : Assertion(act) \o <<x>> = <<ManagerItem, ActItem("assert", act), x>>
    /\ Close = <<Item("closeArray"), Item("closeRoot"), Item("closeStream")>>
    /\ \A x : Close \o <<x>> = <<Item("closeArray"), Item("closeRoot"), Item("closeStream"), x>>
    /\ \A x : <<x>> \o Close = <<x, Item("closeArray"), Item("closeRoot"), Item("closeStream")>>
<1>1. \A a, b : <<a>> \o <<b>> = <<a, b>>
  BY JoinTwo, Zenon
<1>2. \A a, b, c : <<a, b>> \o <<c>> = <<a, b, c>>
  BY JoinThree, Zenon
<1>3. \A a, b, c, d : <<a, b, c>> \o <<d>> = <<a, b, c, d>>
  BY JoinFour, Zenon
<1>4. \A a, b, c, d : <<a>> \o <<b, c, d>> = <<a, b, c, d>>
  BY JoinFour, Zenon
<1>5. /\ \A d : Do(d) = <<Item(d)>>
      /\ ManagerItem = Item("manager")
  BY DEF Do, Item, ManagerItem
<1>6. /\ \A m : Log(m) = <<ManagerItem, HasItem(m)>>
      /\ \A act : Assertion(act) = <<ManagerItem, ActItem("assert", act)>>
  BY <1>1, <1>5 DEF Log, Assertion, HasItem, ActItem
<1>7. Close = <<Item("closeArray"), Item("closeRoot"), Item("closeStream")>>
  <2>1. Close = (<<Item("closeArray")>> \o <<Item("closeRoot")>>) \o <<Item("closeStream")>>
    BY <1>5, Zenon DEF Close
  <2>2. Close = <<Item("closeArray"), Item("closeRoot")>> \o <<Item("closeStream")>>
    BY <1>1, <2>1, ZenonT(60)
  <2> QED
    BY <1>2, <2>2, Zenon
<1>8. \A m, x : Log(m) \o <<x>> = <<ManagerItem, HasItem(m), x>>
  BY <1>2, <1>6, Zenon
<1>9. \A act, x : Assertion(act) \o <<x>> = <<ManagerItem, ActItem("assert", act), x>>
  BY <1>2, <1>6, Zenon
<1>10. \A x : Close \o <<x>> = <<Item("closeArray"), Item("closeRoot"), Item("closeStream"), x>>
  BY <1>3, <1>7, Zenon
<1>11. \A x : <<x>> \o Close = <<x, Item("closeArray"), Item("closeRoot"), Item("closeStream")>>
  BY <1>4, <1>7, Zenon
<1> QED
  BY <1>5, <1>6, <1>7, <1>8, <1>9, <1>10, <1>11, Zenon

-----------------------------------------------------------------------------
(***************************************************************************)
(* What the invariant says of the state.                                   *)
(***************************************************************************)

LEMMA NotEmpty == ASSUME NEW t, Len(t) > 0 PROVE t # <<>>
OBVIOUS

LEMMA StackAt ==
    ASSUME NEW t \in Seq(Items)
    PROVE  /\ \A i \in DOMAIN t : Len(t) + 1 - i \in 1 .. Len(Stack(t)) /\ D(Stack(t), Len(t) + 1 - i) = t[i].do
           /\ \A h \in 1 .. Len(Stack(t)) : Len(t) + 1 - h \in DOMAIN t /\ t[Len(t) + 1 - h].do = D(Stack(t), h)
<1>1. Len(Stack(t)) = Len(t) /\ Len(t) \in Nat /\ DOMAIN t = 1 .. Len(t)
  BY Stacks
<1>2. \A h \in 1 .. Len(t) : D(Stack(t), h) = t[Len(t) + 1 - h].do
  BY DEF Stack, D
<1>3. ASSUME NEW i \in 1 .. Len(t) PROVE Len(t) + 1 - i \in 1 .. Len(t) /\ Len(t) + 1 - (Len(t) + 1 - i) = i
  BY <1>1
<1> QED
  BY <1>1, <1>2, <1>3

LEMMA AtTop ==
    ASSUME NEW t \in Seq(Items), t # <<>>
    PROVE  /\ Len(Stack(t)) \in Nat \ {0} /\ Stack(t)[Len(Stack(t))] = Head(t)
           /\ Top(Stack(t)) = Head(t).do /\ Head(t) \in Items
BY Stacks DEF Top, D

LEMMA UnderTop ==
    ASSUME NEW t \in Seq(Items), t # <<>>, Tail(t) # <<>>
    PROVE  /\ Len(Stack(t)) > 1 /\ D(Stack(t), Len(Stack(t)) - 1) = Head(Tail(t)).do
           /\ Len(Stack(t)) \in Nat /\ Len(Stack(t)) - 1 \in 1 .. Len(Stack(t))
<1>1. Len(Stack(t)) = Len(t) /\ Len(t) \in Nat /\ Len(t) > 1
  BY Stacks
<1>2. Head(Tail(t)) = t[2] /\ Len(t) - 1 \in 1 .. Len(t) /\ Len(t) + 1 - (Len(t) - 1) = 2
  BY <1>1
<1>3. \A h \in 1 .. Len(t) : D(Stack(t), h) = t[Len(t) + 1 - h].do
  BY DEF Stack, D
<1> QED
  BY <1>1, <1>2, <1>3

\* What comes next, when nothing went wrong.
LEMMA NextPops ==
    ASSUME NEW t \in Seq(Items), t # <<>>, Orderly(Stack(t)), Tail(t) # <<>>
    PROVE  <<Head(t).do, Head(Tail(t)).do>> \in Pairs
<1> DEFINE n == Len(Stack(t))
<1>1. n > 1 /\ D(Stack(t), n - 1) = Head(Tail(t)).do /\ n \in Nat /\ n - 1 \in 1 .. n /\ n - 1 < n /\ n - 1 + 1 = n
  BY UnderTop
<1>2. D(Stack(t), n) = Head(t).do
  BY AtTop DEF Top
<1> QED
  BY <1>1, <1>2 DEF Orderly

LEMMA AtMostOne ==
    ASSUME NEW S, \A x, y \in S : x = y
    PROVE  Cardinality(S) <= 1
<1>1. CASE S = {}
  BY <1>1, FS_EmptySet
<1>2. CASE S # {}
  <2>1. PICK x \in S : S = {x}
    BY <1>2
  <2> QED
    BY <2>1, FS_Singleton
<1> QED
  BY <1>1, <1>2

LEMMA OneReport == todo \in Seq(Items) /\ Reports(Stack(todo), inAssert) => OneReportAtATime
<1> SUFFICES ASSUME todo \in Seq(Items), Reports(Stack(todo), inAssert) PROVE OneReportAtATime
  OBVIOUS
<1> DEFINE s == Stack(todo)
           h(i) == Len(todo) + 1 - i
<1>1. \A i \in DOMAIN todo : h(i) \in 1 .. Len(s) /\ D(s, h(i)) = todo[i].do
  BY StackAt
<1>2. \A k \in 1 .. Len(s) : h(k) \in DOMAIN todo /\ todo[h(k)].do = D(s, k)
  BY StackAt
<1>3. \A i, k \in DOMAIN todo : h(i) = h(k) => i = k
  <2>1. Len(todo) \in Nat /\ DOMAIN todo = 1 .. Len(todo)
    OBVIOUS
  <2> QED
    BY <2>1
<1> HIDE DEF s, h
<1>4. Reports(s, inAssert)
  BY DEF s
<1>5. Cardinality(Doing("asserted")) <= 1
  <2>1. \A i, k \in Doing("asserted") : i = k
    <3>1. ASSUME NEW i \in Doing("asserted"), NEW k \in Doing("asserted") PROVE i = k
      <4>1. i \in DOMAIN todo /\ k \in DOMAIN todo /\ todo[i].do = "asserted" /\ todo[k].do = "asserted"
        BY DEF Doing
      <4>2. h(i) = h(k)
        BY <4>1, <1>1, <1>4 DEF Reports
      <4> QED
        BY <4>1, <4>2, <1>3
    <3> QED
      BY <3>1
  <2> QED
    BY <2>1, AtMostOne
<1>6. Doing("asserted") # {} => inAssert
  BY <1>1, <1>4 DEF Reports, Doing
<1>7. inAssert => Doing("asserted") \cup Doing("abort") # {}
  <2> SUFFICES ASSUME inAssert PROVE Doing("asserted") \cup Doing("abort") # {}
    OBVIOUS
  <2>1. PICK k \in 1 .. Len(s) : D(s, k) \in {"asserted", "abort"}
    BY <1>4 DEF Reports
  <2>2. h(k) \in DOMAIN todo /\ todo[h(k)].do \in {"asserted", "abort"}
    BY <1>2, <2>1
  <2> QED
    BY <2>2 DEF Doing
<1> QED
  BY <1>5, <1>6, <1>7 DEF OneReportAtATime

LEMMA OneMaking == todo \in Seq(Items) /\ Making(Stack(todo)) => OneIsMade
<1> SUFFICES ASSUME todo \in Seq(Items), Making(Stack(todo)) PROVE OneIsMade
  OBVIOUS
<1> DEFINE s == Stack(todo)
           h(i) == Len(todo) + 1 - i
           M == Doing("create") \cup Doing("created")
<1>1. \A i \in DOMAIN todo : h(i) \in 1 .. Len(s) /\ D(s, h(i)) = todo[i].do
  BY StackAt
<1>2. \A i, k \in DOMAIN todo : h(i) = h(k) => i = k
  <2>1. Len(todo) \in Nat /\ DOMAIN todo = 1 .. Len(todo)
    OBVIOUS
  <2> QED
    BY <2>1
<1>3. Making(s)
  OBVIOUS
<1>4. \A i \in M : i \in DOMAIN todo /\ todo[i].do \in Makes
  BY DEF Doing, Makes
<1> HIDE DEF s, h, M
<1>5. ASSUME NEW i \in M, NEW k \in M PROVE i = k
  <2>1. h(i) = h(k)
    BY <1>1, <1>3, <1>4 DEF Making
  <2> QED
    BY <1>2, <1>4, <2>1
<1>6. Cardinality(M) <= 1
  BY <1>5, AtMostOne
<1> QED
  BY <1>6 DEF OneIsMade, M

\* Parts that do not agree are being taken down, below a report.
LEMMA PartsAgreed ==
    ASSUME NEW s, NEW up, NEW p \in SUBSET AllParts, Len(s) \in Nat \ {0}, Reports(s, up), Asks(s), Torn(s, p), Top(s) = "has",
           ~(\A part \in AllParts : (part \in p) = ("stream" \in p))
    PROVE  up
<1>1. p # {} /\ p # AllParts
  BY DEF AllParts
<1>2. PICK h \in 1 .. Len(s) : D(s, h) = "closeStream"
  BY <1>1 DEF Torn
<1>3. Len(s) \in 1 .. Len(s) /\ D(s, Len(s)) = "has" /\ h < Len(s)
  BY <1>2 DEF Top
<1>4. \E a \in 1 .. Len(s) : D(s, a) = "asserted"
  BY <1>2, <1>3 DEF Asks
<1> QED
  BY <1>4 DEF Reports

LEMMA CoreIsSound == LogTyped /\ Core => LogIsSound
<1> SUFFICES ASSUME LogTyped, Core PROVE LogIsSound
  OBVIOUS
<1>1. todo \in Seq(Items) /\ parts \in SUBSET AllParts
  BY DEF LogTyped
<1>2. Held(Stack(todo), mgr, inAssert, exc, parts, syslogged)
  BY DEF Core
<1>3. OneReportAtATime
  BY <1>1, <1>2, OneReport DEF Held
<1>4. OneIsMade
  BY <1>1, <1>2, OneMaking DEF Held, Structure
<1>5. PartsTogether
  <2> SUFFICES ASSUME todo # <<>>, Now.do = "has", ~PartsAgree PROVE inAssert
    BY DEF PartsTogether
  <2>1. Len(Stack(todo)) \in Nat \ {0} /\ Top(Stack(todo)) = "has"
    BY <1>1, AtTop DEF Now
  <2>2. Reports(Stack(todo), inAssert) /\ Asks(Stack(todo)) /\ Torn(Stack(todo), parts)
    BY <1>2 DEF Held, Structure
  <2> QED
    BY <1>1, <2>1, <2>2, PartsAgreed DEF PartsAgree
<1>6. LogIsWhole
  <2> SUFFICES ASSUME todo = <<>>, ~exc, ~upset
               PROVE  /\ file.json
                      /\ <<parts, file.nest>> \in {<<AllParts, <<"array", "root">>>>, <<{}, <<>>>>}
                      /\ parts = AllParts =>
                            LET n == Len(syslogged) - Len(file.entries)
                            IN \A i \in DOMAIN file.entries : file.entries[i] = syslogged[n + i]
    BY DEF LogIsWhole
  <2>1. Stage
    BY DEF Core
  <2>2. file.json /\ Steady
    BY <2>1 DEF Stage, Upcoming
  <2>3. file.entries \in Seq(Messages)
    BY DEF LogTyped
  <2>4. parts = AllParts => Open
    BY <2>2 DEF Steady, Shut, AllParts
  <2>5. Open => \A i \in DOMAIN file.entries : file.entries[i] = syslogged[(Len(syslogged) - Len(file.entries)) + i]
    <3> DEFINE e == file.entries
    <3>1. DOMAIN e = 1 .. Len(e)
      BY <2>3
    <3>2. Open => EndsWith(syslogged, e)
      BY <2>2 DEF Steady
    <3> HIDE DEF e
    <3>3. Open => \A i \in DOMAIN e : e[i] = syslogged[(Len(syslogged) - Len(e)) + i]
      BY <3>1, <3>2 DEF EndsWith
    <3> QED
      BY <3>3 DEF e
  <2> QED
    BY <2>2, <2>4, <2>5 DEF Steady, Open, Shut
<1> QED
  BY <1>3, <1>4, <1>5, <1>6 DEF LogIsSound

-----------------------------------------------------------------------------
(***************************************************************************)
(* The steps: each keeps LogTyped and Core, or ends the program.           *)
(***************************************************************************)

Running == LogTyped /\ Core /\ todo # <<>>
Standing == LogTyped /\ Core
Special == {"write", "entry", "end", "closeRoot", "closeStream", "abort", "gone"}

LEMMA Here ==
    ASSUME Running
    PROVE  /\ todo \in Seq(Items) /\ Len(Stack(todo)) \in Nat \ {0} /\ Stack(todo)[Len(Stack(todo))] = Now
           /\ Top(Stack(todo)) = Now.do /\ Now \in Items
           /\ Held(Stack(todo), mgr, inAssert, exc, parts, syslogged)
           /\ ~exc => exc = FALSE /\ Held(Stack(todo), mgr, inAssert, FALSE, parts, syslogged)
           /\ ~exc /\ Now.do # "manager" => mgr # "none"
           /\ mgr = "none" => parts = {} /\ file = NoFile
           /\ ~upset => Orderly(Stack(todo)) /\ Stage
           /\ Upcoming = Now.do
<1>1. todo \in Seq(Items) /\ todo # <<>>
  BY DEF Running, LogTyped
<1>2. Len(Stack(todo)) \in Nat \ {0} /\ Stack(todo)[Len(Stack(todo))] = Now /\ Top(Stack(todo)) = Now.do /\ Now \in Items
  BY <1>1, AtTop DEF Now
<1>3. Held(Stack(todo), mgr, inAssert, exc, parts, syslogged)
  BY DEF Running, Core
<1>4. ~exc /\ Now.do # "manager" => mgr # "none"
  BY <1>2, <1>3 DEF Held, Unmade
<1>5. ~exc => exc = FALSE
  BY DEF Running, LogTyped
<1>6. ~exc => Held(Stack(todo), mgr, inAssert, FALSE, parts, syslogged)
  BY <1>3, <1>5, Zenon
<1> QED
  BY <1>1, <1>2, <1>3, <1>4, <1>5, <1>6 DEF Running, Core, Upcoming

LEMMA PopsTo ==
    ASSUME Running, ~upset, todo' = Tail(todo)
    PROVE  Upcoming' = "none" \/ <<Now.do, Upcoming'>> \in Pairs
<1>1. Tail(todo) # <<>> => <<Head(todo).do, Head(Tail(todo)).do>> \in Pairs
  BY Here, NextPops DEF Running
<1> QED
  BY <1>1 DEF Upcoming, Now

LEMMA SteadyStage ==
    ASSUME Steady, file.json, ~unwinding, UNCHANGED <<file, parts, syslogged, unwinding>>, exc' \/ Upcoming' \notin Special
    PROVE  Stage'
BY DEF Steady, Stage, Special, Open, Shut, EndsWith
LEMMA Settle ==
    ASSUME LogTyped', Held(Stack(todo'), mgr', inAssert', exc', parts', syslogged'), mgr' # "none",
           ~upset' => Orderly(Stack(todo')) /\ Stage'
    PROVE  Standing'
BY DEF Standing, Core

\* The step has to do with neither the file nor the system's log.
Quiet == UNCHANGED <<parts, file, exc, unwinding, syslogged, dead, upset>>

LEMMA QuietPut ==
    ASSUME Running, ~exc, Quiet, todo' \in Seq(Items), inAssert' \in BOOLEAN, mgr' \in {"live", "gone"},
           Held(Stack(todo'), mgr', inAssert', FALSE, parts, syslogged),
           Now.do \notin Special \ {"gone"}, ~upset => Orderly(Stack(todo')) /\ Upcoming' \notin Special
    PROVE  Standing'
<1>1. LogTyped'
  BY DEF Running, LogTyped, Quiet
<1>2. exc = FALSE /\ (~upset => Stage) /\ Upcoming = Now.do
  BY Here
<1>3. Held(Stack(todo'), mgr', inAssert', exc', parts', syslogged')
  BY <1>2, Zenon DEF Quiet
<1>4. ~upset => Steady /\ file.json /\ ~unwinding
  BY <1>2 DEF Stage, Steady, Special, Open, Shut, AllParts
<1>5. ~upset => Stage'
  BY <1>4, SteadyStage DEF Quiet
<1> QED
  BY <1>1, <1>3, <1>5, Settle DEF Quiet

LEMMA QuietPop ==
    ASSUME Running, ~exc, Quiet, todo' = Tail(todo), inAssert' \in BOOLEAN, mgr' \in {"live", "gone"},
           Held(Stack(todo'), mgr', inAssert', FALSE, parts, syslogged),
           Now.do \in {"manager", "created", "assert", "asserted", "traced", "gone"}
    PROVE  Standing'
<1>1. todo \in Seq(Items) /\ todo # <<>> /\ Len(Stack(todo)) \in Nat \ {0} /\ (~upset => Orderly(Stack(todo)))
  BY Here DEF Running
<1>2. Tail(todo) \in Seq(Items) /\ Fresh(Stack(todo), Stack(todo'), {})
  BY <1>1, Popped, FreshPops
<1>3. ~upset => Orderly(Stack(todo'))
  BY <1>1, <1>2, OrderlyPop
<1>4. ~upset => Upcoming' \notin Special
  BY PopsTo DEF Pairs, Special
<1> QED
  BY <1>2, <1>3, <1>4, QuietPut DEF Special

LEMMA ManagerKeeps ==
    ASSUME Running, ~exc, Now.do = "manager", Manager, mgr # "gone"
    PROVE  Standing'
<1> DEFINE s == Stack(todo)  s1 == Stack(todo')
<1>1. todo \in Seq(Items) /\ todo # <<>> /\ Len(s) \in Nat \ {0} /\ Top(s) = "manager"
      /\ Held(s, mgr, inAssert, FALSE, parts, syslogged) /\ mgr \in {"none", "live"} /\ inAssert \in BOOLEAN
      /\ (mgr = "none" => parts = {} /\ file = NoFile) /\ (~upset => Orderly(s) /\ Stage) /\ Upcoming = "manager"
  BY Here DEF Running, LogTyped
<1>2. CASE mgr = "live"
  <2>1. todo' = Tail(todo) /\ Same /\ Pop(s, s1)
    BY <1>1, <1>2, Popped DEF Manager, Instead
  <2>2. Held(s1, mgr, inAssert, FALSE, parts, syslogged)
    BY <1>1, <1>2, <2>1, FreshPops, HeldPop
  <2>3. Held(s1, mgr', inAssert', FALSE, parts, syslogged)
    BY <2>1, <2>2, Zenon DEF Same
  <2> QED
    BY <1>1, <1>2, <2>1, <2>3, QuietPop DEF Same, Quiet
<1>3. CASE mgr = "none" /\ mgr' = "live"
  <2>1. mgr' = "live" /\ todo' = <<Item("create")>> \o Tail(todo) /\ inAssert' = inAssert /\ Quiet
    BY <1>3, Lists DEF Manager, Instead, Quiet
  <2>2. Item("create") \in Items /\ Item("create").do = "create"
    BY ItemsAre DEF Bare
  <2>3. todo' \in Seq(Items) /\ Put1(s, s1, Item("create"))
    BY <1>1, <2>1, <2>2, PutOne
  <2>4. Held(s, "none", inAssert, FALSE, parts, syslogged)
    BY <1>1, <1>3, Zenon
  <2>5. Held(s1, "live", inAssert, FALSE, parts, syslogged)
    BY <1>1, <2>2, <2>3, <2>4, HeldMaker
  <2>6. Held(s1, mgr', inAssert', FALSE, parts, syslogged)
    BY <2>1, <2>5, Zenon
  <2>7. Upcoming' = "create"
    BY <1>1, <2>1, <2>2, <2>3 DEF Upcoming, Now
  <2>8. ASSUME ~upset PROVE Orderly(s1)
    <3>1. Fresh(s, s1, {"create"}) /\ Len(s1) = Len(s)
      BY <1>1, <2>2, <2>3, FreshOne DEF Put1
    <3>2. \A h \in 1 .. Len(s) : D(s, h) \in {"manager", "has", "assert", "traced"}
      BY <2>4 DEF Held, Unmade
    <3>3. Len(s) > 1 /\ <<Top(s), D(s, Len(s) - 1)>> \in Pairs => <<"create", D(s, Len(s) - 1)>> \in Pairs
      BY <1>1, <3>2 DEF Pairs
    <3>4. D(s1, Len(s)) = "create"
      BY <2>2, <2>3 DEF Put1, D
    <3> QED
      BY <1>1, <2>8, <3>1, <3>3, <3>4, OrderlyPut
  <2> QED
    BY <1>1, <2>1, <2>3, <2>6, <2>7, <2>8, QuietPut DEF Special
<1>4. CASE mgr = "none" /\ mgr' # "live"
  <2>1. todo' = Tail(todo) /\ exc' = TRUE /\ UNCHANGED <<mgr, parts, file, inAssert, unwinding, syslogged, dead, upset>>
    BY <1>4 DEF Manager, Throw
  <2>2. todo' \in Seq(Items) /\ Fresh(s, s1, {})
    BY <1>1, <2>1, Popped, FreshPops
  <2>3. LogTyped'
    BY <2>1, <2>2 DEF Running, LogTyped
  <2>4. Held(s1, mgr, inAssert, TRUE, parts, syslogged)
    BY <1>1, <1>4, <2>2, HeldThrow
  <2>5. Held(s1, mgr', inAssert', exc', parts', syslogged')
    BY <2>1, <2>4, Zenon
  <2>6. ~upset => Steady /\ file.json /\ ~unwinding
    BY <1>1 DEF Stage
  <2>7. ~upset => Stage'
    BY <2>1, <2>6, SteadyStage
  <2>8. ~upset => Orderly(s1)
    BY <1>1, <2>2, OrderlyPop
  <2> QED
    BY <1>1, <1>4, <2>1, <2>3, <2>5, <2>7, <2>8 DEF Standing, Core
<1> QED
  BY <1>1, <1>2, <1>3, <1>4

\* An assertion fails before what is to be done.
LEMMA InsideKeeps ==
    ASSUME Running, ~exc, Now.do \in {"create", "entry", "end"},
           AssertsInside, UNCHANGED <<mgr, parts, file, inAssert, exc, unwinding, syslogged, dead, calls>>
    PROVE  Standing'
<1> DEFINE s == Stack(todo)  s1 == Stack(todo')
<1>1. todo \in Seq(Items) /\ Len(s) \in Nat \ {0} /\ Top(s) \in {"create", "entry", "end"}
      /\ Held(s, mgr, inAssert, FALSE, parts, syslogged) /\ mgr # "none" /\ exc = FALSE
  BY Here
<1>2. PICK act \in Actions : todo' = <<ManagerItem, ActItem("assert", act)>> \o todo
  BY Lists DEF AssertsInside
<1>3. ManagerItem \in Items /\ ManagerItem.do = "manager" /\ ActItem("assert", act) \in Items /\ ActItem("assert", act).do = "assert"
  BY ItemsAre
<1>4. todo' \in Seq(Items) /\ Grown(s, s1, {"assert", "manager"})
  BY <1>1, <1>2, <1>3, Overstack
<1>5. Held(s1, mgr, inAssert, FALSE, parts, syslogged)
  <2>1. Len(s) > 0
    BY <1>1
  <2> QED
    BY <1>1, <1>4, <2>1, HeldOver, Zenon
<1>6. Held(s1, mgr', inAssert', exc', parts', syslogged')
  BY <1>1, <1>5, Zenon
<1>7. LogTyped' /\ upset'
  BY <1>4 DEF Running, LogTyped, AssertsInside
<1> QED
  BY <1>1, <1>6, <1>7, Settle

LEMMA CreateKeeps ==
    ASSUME Running, ~exc, Now.do = "create", Create
    PROVE  Standing'
<1> DEFINE s == Stack(todo)  s1 == Stack(todo')
<1>1. todo \in Seq(Items) /\ todo # <<>> /\ Len(s) \in Nat \ {0} /\ Top(s) = "create"
      /\ Held(s, mgr, inAssert, FALSE, parts, syslogged) /\ mgr \in {"live", "gone"} /\ inAssert \in BOOLEAN /\ exc = FALSE
      /\ (~upset => Orderly(s) /\ Stage) /\ Upcoming = "create"
  BY Here DEF Running, LogTyped
<1>2. ~upset => Steady /\ file.json /\ ~unwinding
  BY <1>1 DEF Stage
<1>3. Len(s) > 1 /\ <<Top(s), D(s, Len(s) - 1)>> \in Pairs =>
         <<"created", D(s, Len(s) - 1)>> \in Pairs /\ <<"has", D(s, Len(s) - 1)>> \in Pairs
  BY <1>1 DEF Pairs
<1>4. ManagerItem \in Items /\ ManagerItem.do = "manager" /\ Item("created") \in Items /\ Item("created").do = "created"
      /\ \A m \in Messages : HasItem(m) \in Items /\ HasItem(m).do = "has"
  BY ItemsAre DEF Bare
<1>5. CreatedMessage \in Messages /\ FailedMessage \in Messages
  BY DEF Messages
<1>6. CASE /\ parts' = AllParts
           /\ file' = [NoFile EXCEPT !.nest = <<"array", "root">>]
           /\ Instead(Log(CreatedMessage) \o Do("created"))
           /\ UNCHANGED <<mgr, inAssert, exc, unwinding, syslogged, dead, upset, calls, failures>>
  <2> DEFINE w == Item("created")  x == HasItem(CreatedMessage)
  <2>1. todo' = <<ManagerItem, x, w>> \o Tail(todo)
    BY <1>6, Lists DEF Instead
  <2>2. w \in Items /\ x \in Items /\ w.do = "created" /\ x.do = "has"
    BY <1>4, <1>5
  <2> HIDE DEF w, x
  <2>3. todo' \in Seq(Items) /\ Put3(s, s1, w, x, ManagerItem)
    BY <1>1, <1>4, <2>1, <2>2, PutThree
  <2>4. LogTyped'
    <3>1. file' = [nest |-> <<"array", "root">>, entries |-> <<>>, json |-> TRUE]
      BY <1>6 DEF NoFile
    <3>2. file' \in [nest : {file'.nest}, entries : Seq(Messages), json : BOOLEAN]
      BY <3>1
    <3> QED
      BY <1>6, <2>3, <3>2 DEF Running, LogTyped
  <2>5. Held(s1, mgr, inAssert, FALSE, AllParts, syslogged)
    BY <1>1, <1>4, <2>2, <2>3, HeldMade
  <2>6. Held(s1, mgr', inAssert', exc', parts', syslogged')
    BY <1>1, <1>6, <2>5, Zenon
  <2>7. ASSUME ~upset PROVE Orderly(s1)
    <3>1. D(s1, Len(s)) = "created" /\ D(s1, Len(s) + 1) = "has" /\ D(s1, Len(s) + 2) = "manager" /\ Len(s1) = Len(s) + 2
      BY <1>4, <2>2, <2>3 DEF Put3, D
    <3>2. \A h \in Len(s) .. Len(s1) - 1 : <<D(s1, h + 1), D(s1, h)>> \in Pairs
      <4>1. \A h \in Len(s) .. Len(s1) - 1 : h = Len(s) \/ (h = Len(s) + 1 /\ h + 1 = Len(s) + 2)
        BY <1>1, <3>1
      <4> QED
        BY <3>1, <4>1 DEF Pairs
    <3>3. Fresh(s, s1, {"created", "has", "manager"})
      BY <1>1, <1>4, <2>2, <2>3, FreshThree
    <3> QED
      BY <1>1, <1>3, <2>7, <3>1, <3>2, <3>3, OrderlyPut
  <2>8. Upcoming' = "manager"
    BY <1>1, <1>4, <2>1, <2>2, <2>3 DEF Upcoming, Now
  <2>9. file'.json /\ file'.nest = <<"array", "root">> /\ file'.entries = <<>>
    BY <1>6 DEF NoFile
  <2>10. EndsWith(syslogged', file'.entries)
    <3>1. syslogged' \in Seq(Messages)
      BY <1>6 DEF Running, LogTyped
    <3> QED
      BY <2>9, <3>1 DEF EndsWith
  <2>11. ~upset => Stage'
    BY <1>2, <1>6, <2>8, <2>9, <2>10 DEF Stage, Steady, Open
  <2> QED
    BY <1>1, <1>6, <2>4, <2>6, <2>7, <2>11, Settle
<1>7. CASE Instead(Log(FailedMessage)) /\ UNCHANGED <<mgr, parts, file, inAssert, exc, unwinding, syslogged, dead, upset, calls>>
  <2> DEFINE w == HasItem(FailedMessage)
  <2>1. todo' = <<ManagerItem, w>> \o Tail(todo)
    BY <1>7, Lists DEF Instead
  <2>2. w \in Items /\ w.do = "has"
    BY <1>4, <1>5
  <2> HIDE DEF w
  <2>3. todo' \in Seq(Items) /\ Put2(s, s1, w, ManagerItem)
    BY <1>1, <1>4, <2>1, <2>2, PutTwo
  <2>4. Held(s1, mgr, inAssert, FALSE, parts, syslogged)
    BY <1>1, <1>4, <2>2, <2>3, HeldUnmade DEF Makes
  <2>5. Held(s1, mgr', inAssert', FALSE, parts, syslogged)
    BY <1>7, <2>4, Zenon
  <2>6. ASSUME ~upset PROVE Orderly(s1)
    <3>1. D(s1, Len(s)) = "has" /\ D(s1, Len(s) + 1) = "manager" /\ Len(s1) = Len(s) + 1
      BY <1>4, <2>2, <2>3 DEF Put2, D
    <3>2. \A h \in Len(s) .. Len(s1) - 1 : <<D(s1, h + 1), D(s1, h)>> \in Pairs
      BY <1>1, <3>1 DEF Pairs
    <3>3. Fresh(s, s1, {"has", "manager"})
      BY <1>1, <1>4, <2>2, <2>3, FreshTwo
    <3> QED
      BY <1>1, <1>3, <2>6, <3>1, <3>2, <3>3, OrderlyPut
  <2>7. Upcoming' = "manager"
    BY <1>1, <1>4, <2>1, <2>2, <2>3 DEF Upcoming, Now
  <2> QED
    BY <1>1, <1>7, <2>3, <2>5, <2>6, <2>7, QuietPut DEF Quiet, Special
<1>8. CASE AssertsInside /\ UNCHANGED <<mgr, parts, file, inAssert, exc, unwinding, syslogged, dead, calls>>
  BY <1>1, <1>8, InsideKeeps
<1> QED
  BY <1>6, <1>7, <1>8 DEF Create

LEMMA CreatedKeeps ==
    ASSUME Running, ~exc, Now.do = "created", Instead(<<>>), Same
    PROVE  Standing'
<1> DEFINE s == Stack(todo)  s1 == Stack(todo')
<1>1. todo \in Seq(Items) /\ todo # <<>> /\ Len(s) \in Nat \ {0} /\ Top(s) = "created"
      /\ Held(s, mgr, inAssert, FALSE, parts, syslogged) /\ mgr \in {"live", "gone"} /\ inAssert \in BOOLEAN
  BY Here DEF Running, LogTyped
<1>2. todo' = Tail(todo) /\ Pop(s, s1)
  BY <1>1, Popped DEF Instead
<1>3. Held(s1, mgr, inAssert, FALSE, parts, syslogged)
  BY <1>1, <1>2, FreshPops, HeldPop
<1>4. Held(s1, mgr', inAssert', FALSE, parts, syslogged)
  BY <1>3, Zenon DEF Same
<1> QED
  BY <1>1, <1>2, <1>4, QuietPop DEF Same, Quiet

LEMMA HasFileKeeps ==
    ASSUME Running, ~exc, Now.do = "has", HasFile
    PROVE  Standing'
<1> DEFINE s == Stack(todo)  s1 == Stack(todo')
<1>1. todo \in Seq(Items) /\ todo # <<>> /\ Len(s) \in Nat \ {0} /\ Top(s) = "has" /\ s[Len(s)] = Now /\ Now.msg \in Messages
      /\ Held(s, mgr, inAssert, FALSE, parts, syslogged) /\ mgr \in {"live", "gone"} /\ inAssert \in BOOLEAN /\ exc = FALSE
      /\ (~upset => Orderly(s) /\ Stage) /\ Upcoming = "has"
  BY Here, Kinds DEF Running, LogTyped
<1>2. ~upset => Steady /\ file.json /\ ~unwinding
  BY <1>1 DEF Stage
<1>3. PICK c \in BOOLEAN : c = ("stream" \in parts)
  <2>1. ("stream" \in parts) \in BOOLEAN
    OBVIOUS
  <2> QED
    BY <2>1, Zenon
<1> DEFINE w == WriteItem(Now.msg, c)
<1>4. w \in Items /\ w.do = "write" /\ w.msg = Now.msg /\ w.context = c
  BY <1>1, ItemsAre
<1>5. IF PartsAgree THEN Instead(<<w>>) /\ Same ELSE \E act \in Actions : Instead(Assertion(act) \o <<w>>) /\ Same
  BY <1>3 DEF HasFile, WriteItem
<1> HIDE DEF w
<1>6. CASE PartsAgree
  <2>1. todo' = <<w>> \o Tail(todo) /\ Same
    BY <1>5, <1>6 DEF Instead
  <2>2. todo' \in Seq(Items) /\ Put1(s, s1, w)
    BY <1>1, <1>4, <2>1, PutOne
  <2>3. Held(s1, mgr, inAssert, FALSE, parts, syslogged)
    BY <1>1, <1>4, <2>2, HeldOne
  <2>4. Held(s1, mgr', inAssert', exc', parts', syslogged')
    BY <1>1, <2>1, <2>3, Zenon DEF Same
  <2>5. LogTyped'
    BY <2>1, <2>2 DEF Running, LogTyped, Same
  <2>6. ASSUME ~upset PROVE Orderly(s1)
    <3>1. D(s1, Len(s)) = "write" /\ Len(s1) = Len(s)
      BY <1>4, <2>2 DEF Put1, D
    <3>2. Fresh(s, s1, {"write"})
      BY <1>1, <1>4, <2>2, FreshOne
    <3>3. <<Top(s), D(s, Len(s) - 1)>> \in Pairs => <<"write", D(s, Len(s) - 1)>> \in Pairs
      BY <1>1 DEF Pairs
    <3> QED
      BY <1>1, <2>6, <3>1, <3>2, <3>3, OrderlyPut
  <2>7. Now' = w /\ Upcoming' = "write"
    BY <1>1, <1>4, <2>1, <2>2 DEF Upcoming, Now
  <2>8. ASSUME ~upset PROVE Stage'
    <3>1. Steady'
      BY <1>2, <2>1, <2>8 DEF Same, Steady, Open, Shut, EndsWith
    <3>2. Now'.context = ("stream" \in parts')
      BY <1>3, <1>4, <2>1, <2>7 DEF Same
    <3> QED
      BY <1>2, <2>1, <2>7, <2>8, <3>1, <3>2 DEF Same, Stage
  <2> QED
    BY <1>1, <2>1, <2>4, <2>5, <2>6, <2>8, Settle DEF Same
<1>7. CASE ~PartsAgree
  <2>1. PICK act \in Actions : todo' = <<ManagerItem, ActItem("assert", act), w>> \o Tail(todo) /\ Same
    BY <1>5, <1>7, Lists DEF Instead
  <2> DEFINE x == ActItem("assert", act)
  <2>2. x \in Items /\ x.do = "assert" /\ ManagerItem \in Items /\ ManagerItem.do = "manager"
    BY ItemsAre
  <2> HIDE DEF x
  <2>3. todo' \in Seq(Items) /\ Put3(s, s1, w, x, ManagerItem)
    BY <1>1, <1>4, <2>1, <2>2, PutThree DEF x
  <2>4. Held(s1, mgr, inAssert, FALSE, parts, syslogged)
    BY <1>1, <1>4, <2>2, <2>3, HeldAsked
  <2>5. Held(s1, mgr', inAssert', exc', parts', syslogged')
    BY <1>1, <2>1, <2>4, Zenon DEF Same
  <2>6. LogTyped'
    BY <2>1, <2>3 DEF Running, LogTyped, Same
  <2>7. upset
    <3>1. Steady => parts = AllParts \/ parts = {}
      BY DEF Steady, Open, Shut
    <3>2. parts = {} => PartsAgree
      BY DEF PartsAgree
    <3>3. parts = AllParts => PartsAgree
      BY DEF PartsAgree, AllParts
    <3> QED
      BY <1>2, <1>7, <3>1, <3>2, <3>3
  <2> QED
    BY <1>1, <2>1, <2>5, <2>6, <2>7, Settle DEF Same
<1> QED
  BY <1>6, <1>7

LEMMA Logs ==
    ASSUME NEW log \in Seq(Messages), NEW m \in Messages
    PROVE  /\ Append(log, m) \in Seq(Messages)
           /\ WhyLogged(log) => WhyLogged(Append(log, m))
           /\ m \in Why => WhyLogged(Append(log, m))
<1> DEFINE l == Append(log, m)
<1>1. l \in Seq(Messages) /\ Len(l) = Len(log) + 1 /\ l[Len(log) + 1] = m /\ \A i \in 1 .. Len(log) : l[i] = log[i]
  OBVIOUS
<1>2. DOMAIN log = 1 .. Len(log) /\ DOMAIN l = 1 .. Len(l) /\ Len(log) \in Nat
  BY <1>1
<1> HIDE DEF l
<1>3. WhyLogged(log) => WhyLogged(l)
  BY <1>1, <1>2 DEF WhyLogged
<1>4. m \in Why => WhyLogged(l)
  <2>1. Len(log) + 1 \in DOMAIN l
    BY <1>1, <1>2
  <2> QED
    BY <1>1, <2>1 DEF WhyLogged
<1> QED
  BY <1>1, <1>3, <1>4 DEF l

LEMMA EndsMore ==
    ASSUME NEW log \in Seq(Messages), NEW e \in Seq(Messages), NEW m \in Messages, EndsWith(log, e)
    PROVE  EndsWith(Append(log, m), Append(e, m))
<1> DEFINE l == Append(log, m)  f == Append(e, m)  d == Len(log) - Len(e)
<1>1. l \in Seq(Messages) /\ Len(l) = Len(log) + 1 /\ l[Len(log) + 1] = m /\ \A i \in 1 .. Len(log) : l[i] = log[i]
  OBVIOUS
<1>2. f \in Seq(Messages) /\ Len(f) = Len(e) + 1 /\ f[Len(e) + 1] = m /\ \A i \in 1 .. Len(e) : f[i] = e[i]
  OBVIOUS
<1>3. d >= 0 /\ \A i \in 1 .. Len(e) : e[i] = log[d + i]
  BY DEF EndsWith
<1>4. Len(l) - Len(f) = d /\ Len(log) \in Nat /\ Len(e) \in Nat
  BY <1>1, <1>2
<1>5. \A i \in 1 .. Len(e) : d + i \in 1 .. Len(log)
  BY <1>3, <1>4
<1>6. d + (Len(e) + 1) = Len(log) + 1
  BY <1>4
<1> HIDE DEF l, f, d
<1>7. \A i \in 1 .. Len(f) : i \in 1 .. Len(e) \/ i = Len(e) + 1
  BY <1>2, <1>4
<1>8. \A i \in 1 .. Len(f) : f[i] = l[d + i]
  BY <1>1, <1>2, <1>3, <1>5, <1>6, <1>7
<1>9. EndsWith(l, f)
  BY <1>3, <1>4, <1>8 DEF EndsWith
<1> QED
  BY <1>9 DEF l, f

LEMMA WriteKeeps ==
    ASSUME Running, ~exc, Now.do = "write", Write
    PROVE  Standing'
<1> DEFINE s == Stack(todo)  s1 == Stack(todo')  m == Now.msg
<1>1. todo \in Seq(Items) /\ todo # <<>> /\ Len(s) \in Nat \ {0} /\ Top(s) = "write" /\ s[Len(s)] = Now /\ m \in Messages
      /\ Held(s, mgr, inAssert, FALSE, parts, syslogged) /\ mgr \in {"live", "gone"} /\ inAssert \in BOOLEAN /\ exc = FALSE
      /\ (~upset => Orderly(s) /\ Stage) /\ Upcoming = "write"
  BY Here, Kinds DEF Running, LogTyped
<1>2. ~upset => Steady /\ file.json /\ ~unwinding /\ Now.context = ("stream" \in parts)
  BY <1>1 DEF Stage
<1>3. syslogged' = Append(syslogged, m) /\ syslogged \in Seq(Messages) /\ syslogged' \in Seq(Messages)
      /\ (WhyLogged(syslogged) => WhyLogged(syslogged')) /\ (m \in Why => WhyLogged(syslogged'))
  BY <1>1, Logs DEF Write, Running, LogTyped
<1>4. UNCHANGED <<mgr, parts, inAssert, exc, unwinding, dead, upset>>
  BY DEF Write
<1>5. file \in [nest : {file.nest}, entries : Seq(Messages), json : BOOLEAN]
  BY DEF Running, LogTyped
<1>6. CASE Now.context /\ parts = AllParts
  <2> DEFINE w == EntryItem(m)
  <2>1. w \in Items /\ w.do = "entry" /\ w.msg = m
    BY <1>1, ItemsAre
  <2>2. todo' = <<w>> \o Tail(todo) /\ file' = [file EXCEPT !.nest = <<"entry">> \o @, !.json = @ /\ Head(file.nest) = "array"]
    BY <1>6 DEF Write, Instead, EntryItem
  <2> HIDE DEF w
  <2>3. todo' \in Seq(Items) /\ Put1(s, s1, w)
    BY <1>1, <2>1, <2>2, PutOne
  <2>4. Held(s1, mgr, inAssert, FALSE, parts, syslogged')
    BY <1>1, <1>3, <2>1, <2>3, HeldOne
  <2>5. Held(s1, mgr', inAssert', exc', parts', syslogged')
    BY <1>1, <1>4, <2>4, Zenon
  <2>6. /\ file' = [nest |-> <<"entry">> \o file.nest, entries |-> file.entries, json |-> file.json /\ Head(file.nest) = "array"]
        /\ file.entries \in Seq(Messages)
    BY <1>5, <2>2
  <2>7. LogTyped'
    <3>1. file' \in [nest : {file'.nest}, entries : Seq(Messages), json : BOOLEAN]
      BY <2>6
    <3> QED
      BY <1>3, <1>4, <2>3, <3>1 DEF Running, LogTyped
  <2>8. ASSUME ~upset PROVE Orderly(s1)
    <3>1. D(s1, Len(s)) = "entry" /\ Len(s1) = Len(s)
      BY <2>1, <2>3 DEF Put1, D
    <3>2. Fresh(s, s1, {"entry"})
      BY <1>1, <2>1, <2>3, FreshOne
    <3>3. <<Top(s), D(s, Len(s) - 1)>> \in Pairs => <<"entry", D(s, Len(s) - 1)>> \in Pairs
      BY <1>1 DEF Pairs
    <3> QED
      BY <1>1, <2>8, <3>1, <3>2, <3>3, OrderlyPut
  <2>9. Now' = w /\ Upcoming' = "entry"
    BY <1>1, <2>1, <2>2, <2>3 DEF Upcoming, Now
  <2>10. ASSUME ~upset PROVE Stage'
    <3>1. file.nest = <<"array", "root">> /\ EndsWith(syslogged, file.entries)
      BY <1>2, <1>6, <2>10 DEF Steady, Open, Shut, AllParts
    <3>2. file'.nest = <<"entry", "array", "root">>
      BY <2>6, <3>1, TwoAfter
    <3>3. file'.json /\ file'.entries = file.entries
      <4>1. Head(file.nest) = "array"
        BY <3>1
      <4>2. file'.json = (file.json /\ Head(file.nest) = "array") /\ file'.entries = file.entries
        BY <2>6, Zenon
      <4> QED
        BY <1>2, <2>10, <4>1, <4>2
    <3>4. EndsWith(syslogged', Append(file'.entries, Now'.msg))
      BY <1>1, <1>3, <2>1, <2>6, <2>9, <3>1, <3>3, EndsMore
    <3> QED
      BY <1>1, <1>2, <1>4, <1>6, <2>9, <2>10, <3>2, <3>3, <3>4 DEF Stage
  <2> QED
    BY <1>1, <1>4, <2>5, <2>7, <2>8, <2>10, Settle
<1>7. CASE ~(Now.context /\ parts = AllParts)
  <2>1. todo' = Tail(todo) /\ file' = file
    BY <1>1, <1>7, Popped DEF Write, Instead
  <2>2. todo' \in Seq(Items) /\ Fresh(s, s1, {})
    BY <1>1, <2>1, Popped, FreshPops
  <2>3. Held(s1, mgr, inAssert, FALSE, parts, syslogged')
    BY <1>1, <1>3, <2>2, HeldLogged
  <2>4. Held(s1, mgr', inAssert', exc', parts', syslogged')
    BY <1>1, <1>4, <2>3, Zenon
  <2>5. LogTyped'
    BY <1>3, <1>4, <2>1, <2>2 DEF Running, LogTyped
  <2>6. ~upset => Orderly(s1)
    BY <1>1, <2>2, OrderlyPop
  <2>7. ASSUME ~upset PROVE Stage'
    <3>1. Upcoming' \notin Special
      BY <1>1, <2>1, <2>7, PopsTo DEF Pairs, Special
    <3>2. Shut
      BY <1>2, <1>7, <2>7 DEF Steady, Open, AllParts
    <3>3. Steady'
      BY <1>4, <2>1, <3>2 DEF Steady, Open, Shut, AllParts
    <3> QED
      BY <1>2, <1>4, <2>1, <2>7, <3>1, <3>3 DEF Stage, Special
  <2> QED
    BY <1>1, <1>4, <2>4, <2>5, <2>6, <2>7, Settle
<1> QED
  BY <1>6, <1>7

LEMMA EntryKeeps ==
    ASSUME Running, ~exc, Now.do = "entry", Entry
    PROVE  Standing'
<1> DEFINE s == Stack(todo)  s1 == Stack(todo')  m == Now.msg
<1>1. todo \in Seq(Items) /\ todo # <<>> /\ Len(s) \in Nat \ {0} /\ Top(s) = "entry" /\ m \in Messages
      /\ Held(s, mgr, inAssert, FALSE, parts, syslogged) /\ mgr \in {"live", "gone"} /\ inAssert \in BOOLEAN /\ exc = FALSE
      /\ (~upset => Orderly(s) /\ Stage) /\ Upcoming = "entry"
  BY Here, Kinds DEF Running, LogTyped
<1>2. ~upset => /\ file.json /\ ~unwinding /\ parts = AllParts /\ file.nest = <<"entry", "array", "root">>
                /\ EndsWith(syslogged, Append(file.entries, m))
  BY <1>1 DEF Stage
<1>3. file \in [nest : {file.nest}, entries : Seq(Messages), json : BOOLEAN]
  BY DEF Running, LogTyped
<1>4. CASE /\ file' = IF unwinding THEN file
                  ELSE [file EXCEPT !.nest = Tail(@), !.json = @ /\ Head(file.nest) = "entry", !.entries = Append(@, m)]
           /\ Instead(<<>>)
           /\ UNCHANGED <<mgr, parts, inAssert, exc, unwinding, syslogged, dead, upset, calls, failures>>
  <2>1. todo' = Tail(todo)
    BY <1>1, <1>4, Popped DEF Instead
  <2>2. todo' \in Seq(Items) /\ Fresh(s, s1, {})
    BY <1>1, <2>1, Popped, FreshPops
  <2>3. Held(s1, mgr, inAssert, FALSE, parts, syslogged)
    BY <1>1, <2>2, HeldLogged
  <2>4. Held(s1, mgr', inAssert', exc', parts', syslogged')
    BY <1>1, <1>4, <2>3, Zenon
  <2>5. ~unwinding =>
          file' = [nest |-> Tail(file.nest), entries |-> Append(file.entries, m), json |-> file.json /\ Head(file.nest) = "entry"]
    BY <1>3, <1>4
  <2>6. LogTyped'
    <3>1. Append(file.entries, m) \in Seq(Messages)
      BY <1>1, <1>3, Logs
    <3>2. file' \in [nest : {file'.nest}, entries : Seq(Messages), json : BOOLEAN]
      BY <1>3, <1>4, <2>5, <3>1
    <3> QED
      BY <1>4, <2>2, <3>2 DEF Running, LogTyped
  <2>7. ~upset => Orderly(s1)
    BY <1>1, <2>2, OrderlyPop
  <2>8. ASSUME ~upset PROVE Stage'
    <3>1. Upcoming' \notin Special
      BY <1>1, <2>1, <2>8, PopsTo DEF Pairs, Special
    <3>2. Head(file.nest) = "entry" /\ Tail(file.nest) = <<"array", "root">>
      <4>1. file.nest = <<"entry", "array", "root">>
        BY <1>2, <2>8
      <4>2. Head(file.nest) = "entry"
        BY <4>1
      <4> QED
        BY <4>1, <4>2, Tails, Zenon
    <3>3. file'.json = (file.json /\ Head(file.nest) = "entry") /\ file'.entries = Append(file.entries, m) /\ file'.nest = Tail(file.nest)
      <4>1. file' = [nest |-> Tail(file.nest), entries |-> Append(file.entries, m), json |-> file.json /\ Head(file.nest) = "entry"]
        BY <1>2, <2>5, <2>8
      <4> QED
        BY <4>1, Zenon
    <3>4. file'.nest = <<"array", "root">>
      BY <3>2, <3>3
    <3>5. file'.json /\ file'.entries = Append(file.entries, m)
      BY <1>2, <2>8, <3>2, <3>3
    <3>6. Steady'
      BY <1>2, <1>4, <2>8, <3>4, <3>5 DEF Steady, Open
    <3> QED
      BY <1>2, <1>4, <2>8, <3>1, <3>5, <3>6 DEF Stage, Special
  <2> QED
    BY <1>1, <1>4, <2>4, <2>6, <2>7, <2>8, Settle
<1>5. CASE Throw /\ upset' = TRUE /\ UNCHANGED <<mgr, parts, file, inAssert, unwinding, syslogged, dead, calls>>
  <2>1. todo' = Tail(todo) /\ exc' = TRUE
    BY <1>5 DEF Throw
  <2>2. todo' \in Seq(Items) /\ Fresh(s, s1, {})
    BY <1>1, <2>1, Popped, FreshPops
  <2>3. Held(s1, mgr, inAssert, TRUE, parts, syslogged)
    BY <1>1, <2>2, HeldThrow
  <2>4. Held(s1, mgr', inAssert', exc', parts', syslogged')
    BY <1>5, <2>1, <2>3, Zenon
  <2>5. LogTyped'
    BY <1>5, <2>1, <2>2 DEF Running, LogTyped
  <2> QED
    BY <1>1, <1>5, <2>4, <2>5, Settle
<1>6. CASE AssertsInside /\ UNCHANGED <<mgr, parts, file, inAssert, exc, unwinding, syslogged, dead, calls>>
  BY <1>1, <1>6, InsideKeeps
<1> QED
  BY <1>4, <1>5, <1>6 DEF Entry

LEMMA ResetPartKeeps ==
    ASSUME Running, ~exc, NEW part, ResetPart(part),
           \/ Now.do = "closeArray" /\ part = "array"
           \/ Now.do = "closeRoot" /\ part = "root"
    PROVE  Standing'
<1> DEFINE s == Stack(todo)  s1 == Stack(todo')
<1>1. todo \in Seq(Items) /\ todo # <<>> /\ Len(s) \in Nat \ {0} /\ Top(s) = Now.do
      /\ Held(s, mgr, inAssert, FALSE, parts, syslogged) /\ mgr \in {"live", "gone"} /\ parts \in SUBSET AllParts /\ exc = FALSE
      /\ (~upset => Orderly(s) /\ Stage) /\ Upcoming = Now.do
  BY Here DEF Running, LogTyped
<1>2. ~upset => /\ file.json /\ ~unwinding
                /\ Upcoming = "closeArray" => Open \/ Shut
                /\ Upcoming = "closeRoot" => Shut \/ (parts = {"stream", "root"} /\ file.nest = <<"root">>)
  BY <1>1 DEF Stage, Steady
<1>3. parts' = parts \ {part} /\ Part(Top(s)) = part /\ Top(s) \in Closes
      /\ UNCHANGED <<mgr, file, inAssert, exc, unwinding, syslogged, dead, upset>>
  BY <1>1 DEF ResetPart, Part, Closes
<1>4. CASE part \in parts
  <2> DEFINE w == EndItem(part)
  <2>1. w \in Items /\ w.do = "end" /\ w.part = part
    BY ItemsAre
  <2>2. todo' = <<w>> \o Tail(todo)
    BY <1>4 DEF ResetPart, Instead, EndItem
  <2> HIDE DEF w
  <2>3. todo' \in Seq(Items) /\ Put1(s, s1, w)
    BY <1>1, <2>1, <2>2, PutOne
  <2>4. Held(s1, mgr, inAssert, FALSE, parts \ {Part(Top(s))}, syslogged)
    <3>1. \/ Top(s) = "closeArray" /\ w.part = "array"
          \/ Top(s) = "closeRoot" /\ w.part = "root"
      BY <1>1, <2>1
    <3> QED
      BY <1>1, <1>3, <2>1, <2>3, <3>1, HeldPart
  <2>5. Held(s1, mgr', inAssert', exc', parts', syslogged')
    BY <1>1, <1>3, <2>4, Zenon
  <2>6. LogTyped'
    BY <1>3, <2>3 DEF Running, LogTyped
  <2>7. ASSUME ~upset PROVE Orderly(s1)
    <3>1. D(s1, Len(s)) = "end" /\ Len(s1) = Len(s)
      BY <2>1, <2>3 DEF Put1, D
    <3>2. Fresh(s, s1, {"end"})
      BY <1>1, <2>1, <2>3, FreshOne
    <3>3. <<Top(s), D(s, Len(s) - 1)>> \in Pairs => <<"end", D(s, Len(s) - 1)>> \in Pairs
      BY <1>1 DEF Pairs
    <3> QED
      BY <1>1, <2>7, <3>1, <3>2, <3>3, OrderlyPut
  <2>8. Now' = w /\ Upcoming' = "end"
    BY <1>1, <2>1, <2>2, <2>3 DEF Upcoming, Now
  <2>9. ASSUME ~upset PROVE Stage'
    <3>1. part = "array" => parts' = {"stream", "root"} /\ file'.nest = <<"array", "root">>
      BY <1>1, <1>2, <1>3, <1>4, <2>9 DEF Open, Shut, AllParts
    <3>2. part = "root" => parts' = {"stream"} /\ file'.nest = <<"root">>
      BY <1>1, <1>2, <1>3, <1>4, <2>9 DEF Shut
    <3> QED
      BY <1>1, <1>2, <1>3, <2>1, <2>8, <2>9, <3>1, <3>2 DEF Stage
  <2> QED
    BY <1>1, <1>3, <2>5, <2>6, <2>7, <2>9, Settle
<1>5. CASE part \notin parts
  <2>1. todo' = Tail(todo)
    BY <1>1, <1>5, Popped DEF ResetPart, Instead
  <2>2. todo' \in Seq(Items) /\ Fresh(s, s1, {})
    BY <1>1, <2>1, Popped, FreshPops
  <2>3. Held(s1, mgr, inAssert, FALSE, parts \ {Part(Top(s))}, syslogged)
    BY <1>1, <1>3, <2>2, HeldPart
  <2>4. Held(s1, mgr', inAssert', exc', parts', syslogged')
    BY <1>1, <1>3, <2>3, Zenon
  <2>5. LogTyped'
    BY <1>3, <2>2 DEF Running, LogTyped
  <2>6. ~upset => Orderly(s1)
    BY <1>1, <2>2, OrderlyPop
  <2>7. ASSUME ~upset PROVE Stage'
    <3>1. Upcoming' \in {"none", "closeRoot", "closeStream"}
      BY <1>1, <2>1, <2>7, PopsTo DEF Pairs
    <3>2. Shut
      BY <1>1, <1>2, <1>5, <2>7 DEF Open, AllParts
    <3>3. Shut' /\ Steady'
      BY <1>3, <1>5, <3>2 DEF Steady, Open, Shut, AllParts
    <3> QED
      BY <1>2, <1>3, <2>7, <3>1, <3>3 DEF Stage
  <2> QED
    BY <1>1, <1>3, <2>4, <2>5, <2>6, <2>7, Settle
<1> QED
  BY <1>4, <1>5

LEMMA ResetStreamKeeps ==
    ASSUME Running, ~exc, Now.do = "closeStream", ResetStream
    PROVE  Standing'
<1> DEFINE s == Stack(todo)  s1 == Stack(todo')
<1>1. todo \in Seq(Items) /\ todo # <<>> /\ Len(s) \in Nat \ {0} /\ Top(s) = "closeStream"
      /\ Held(s, mgr, inAssert, FALSE, parts, syslogged) /\ mgr \in {"live", "gone"} /\ parts \in SUBSET AllParts /\ exc = FALSE
      /\ (~upset => Orderly(s) /\ Stage) /\ Upcoming = "closeStream"
  BY Here DEF Running, LogTyped
<1>2. ~upset => /\ file.json /\ ~unwinding
                /\ Shut \/ (parts = {"stream"} /\ file.nest = <<>>)
  BY <1>1 DEF Stage
<1>3. parts' = parts \ {"stream"} /\ Part(Top(s)) = "stream" /\ Top(s) \in Closes
      /\ UNCHANGED <<mgr, file, inAssert, exc, unwinding, syslogged, dead, upset>>
  BY <1>1 DEF ResetStream, Part, Closes
<1>4. todo' = Tail(todo)
  BY <1>1, Popped DEF ResetStream, Instead
<1>5. todo' \in Seq(Items) /\ Fresh(s, s1, {})
  BY <1>1, <1>4, Popped, FreshPops
<1>6. Held(s1, mgr, inAssert, FALSE, parts \ {Part(Top(s))}, syslogged)
  BY <1>1, <1>3, <1>5, HeldPart
<1>7. Held(s1, mgr', inAssert', exc', parts', syslogged')
  BY <1>1, <1>3, <1>6, Zenon
<1>8. LogTyped'
  BY <1>3, <1>5 DEF Running, LogTyped
<1>9. ~upset => Orderly(s1)
  BY <1>1, <1>5, OrderlyPop
<1>10. ASSUME ~upset PROVE Stage'
  <2>1. Upcoming' \in {"none", "abort", "gone"}
    BY <1>1, <1>4, <1>10, PopsTo DEF Pairs
  <2>2. Shut' /\ Steady'
    BY <1>2, <1>3, <1>10 DEF Steady, Open, Shut, AllParts
  <2> QED
    BY <1>2, <1>3, <1>10, <2>1, <2>2 DEF Stage
<1> QED
  BY <1>1, <1>3, <1>7, <1>8, <1>9, <1>10, Settle

LEMMA EndPartKeeps ==
    ASSUME Running, ~exc, Now.do = "end", EndPart, dead' = "no"
    PROVE  Standing'
<1> DEFINE s == Stack(todo)  s1 == Stack(todo')
<1>1. todo \in Seq(Items) /\ todo # <<>> /\ Len(s) \in Nat \ {0} /\ Top(s) = "end" /\ s[Len(s)] = Now
      /\ Now.part \in {"array", "root"}
      /\ Held(s, mgr, inAssert, FALSE, parts, syslogged) /\ mgr \in {"live", "gone"} /\ exc = FALSE
      /\ (~upset => Orderly(s) /\ Stage) /\ Upcoming = "end"
  BY Here, Kinds DEF Running, LogTyped
<1>2. ~upset => /\ file.json /\ ~unwinding
                /\ Now.part = "array" => parts = {"stream", "root"} /\ file.nest = <<"array", "root">>
                /\ Now.part = "root" => parts = {"stream"} /\ file.nest = <<"root">>
  BY <1>1 DEF Stage
<1>3. file \in [nest : {file.nest}, entries : Seq(Messages), json : BOOLEAN]
  BY DEF Running, LogTyped
<1>4. CASE /\ file' = IF unwinding \/ file.nest = <<>> THEN file
                      ELSE [file EXCEPT !.nest = Tail(@), !.json = @ /\ Head(file.nest) = Now.part]
           /\ Instead(<<>>)
           /\ UNCHANGED <<mgr, parts, inAssert, exc, unwinding, syslogged, dead, upset, calls, failures>>
  <2>1. todo' = Tail(todo)
    BY <1>1, <1>4, Popped DEF Instead
  <2>2. todo' \in Seq(Items) /\ Fresh(s, s1, {})
    BY <1>1, <2>1, Popped, FreshPops
  <2>3. Held(s1, mgr, inAssert, FALSE, parts, syslogged)
    BY <1>1, <2>2, HeldPop
  <2>4. Held(s1, mgr', inAssert', exc', parts', syslogged')
    BY <1>1, <1>4, <2>3, Zenon
  <2>5. ~(unwinding \/ file.nest = <<>>) =>
          file' = [nest |-> Tail(file.nest), entries |-> file.entries, json |-> file.json /\ Head(file.nest) = Now.part]
    BY <1>3, <1>4
  <2>6. LogTyped'
    <3>1. file' \in [nest : {file'.nest}, entries : Seq(Messages), json : BOOLEAN]
      BY <1>3, <1>4, <2>5
    <3> QED
      BY <1>4, <2>2, <3>1 DEF Running, LogTyped
  <2>7. ~upset => Orderly(s1)
    BY <1>1, <2>2, OrderlyPop
  <2>8. ASSUME ~upset PROVE Stage'
    <3>1. Upcoming' = IF Now.part = "array" THEN "closeRoot" ELSE "closeStream"
      <4>1. Below(s, Len(s), IF Now.part = "array" THEN "closeRoot" ELSE "closeStream")
        BY <1>1 DEF Held, Structure, Shape, Top, D
      <4>2. Tail(todo) # <<>> /\ Len(s) = Len(todo)
        <5>1. Len(todo) > 1 /\ Len(s) = Len(todo)
          BY <1>1, <4>1, Stacks DEF Below
        <5>2. Len(Tail(todo)) > 0
          BY <1>1, <5>1
        <5> QED
          BY <5>1, <5>2, NotEmpty, Zenon
      <4>3. D(s, Len(s) - 1) = Head(Tail(todo)).do
        BY <1>1, <4>2, UnderTop
      <4> QED
        BY <2>1, <4>1, <4>2, <4>3 DEF Below, Upcoming, Now
    <3>2. file.nest # <<>> /\ Head(file.nest) = Now.part /\ Tail(file.nest) = IF Now.part = "array" THEN <<"root">> ELSE <<>>
      <4>1. CASE Now.part = "array"
        <5>1. file.nest = <<"array", "root">>
          BY <1>2, <2>8, <4>1
        <5>2. Head(file.nest) = "array" /\ file.nest # <<>>
          BY <5>1
        <5> QED
          BY <4>1, <5>1, <5>2, Tails, Zenon
      <4>2. CASE Now.part = "root"
        <5>1. file.nest = <<"root">>
          BY <1>2, <2>8, <4>2
        <5>2. Head(file.nest) = "root" /\ file.nest # <<>>
          BY <5>1
        <5>3. Now.part # "array"
          BY <4>2
        <5> QED
          BY <4>2, <5>1, <5>2, <5>3, Tails, Zenon
      <4> QED
        BY <1>1, <4>1, <4>2
    <3>3. file' = [nest |-> Tail(file.nest), entries |-> file.entries, json |-> file.json /\ Head(file.nest) = Now.part]
      BY <1>2, <2>5, <2>8, <3>2
    <3>4. file'.json = (file.json /\ Head(file.nest) = Now.part) /\ file'.nest = Tail(file.nest)
      BY <3>3, Zenon
    <3>5. file'.json /\ file'.nest = IF Now.part = "array" THEN <<"root">> ELSE <<>>
      BY <1>2, <2>8, <3>2, <3>4
    <3> QED
      BY <1>1, <1>2, <1>4, <2>8, <3>1, <3>5 DEF Stage
  <2> QED
    BY <1>1, <1>4, <2>4, <2>6, <2>7, <2>8, Settle
<1>5. CASE AssertsInside /\ UNCHANGED <<mgr, parts, file, inAssert, exc, unwinding, syslogged, dead, calls>>
  BY <1>1, <1>5, InsideKeeps
<1> QED
  BY <1>4, <1>5 DEF EndPart, Dies

LEMMA AssertKeeps ==
    ASSUME Running, ~exc, Now.do = "assert", Assert_
    PROVE  Standing'
<1> DEFINE s == Stack(todo)  s1 == Stack(todo')
<1>1. todo \in Seq(Items) /\ todo # <<>> /\ Len(s) \in Nat \ {0} /\ Top(s) = "assert" /\ Now.act \in Actions
      /\ Held(s, mgr, inAssert, FALSE, parts, syslogged) /\ mgr \in {"live", "gone"} /\ inAssert \in BOOLEAN
      /\ (~upset => Orderly(s) /\ Stage) /\ Upcoming = "assert"
  BY Here, Kinds DEF Running, LogTyped
<1>2. inAssert' = TRUE /\ mgr' = mgr /\ Quiet
  BY DEF Assert_, Quiet
<1>3. CASE inAssert
  <2>1. todo' = Tail(todo)
    BY <1>1, <1>3, Popped DEF Assert_, Instead
  <2>2. todo' \in Seq(Items) /\ Fresh(s, s1, {})
    BY <1>1, <2>1, Popped, FreshPops
  <2>3. Held(s1, mgr, inAssert, FALSE, parts, syslogged)
    BY <1>1, <2>2, HeldPop
  <2>4. inAssert' = inAssert
    BY <1>1, <1>2, <1>3
  <2>5. Held(s1, mgr', inAssert', FALSE, parts, syslogged)
    BY <1>2, <2>3, <2>4, Zenon
  <2> QED
    BY <1>1, <1>2, <2>1, <2>5, QuietPop
<1>4. CASE ~inAssert
  <2> DEFINE w == ActItem("asserted", Now.act)  x == HasItem(AssertionMessage)
  <2>1. todo' = <<ManagerItem, x, w>> \o Tail(todo)
    BY <1>4, Lists DEF Assert_, Instead, ActItem
  <2>2. w \in Items /\ w.do = "asserted"
    BY <1>1, ItemsAre
  <2>3. x \in Items /\ x.do = "has" /\ x.msg \in Why /\ ManagerItem \in Items /\ ManagerItem.do = "manager"
    BY ItemsAre DEF Messages, Why, AssertionMessage
  <2> HIDE DEF w, x
  <2>4. todo' \in Seq(Items) /\ Put3(s, s1, w, x, ManagerItem)
    BY <1>1, <2>1, <2>2, <2>3, PutThree
  <2>5. Held(s, mgr, FALSE, FALSE, parts, syslogged)
    <3>1. inAssert = FALSE
      BY <1>1, <1>4
    <3> QED
      BY <1>1, <3>1, Zenon
  <2>6. Held(s1, mgr, TRUE, FALSE, parts, syslogged)
    BY <1>1, <2>2, <2>3, <2>4, <2>5, HeldReport
  <2>7. Held(s1, mgr', inAssert', FALSE, parts, syslogged)
    BY <1>2, <2>6, Zenon
  <2>8. ASSUME ~upset PROVE Orderly(s1)
    <3>1. D(s1, Len(s)) = "asserted" /\ D(s1, Len(s) + 1) = "has" /\ D(s1, Len(s) + 2) = "manager" /\ Len(s1) = Len(s) + 2
      BY <2>2, <2>3, <2>4 DEF Put3, D
    <3>2. \A h \in Len(s) .. Len(s1) - 1 : <<D(s1, h + 1), D(s1, h)>> \in Pairs
      <4>1. \A h \in Len(s) .. Len(s1) - 1 : h = Len(s) \/ (h = Len(s) + 1 /\ h + 1 = Len(s) + 2)
        BY <1>1, <3>1
      <4> QED
        BY <3>1, <4>1 DEF Pairs
    <3>3. Fresh(s, s1, {"asserted", "has", "manager"})
      BY <1>1, <2>2, <2>3, <2>4, FreshThree
    <3>4. <<Top(s), D(s, Len(s) - 1)>> \notin Pairs
      BY <1>1 DEF Pairs
    <3> QED
      BY <1>1, <2>8, <3>2, <3>3, <3>4, OrderlyPut
  <2>9. Upcoming' = "manager"
    BY <1>1, <2>1, <2>3, <2>4 DEF Upcoming, Now
  <2> QED
    BY <1>1, <1>2, <2>4, <2>7, <2>8, <2>9, QuietPut DEF Special
<1> QED
  BY <1>3, <1>4

\* An abort closes the file first.
LEMMA AbortKeeps ==
    ASSUME Running, ~exc, Now.do \in {"asserted", "traced"}, todo' = (Close \o Do("abort")) \o Tail(todo), Quiet, mgr' = mgr,
           inAssert' = IF Now.do = "asserted" THEN TRUE ELSE inAssert
    PROVE  Standing'
<1> DEFINE s == Stack(todo)  s1 == Stack(todo')
           w == Item("abort")  x == Item("closeStream")  y == Item("closeRoot")  z == Item("closeArray")
<1>1. todo \in Seq(Items) /\ todo # <<>> /\ Len(s) \in Nat \ {0} /\ Top(s) = Now.do
      /\ Held(s, mgr, inAssert, FALSE, parts, syslogged) /\ mgr \in {"live", "gone"} /\ inAssert \in BOOLEAN
      /\ (~upset => Orderly(s))
  BY Here DEF Running, LogTyped
<1>2. todo' = <<z, y, x, w>> \o Tail(todo)
  BY Lists
<1>3. w \in Items /\ x \in Items /\ y \in Items /\ z \in Items
      /\ w.do = "abort" /\ x.do = "closeStream" /\ y.do = "closeRoot" /\ z.do = "closeArray"
  BY ItemsAre DEF Bare
<1> HIDE DEF w, x, y, z
<1>4. todo' \in Seq(Items) /\ Put4(s, s1, w, x, y, z)
  <2> DEFINE t1 == <<z, y, x, w>> \o Tail(todo)
  <2>1. t1 \in Seq(Items) /\ Put4(s, Stack(t1), w, x, y, z)
    BY <1>1, <1>3, PutFour
  <2>2. todo' = t1
    BY <1>2
  <2> QED
    BY <2>1, <2>2, Zenon
<1>5. Held(s1, mgr, IF Top(s) = "asserted" THEN TRUE ELSE inAssert, FALSE, parts, syslogged)
  BY <1>1, <1>3, <1>4, HeldAbort
<1>6. Held(s1, mgr', inAssert', FALSE, parts, syslogged)
  BY <1>1, <1>5, Zenon
<1>7. ASSUME ~upset PROVE Orderly(s1)
  <2>1. /\ D(s1, Len(s)) = "abort" /\ D(s1, Len(s) + 1) = "closeStream" /\ D(s1, Len(s) + 2) = "closeRoot"
        /\ D(s1, Len(s) + 3) = "closeArray" /\ Len(s1) = Len(s) + 3
    BY <1>3, <1>4 DEF Put4, D
  <2>2. \A h \in Len(s) .. Len(s1) - 1 : <<D(s1, h + 1), D(s1, h)>> \in Pairs
    <3>1. \A h \in Len(s) .. Len(s1) - 1 : \/ h = Len(s) 
                                           \/ h = Len(s) + 1 /\ h + 1 = Len(s) + 2
                                           \/ h = Len(s) + 2 /\ h + 1 = Len(s) + 3
      BY <1>1, <2>1
    <3> QED
      BY <2>1, <3>1 DEF Pairs
  <2>3. Fresh(s, s1, {"abort", "closeStream", "closeRoot", "closeArray"})
    BY <1>1, <1>3, <1>4, FreshFour
  <2>4. <<Top(s), D(s, Len(s) - 1)>> \notin Pairs
    BY <1>1 DEF Pairs
  <2> QED
    BY <1>1, <1>7, <2>2, <2>3, <2>4, OrderlyPut
<1>8. Upcoming' = "closeArray"
  <2>1. Head(<<z, y, x, w>> \o Tail(todo)) = z /\ Len(<<z, y, x, w>> \o Tail(todo)) > 0
    BY <1>1
  <2>2. Head(todo') = z /\ todo' # <<>>
    BY <1>2, <2>1, NotEmpty, Zenon
  <2> QED
    BY <1>3, <2>2 DEF Upcoming, Now
<1>9. inAssert' \in BOOLEAN
  BY <1>1
<1> QED
  BY <1>1, <1>4, <1>6, <1>7, <1>8, <1>9, QuietPut DEF Special

LEMMA AssertedKeeps ==
    ASSUME Running, ~exc, Now.do = "asserted", Asserted
    PROVE  Standing'
<1> DEFINE s == Stack(todo)  s1 == Stack(todo')
<1>1. todo \in Seq(Items) /\ todo # <<>> /\ Len(s) \in Nat \ {0} /\ Top(s) = "asserted" /\ Now.act \in Actions
      /\ Held(s, mgr, inAssert, FALSE, parts, syslogged) /\ mgr \in {"live", "gone"} /\ inAssert \in BOOLEAN
      /\ (~upset => Orderly(s) /\ Stage) /\ Upcoming = "asserted"
  BY Here, Kinds DEF Running, LogTyped
<1>2. inAssert' = (Now.act = "abort") /\ UNCHANGED <<mgr, parts, file, unwinding, syslogged, dead, upset>>
  BY DEF Asserted
<1>3. CASE Now.act = "abort"
  <2>1. todo' = (Close \o Do("abort")) \o Tail(todo) /\ Quiet /\ inAssert' = TRUE
    BY <1>2, <1>3 DEF Asserted, Instead, AbortClosed, Quiet
  <2> QED
    BY <1>1, <1>2, <2>1, AbortKeeps
<1>4. CASE Now.act = "ignore"
  <2>1. todo' = Tail(todo) /\ Quiet /\ inAssert' = FALSE
    BY <1>1, <1>2, <1>4, Popped DEF Asserted, Instead, AbortClosed, Quiet
  <2>2. todo' \in Seq(Items) /\ Fresh(s, s1, {})
    BY <1>1, <2>1, Popped, FreshPops
  <2>3. Held(s1, mgr, FALSE, FALSE, parts, syslogged)
    BY <1>1, <2>2, HeldReported
  <2>4. Held(s1, mgr', inAssert', FALSE, parts, syslogged)
    BY <1>2, <2>1, <2>3, Zenon
  <2> QED
    BY <1>1, <1>2, <2>1, <2>4, QuietPop
<1>5. CASE Now.act = "throw"
  <2>1. todo' = Tail(todo) /\ exc' = TRUE /\ inAssert' = FALSE
    BY <1>2, <1>5 DEF Asserted
  <2>2. todo' \in Seq(Items) /\ Fresh(s, s1, {})
    BY <1>1, <2>1, Popped, FreshPops
  <2>3. Held(s1, mgr, FALSE, TRUE, parts, syslogged)
    BY <1>1, <2>2, HeldThrow
  <2>4. Held(s1, mgr', inAssert', exc', parts', syslogged')
    BY <1>2, <2>1, <2>3, Zenon
  <2>5. LogTyped'
    BY <1>2, <2>1, <2>2 DEF Running, LogTyped
  <2>6. ~upset => Steady /\ file.json /\ ~unwinding
    BY <1>1 DEF Stage
  <2>7. ~upset => Stage'
    BY <1>2, <2>1, <2>6, SteadyStage
  <2>8. ~upset => Orderly(s1)
    BY <1>1, <2>2, OrderlyPop
  <2> QED
    BY <1>1, <1>2, <2>4, <2>5, <2>7, <2>8, Settle
<1> QED
  BY <1>1, <1>3, <1>4, <1>5 DEF Actions

LEMMA TraceLoggedKeeps ==
    ASSUME Running, ~exc, Now.do = "traced", TraceLogged
    PROVE  Standing'
<1> DEFINE s == Stack(todo)  s1 == Stack(todo')
<1>1. todo \in Seq(Items) /\ todo # <<>> /\ Len(s) \in Nat \ {0} /\ Top(s) = "traced"
      /\ Held(s, mgr, inAssert, FALSE, parts, syslogged) /\ mgr \in {"live", "gone"} /\ inAssert \in BOOLEAN
  BY Here DEF Running, LogTyped
<1>2. mgr' = mgr /\ inAssert' = inAssert /\ Quiet
  BY DEF TraceLogged, Same, Quiet
<1>3. CASE Now.act = "abort"
  <2>1. todo' = (Close \o Do("abort")) \o Tail(todo)
    BY <1>3 DEF TraceLogged, Instead, AbortClosed
  <2> QED
    BY <1>1, <1>2, <2>1, AbortKeeps
<1>4. CASE Now.act # "abort"
  <2>1. todo' = Tail(todo) /\ Pop(s, s1)
    BY <1>1, <1>4, Popped DEF TraceLogged, Instead, AbortClosed
  <2>2. Held(s1, mgr, inAssert, FALSE, parts, syslogged)
    BY <1>1, <2>1, FreshPops, HeldPop
  <2>3. Held(s1, mgr', inAssert', FALSE, parts, syslogged)
    BY <1>2, <2>2, Zenon
  <2> QED
    BY <1>1, <1>2, <2>1, <2>3, QuietPop
<1> QED
  BY <1>3, <1>4

LEMMA GoneKeeps ==
    ASSUME Running, ~exc, Now.do = "gone", Gone
    PROVE  Standing'
<1> DEFINE s == Stack(todo)  s1 == Stack(todo')
<1>1. todo \in Seq(Items) /\ todo # <<>> /\ Len(s) \in Nat \ {0} /\ Top(s) = "gone"
      /\ Held(s, mgr, inAssert, FALSE, parts, syslogged) /\ mgr \in {"live", "gone"} /\ inAssert \in BOOLEAN
  BY Here DEF Running, LogTyped
<1>2. mgr' = "gone" /\ inAssert' = inAssert /\ Quiet /\ todo' = Tail(todo) /\ Pop(s, s1)
  BY <1>1, Popped DEF Gone, Instead, Quiet
<1>3. Held(s1, "gone", inAssert, FALSE, parts, syslogged)
  BY <1>1, <1>2, FreshPops, HeldPop
<1>4. Held(s1, mgr', inAssert', FALSE, parts, syslogged)
  BY <1>2, <1>3, Zenon
<1> QED
  BY <1>1, <1>2, <1>4, QuietPop

LEMMA CaughtKeeps ==
    ASSUME Running, exc, Caught, Now.do # "end"
    PROVE  Standing'
<1> DEFINE s == Stack(todo)  s1 == Stack(todo')
<1>1. todo \in Seq(Items) /\ todo # <<>> /\ Len(s) \in Nat \ {0} /\ Top(s) = Now.do /\ inAssert \in BOOLEAN /\ exc = TRUE
      /\ mgr \in {"none", "live", "gone"}
      /\ Held(s, mgr, inAssert, exc, parts, syslogged) /\ (mgr = "none" => parts = {} /\ file = NoFile)
      /\ (~upset => Orderly(s) /\ Stage)
  BY Here DEF Running, LogTyped
<1>2. ~upset => Steady /\ file.json /\ ~unwinding
  BY <1>1 DEF Stage
<1>3. Held(s, mgr, inAssert, TRUE, parts, syslogged)
  BY <1>1, Zenon
<1>4. UNCHANGED <<mgr, parts, file, unwinding, syslogged, dead, upset>>
  BY DEF Caught
<1>5. CASE Now.do = "created"
  <2> DEFINE w == HasItem(FailedMessage)
  <2>1. todo' = <<ManagerItem, w>> \o Tail(todo) /\ exc' = FALSE
    BY <1>5, Lists DEF Caught, Instead
  <2>2. w \in Items /\ w.do = "has" /\ ManagerItem \in Items /\ ManagerItem.do = "manager"
    BY ItemsAre DEF Messages
  <2> HIDE DEF w
  <2>3. todo' \in Seq(Items) /\ Put2(s, s1, w, ManagerItem)
    BY <1>1, <2>1, <2>2, PutTwo
  <2>4. mgr # "none"
    BY <1>1, <1>3, <1>5 DEF Held, Unmade, Top
  <2>5. Held(s1, mgr, inAssert, FALSE, parts, syslogged)
    BY <1>1, <1>3, <1>5, <2>2, <2>3, <2>4, HeldUnmade DEF Makes
  <2>6. inAssert' = inAssert
    BY <1>1, <1>5 DEF Caught
  <2>7. Held(s1, mgr', inAssert', exc', parts', syslogged')
    BY <1>4, <2>1, <2>5, <2>6, Zenon
  <2>8. LogTyped'
    BY <1>4, <2>1, <2>3, <2>6 DEF Running, LogTyped
  <2>9. ASSUME ~upset PROVE Orderly(s1)
    <3>1. D(s1, Len(s)) = "has" /\ D(s1, Len(s) + 1) = "manager" /\ Len(s1) = Len(s) + 1
      BY <2>2, <2>3 DEF Put2, D
    <3>2. \A h \in Len(s) .. Len(s1) - 1 : <<D(s1, h + 1), D(s1, h)>> \in Pairs
      BY <1>1, <3>1 DEF Pairs
    <3>3. Fresh(s, s1, {"has", "manager"})
      BY <1>1, <2>2, <2>3, FreshTwo
    <3>4. <<Top(s), D(s, Len(s) - 1)>> \in Pairs => <<"has", D(s, Len(s) - 1)>> \in Pairs
      BY <1>1, <1>5 DEF Pairs
    <3> QED
      BY <1>1, <2>9, <3>1, <3>2, <3>3, <3>4, OrderlyPut
  <2>10. Upcoming' = "manager"
    BY <1>1, <2>1, <2>2, <2>3 DEF Upcoming, Now
  <2>11. ~upset => Stage'
    BY <1>2, <1>4, <2>10, SteadyStage DEF Special
  <2> QED
    BY <1>4, <2>4, <2>7, <2>8, <2>9, <2>11, Settle
<1>6. CASE Now.do # "created"
  <2>1. todo' = Tail(todo) /\ (Now.do = "traced" => exc' = FALSE) /\ (Now.do # "traced" => exc' = exc)
    BY <1>1, <1>6, Popped DEF Caught, Instead
  <2>2. todo' \in Seq(Items) /\ Fresh(s, s1, {})
    BY <1>1, <2>1, Popped, FreshPops
  <2>3. inAssert' = IF Top(s) = "asserted" THEN FALSE ELSE inAssert
    BY <1>1 DEF Caught
  <2>4. Held(s1, mgr, inAssert', TRUE, parts, syslogged) /\ (Top(s) = "traced" => Held(s1, mgr, inAssert', FALSE, parts, syslogged))
    BY <1>1, <1>3, <2>2, <2>3, HeldUndone
  <2>5. Held(s1, mgr', inAssert', exc', parts', syslogged')
    <3>1. CASE Now.do = "traced"
      BY <1>1, <1>4, <2>1, <2>4, <3>1, Zenon
    <3>2. CASE Now.do # "traced"
      BY <1>1, <1>4, <2>1, <2>4, <3>2, Zenon
    <3> QED
      BY <3>1, <3>2
  <2>6. LogTyped'
    <3>1. inAssert' \in BOOLEAN /\ exc' \in BOOLEAN
      BY <1>1, <2>1, <2>3
    <3> QED
      BY <1>4, <2>2, <3>1 DEF Running, LogTyped
  <2>7. ~upset => Orderly(s1)
    BY <1>1, <2>2, OrderlyPop
  <2>8. ASSUME ~upset PROVE Stage'
    <3>1. Now.do = "traced" => Upcoming' \notin Special
      BY <2>1, <2>8, PopsTo DEF Pairs, Special
    <3>2. exc' \/ Upcoming' \notin Special
      BY <1>1, <2>1, <3>1
    <3> QED
      BY <1>2, <1>4, <2>8, <3>2, SteadyStage
  <2> QED
    BY <1>1, <1>4, <2>5, <2>6, <2>7, <2>8 DEF Standing, Core
<1> QED
  BY <1>5, <1>6

-----------------------------------------------------------------------------
(***************************************************************************)
(* The calls.                                                              *)
(***************************************************************************)

\* Between calls.
Idle == LogTyped /\ Core /\ todo = <<>>

LEMMA IdleHere ==
    ASSUME Idle
    PROVE  /\ inAssert = FALSE /\ Whole(parts) /\ mgr \in {"none", "live", "gone"}
           /\ Held(Stack(todo), mgr, inAssert, FALSE, parts, syslogged)
           /\ mgr = "none" => parts = {} /\ file = NoFile
           /\ ~upset => Steady /\ file.json /\ ~unwinding
<1>1. Len(Stack(todo)) = 0
  BY Stacks DEF Idle, LogTyped
<1>2. Held(Stack(todo), mgr, inAssert, exc, parts, syslogged) /\ inAssert \in BOOLEAN
  BY DEF Idle, Core, LogTyped
<1>3. inAssert = FALSE /\ Whole(parts) /\ Held(Stack(todo), mgr, inAssert, FALSE, parts, syslogged)
  BY <1>1, <1>2, HeldEmpty
<1>4. ~upset => Steady /\ file.json /\ ~unwinding
  BY DEF Idle, Core, Stage, Upcoming
<1> QED
  BY <1>3, <1>4 DEF Idle, Core, LogTyped

\* A call is begun: all that it has to keep is what is to be done.
LEMMA BeginKeeps ==
    ASSUME Idle, ~exc, NEW things \in Seq(Items), things # <<>>, Begin(things), unwinding' \in BOOLEAN, upset' \in BOOLEAN,
           ~upset' => ~upset /\ unwinding' = unwinding,
           Held(Stack(things), mgr, FALSE, FALSE, parts, syslogged),
           Orderly(Stack(things)), Head(things).do \notin Special
    PROVE  Standing'
<1>1. inAssert = FALSE /\ exc = FALSE /\ (mgr = "none" => parts = {} /\ file = NoFile)
      /\ (~upset => Steady /\ file.json /\ ~unwinding)
  BY IdleHere DEF Idle, LogTyped
<1>2. todo' = things /\ UNCHANGED <<mgr, parts, file, inAssert, exc, syslogged, dead>>
  BY DEF Begin
<1>3. Held(Stack(todo'), mgr', inAssert', exc', parts', syslogged')
  BY <1>1, <1>2, Zenon
<1>4. LogTyped'
  BY <1>2 DEF Idle, LogTyped
<1>5. Upcoming' \notin Special
  BY <1>2 DEF Upcoming, Now
<1>6. ~upset' => Stage'
  BY <1>1, <1>2, <1>5, SteadyStage
<1> QED
  BY <1>1, <1>2, <1>3, <1>4, <1>6 DEF Standing, Core

LEMMA StackOne ==
    ASSUME NEW a \in Items
    PROVE  Len(Stack(<<a>>)) = 1 /\ Stack(<<a>>)[1] = a
<1> DEFINE t == <<a>>
<1>1. t \in Seq(Items) /\ Len(t) = 1 /\ t[1] = a
  OBVIOUS
<1> HIDE DEF t
<1>2. Len(Stack(t)) = 1 /\ Stack(t)[1] = t[1]
  BY <1>1 DEF Stack
<1> QED
  BY <1>1, <1>2 DEF t

LEMMA StackTwo ==
    ASSUME NEW a \in Items, NEW b \in Items
    PROVE  Len(Stack(<<a, b>>)) = 2 /\ Stack(<<a, b>>)[1] = b /\ Stack(<<a, b>>)[2] = a
<1> DEFINE t == <<a, b>>
<1>1. t \in Seq(Items) /\ Len(t) = 2 /\ t[1] = a /\ t[2] = b
  OBVIOUS
<1> HIDE DEF t
<1>2. Len(Stack(t)) = 2 /\ Stack(t)[1] = t[2] /\ Stack(t)[2] = t[1]
  BY <1>1 DEF Stack
<1> QED
  BY <1>1, <1>2 DEF t

LEMMA StackThree ==
    ASSUME NEW a \in Items, NEW b \in Items, NEW c \in Items
    PROVE  Len(Stack(<<a, b, c>>)) = 3 /\ Stack(<<a, b, c>>)[1] = c /\ Stack(<<a, b, c>>)[2] = b /\ Stack(<<a, b, c>>)[3] = a
<1> DEFINE t == <<a, b, c>>
<1>1. t \in Seq(Items) /\ Len(t) = 3 /\ t[1] = a /\ t[2] = b /\ t[3] = c
  OBVIOUS
<1> HIDE DEF t
<1>2. Len(Stack(t)) = 3 /\ Stack(t)[1] = t[3] /\ Stack(t)[2] = t[2] /\ Stack(t)[3] = t[1]
  BY <1>1 DEF Stack
<1> QED
  BY <1>1, <1>2 DEF t

LEMMA StackFour ==
    ASSUME NEW a \in Items, NEW b \in Items, NEW c \in Items, NEW d \in Items
    PROVE  Len(Stack(<<a, b, c, d>>)) = 4 /\ Stack(<<a, b, c, d>>)[1] = d /\ Stack(<<a, b, c, d>>)[2] = c /\ Stack(<<a, b, c, d>>)[3] = b /\ Stack(<<a, b, c, d>>)[4] = a
<1> DEFINE t == <<a, b, c, d>>
<1>1. t \in Seq(Items) /\ Len(t) = 4 /\ t[1] = a /\ t[2] = b /\ t[3] = c /\ t[4] = d
  OBVIOUS
<1> HIDE DEF t
<1>2. Len(Stack(t)) = 4 /\ Stack(t)[1] = t[4] /\ Stack(t)[2] = t[3] /\ Stack(t)[3] = t[2] /\ Stack(t)[4] = t[1]
  BY <1>1 DEF Stack
<1> QED
  BY <1>1, <1>2 DEF t

LEMMA CallKeeps ==
    ASSUME Idle, Call
    PROVE  Standing'
<1> DEFINE h1 == HasItem(PlainMessage)  h2 == HasItem(Traced)
           ca == Item("closeArray")  cr == Item("closeRoot")  cs == Item("closeStream")
<1>1. Whole(parts) /\ ~exc /\ unwinding \in BOOLEAN /\ upset \in BOOLEAN
  BY IdleHere DEF Call, Idle, LogTyped
<1>2. ManagerItem \in Items /\ ManagerItem.do = "manager" /\ h1 \in Items /\ h1.do = "has"
      /\ h2 \in Items /\ h2.do = "has" /\ h2.msg \in Why
  BY ItemsAre DEF Messages, Why, Traced
<1>3. ca \in Items /\ cr \in Items /\ cs \in Items /\ Item("gone") \in Items
      /\ ca.do = "closeArray" /\ cr.do = "closeRoot" /\ cs.do = "closeStream" /\ Item("gone").do = "gone"
  BY ItemsAre DEF Bare
<1>4. \A d \in {"assert", "traced"}, act \in Actions : ActItem(d, act) \in Items /\ ActItem(d, act).do = d
  BY ItemsAre
<1>5. Log(PlainMessage) = <<ManagerItem, h1>>
  BY Lists
<1> HIDE DEF h1, h2, ca, cr, cs
<1>6. ASSUME Begin(Log(PlainMessage)), \/ UNCHANGED <<unwinding, upset>>
                                       \/ unwinding' = TRUE /\ upset' = TRUE
      PROVE  Standing'
  <2> DEFINE t == <<ManagerItem, h1>>  s == Stack(t)
  <2>1. t \in Seq(Items) /\ t # <<>> /\ Head(t) = ManagerItem /\ Len(t) = 2 /\ t[1] = ManagerItem /\ t[2] = h1
    BY <1>2
  <2>2. Len(s) = 2 /\ s[1] = h1 /\ s[2] = ManagerItem
    BY <1>2, StackTwo
  <2> HIDE DEF t
  <2> HIDE DEF s
  <2>3. D(s, 1) = "has" /\ D(s, 2) = "manager" /\ \A h \in 1 .. Len(s) : h = 1 \/ h = 2
    BY <1>2, <2>2 DEF D
  <2>4. Held(s, mgr, FALSE, FALSE, parts, syslogged)
    <3>1. Begun(s)
      BY <1>1, <2>2, <2>3 DEF Begun, Top
    <3> QED
      BY <1>1, <3>1, HeldBegun, Zenon
  <2>5. Orderly(s)
    BY <2>2, <2>3 DEF Orderly, Pairs
  <2>6. Begin(t) /\ Head(t).do \notin Special
    BY <1>2, <1>5, <1>6, <2>1 DEF Special, t
  <2>7. Held(Stack(t), mgr, FALSE, FALSE, parts, syslogged) /\ Orderly(Stack(t))
    BY <1>6, <2>1, <2>4, <2>5, <2>6 DEF s
  <2>8. unwinding' \in BOOLEAN /\ upset' \in BOOLEAN /\ (~upset' => ~upset /\ unwinding' = unwinding)
    <3>1. CASE UNCHANGED <<unwinding, upset>>
      BY <1>1, <3>1
    <3>2. CASE unwinding' = TRUE /\ upset' = TRUE
      BY <3>2
    <3> QED
      BY <1>6, <3>1, <3>2
  <2> QED
    BY <1>1, <1>6, <2>1, <2>4, <2>5, <2>6, <2>7, <2>8, BeginKeeps
<1>7. CASE CallTrace
  <2>1. PICK act \in {"ignore", "abort"} : Begin(Log(Traced) \o <<ActItem("traced", act)>>)
    BY <1>7 DEF CallTrace, ActItem
  <2> DEFINE a == ActItem("traced", act)  t == <<ManagerItem, h2, a>>  s == Stack(t)
  <2>2. a \in Items /\ a.do = "traced"
    BY <1>4 DEF Actions
  <2>3. Begin(t)
    BY <2>1, Lists DEF h2
  <2> HIDE DEF a
  <2>4. t \in Seq(Items) /\ t # <<>> /\ Head(t) = ManagerItem /\ Len(t) = 3 /\ t[1] = ManagerItem /\ t[2] = h2 /\ t[3] = a
    BY <1>2, <2>2
  <2>5. Len(s) = 3 /\ s[1] = a /\ s[2] = h2 /\ s[3] = ManagerItem
    BY <1>2, <1>3, <2>2, StackThree
  <2> HIDE DEF t
  <2> HIDE DEF s
  <2>6. D(s, 1) = "traced" /\ D(s, 2) = "has" /\ D(s, 3) = "manager" /\ \A h \in 1 .. Len(s) : h = 1 \/ h = 2 \/ h = 3
    BY <1>2, <2>2, <2>5 DEF D
  <2>7. Held(s, mgr, FALSE, FALSE, parts, syslogged)
    <3>1. Begun(s)
      BY <1>1, <1>2, <2>5, <2>6 DEF Begun, Top
    <3> QED
      BY <1>1, <3>1, HeldBegun, Zenon
  <2>8. Orderly(s)
    BY <2>5, <2>6 DEF Orderly, Pairs
  <2>9. Head(t).do \notin Special
    BY <1>2, <2>4 DEF Special
  <2>10. Held(Stack(t), mgr, FALSE, FALSE, parts, syslogged) /\ Orderly(Stack(t))
    BY <1>7, <2>3, <2>4, <2>7, <2>8, <2>9 DEF s
  <2>11. unwinding' \in BOOLEAN /\ upset' \in BOOLEAN /\ (~upset' => ~upset /\ unwinding' = unwinding)
    BY <1>1, <1>7 DEF CallTrace
  <2> QED
    BY <1>1, <1>7, <2>3, <2>4, <2>7, <2>8, <2>9, <2>10, <2>11, BeginKeeps
<1>8. CASE CallAssertion
  <2>1. PICK act \in Actions : Begin(Assertion(act))
    BY <1>8 DEF CallAssertion
  <2> DEFINE a == ActItem("assert", act)  t == <<ManagerItem, a>>  s == Stack(t)
  <2>2. a \in Items /\ a.do = "assert"
    BY <1>4
  <2>3. Begin(t)
    BY <2>1, Lists
  <2> HIDE DEF a
  <2>4. t \in Seq(Items) /\ t # <<>> /\ Head(t) = ManagerItem /\ Len(t) = 2 /\ t[1] = ManagerItem /\ t[2] = a
    BY <1>2, <2>2
  <2>5. Len(s) = 2 /\ s[1] = a /\ s[2] = ManagerItem
    BY <1>2, <1>3, <2>2, StackTwo
  <2> HIDE DEF t
  <2> HIDE DEF s
  <2>6. D(s, 1) = "assert" /\ D(s, 2) = "manager" /\ \A h \in 1 .. Len(s) : h = 1 \/ h = 2
    BY <1>2, <2>2, <2>5 DEF D
  <2>7. Held(s, mgr, FALSE, FALSE, parts, syslogged)
    <3>1. Begun(s)
      BY <1>1, <2>5, <2>6 DEF Begun, Top
    <3> QED
      BY <1>1, <3>1, HeldBegun, Zenon
  <2>8. Orderly(s)
    BY <2>5, <2>6 DEF Orderly, Pairs
  <2>9. Head(t).do \notin Special
    BY <1>2, <2>4 DEF Special
  <2>10. Held(Stack(t), mgr, FALSE, FALSE, parts, syslogged) /\ Orderly(Stack(t))
    BY <1>8, <2>3, <2>4, <2>7, <2>8, <2>9 DEF s
  <2>11. unwinding' \in BOOLEAN /\ upset' \in BOOLEAN /\ (~upset' => ~upset /\ unwinding' = unwinding)
    BY <1>1, <1>8 DEF CallAssertion
  <2> QED
    BY <1>1, <1>8, <2>3, <2>4, <2>7, <2>8, <2>9, <2>10, <2>11, BeginKeeps
<1>9. CASE CallInitSysLog
  <2> DEFINE t == <<ManagerItem>>  s == Stack(t)
  <2>1. Begin(t)
    BY <1>9, Lists DEF CallInitSysLog, ManagerItem, Item
  <2>2. t \in Seq(Items) /\ t # <<>> /\ Head(t) = ManagerItem /\ Len(t) = 1 /\ t[1] = ManagerItem
    BY <1>2
  <2>3. Len(s) = 1 /\ s[1] = ManagerItem
    BY <1>2, <1>3, <2>2, StackOne
  <2> HIDE DEF t
  <2> HIDE DEF s
  <2>4. D(s, 1) = "manager" /\ \A h \in 1 .. Len(s) : h = 1
    BY <1>2, <2>3 DEF D
  <2>5. Held(s, mgr, FALSE, FALSE, parts, syslogged)
    <3>1. Begun(s)
      BY <1>1, <2>3, <2>4 DEF Begun, Top
    <3> QED
      BY <1>1, <3>1, HeldBegun, Zenon
  <2>6. Orderly(s)
    BY <2>3, <2>4 DEF Orderly
  <2>7. Head(t).do \notin Special
    BY <1>2, <2>2 DEF Special
  <2>8. Held(Stack(t), mgr, FALSE, FALSE, parts, syslogged) /\ Orderly(Stack(t))
    BY <1>9, <2>1, <2>2, <2>5, <2>6, <2>7 DEF s
  <2>9. unwinding' \in BOOLEAN /\ upset' \in BOOLEAN /\ (~upset' => ~upset /\ unwinding' = unwinding)
    BY <1>1, <1>9 DEF CallInitSysLog
  <2> QED
    BY <1>1, <1>9, <2>1, <2>2, <2>5, <2>6, <2>7, <2>8, <2>9, BeginKeeps
<1>10. CASE CallCloseThreadSysLog
  <2> DEFINE t == <<ManagerItem, ca, cr, cs>>  s == Stack(t)
  <2>1. Begin(t) /\ mgr # "none"
    BY <1>10, Lists DEF CallCloseThreadSysLog, ManagerItem, Item, ca, cr, cs
  <2>2. t \in Seq(Items) /\ t # <<>> /\ Head(t) = ManagerItem /\ Len(t) = 4
        /\ t[1] = ManagerItem /\ t[2] = ca /\ t[3] = cr /\ t[4] = cs
    BY <1>2, <1>3
  <2>3. Len(s) = 4 /\ s[1] = cs /\ s[2] = cr /\ s[3] = ca /\ s[4] = ManagerItem
    BY <1>2, <1>3, <2>2, StackFour
  <2> HIDE DEF t
  <2> HIDE DEF s
  <2>4. /\ D(s, 1) = "closeStream" /\ D(s, 2) = "closeRoot" /\ D(s, 3) = "closeArray" /\ D(s, 4) = "manager"
        /\ \A h \in 1 .. Len(s) : h = 1 \/ h = 2 \/ h = 3 \/ h = 4
    BY <1>2, <1>3, <2>3 DEF D
  <2>5. Held(s, mgr, FALSE, FALSE, parts, syslogged)
    BY <1>1, <2>1, <2>3, <2>4, HeldClosing, Zenon
  <2>6. Orderly(s)
    BY <2>3, <2>4 DEF Orderly, Pairs
  <2>7. Head(t).do \notin Special
    BY <1>2, <2>2 DEF Special
  <2>8. Held(Stack(t), mgr, FALSE, FALSE, parts, syslogged) /\ Orderly(Stack(t))
    BY <1>10, <2>1, <2>2, <2>5, <2>6, <2>7 DEF s
  <2>9. unwinding' \in BOOLEAN /\ upset' \in BOOLEAN /\ (~upset' => ~upset /\ unwinding' = unwinding)
    BY <1>1, <1>10 DEF CallCloseThreadSysLog
  <2> QED
    BY <1>1, <1>10, <2>1, <2>2, <2>5, <2>6, <2>7, <2>8, <2>9, BeginKeeps
<1>11. CASE CallExit
  <2> DEFINE g == Item("gone")  t == <<ca, cr, cs, g>>  s == Stack(t)
  <2>1. Begin(t) /\ mgr # "none"
    BY <1>11, Lists DEF CallExit, ca, cr, cs
  <2>2. t \in Seq(Items) /\ t # <<>> /\ Head(t) = ca /\ Len(t) = 4 /\ t[1] = ca /\ t[2] = cr /\ t[3] = cs /\ t[4] = g
    BY <1>3
  <2>3. Len(s) = 4 /\ s[1] = g /\ s[2] = cs /\ s[3] = cr /\ s[4] = ca
    BY <1>2, <1>3, <2>2, StackFour
  <2> HIDE DEF t
  <2> HIDE DEF s
  <2>4. /\ D(s, 1) = "gone" /\ D(s, 2) = "closeStream" /\ D(s, 3) = "closeRoot" /\ D(s, 4) = "closeArray"
        /\ \A h \in 1 .. Len(s) : h = 1 \/ h = 2 \/ h = 3 \/ h = 4
    BY <1>3, <2>3 DEF D
  <2>5. Held(s, mgr, FALSE, FALSE, parts, syslogged)
    BY <1>1, <2>1, <2>3, <2>4, HeldClosing, Zenon
  <2>6. Orderly(s)
    BY <2>3, <2>4 DEF Orderly, Pairs
  <2>7. Head(t).do \notin Special
    BY <1>3, <2>2 DEF Special
  <2>8. Held(Stack(t), mgr, FALSE, FALSE, parts, syslogged) /\ Orderly(Stack(t))
    BY <1>11, <2>1, <2>2, <2>5, <2>6, <2>7 DEF s
  <2>9. unwinding' \in BOOLEAN /\ upset' \in BOOLEAN /\ (~upset' => ~upset /\ unwinding' = unwinding)
    BY <1>1, <1>11 DEF CallExit
  <2> QED
    BY <1>1, <1>11, <2>1, <2>2, <2>5, <2>6, <2>7, <2>8, <2>9, BeginKeeps
<1> QED
  BY <1>6, <1>7, <1>8, <1>9, <1>10, <1>11 DEF Call, CallLog, CallLogUnwinding

LEMMA CallOverKeeps ==
    ASSUME Idle, CallOver
    PROVE  Standing'
<1>1. /\ Held(Stack(todo), mgr, inAssert, FALSE, parts, syslogged) /\ (mgr = "none" => parts = {} /\ file = NoFile)
      /\ (~upset => Steady /\ file.json /\ ~unwinding /\ Orderly(Stack(todo)))
  BY IdleHere DEF Idle, Core
<1>2. (~unwinding => unwinding' = unwinding) /\ todo' = <<>> /\ exc' = FALSE /\ unwinding' = FALSE /\ UNCHANGED <<mgr, parts, file, inAssert, todo, syslogged, dead, upset>>
  BY DEF CallOver, Idle, LogTyped
<1>3. Held(Stack(todo'), mgr', inAssert', exc', parts', syslogged')
  BY <1>1, <1>2, Zenon
<1>4. LogTyped'
  BY <1>2 DEF Idle, LogTyped
<1>5. ~upset => Stage'
  <2>1. Upcoming' \notin Special
    BY <1>2 DEF Upcoming, Special
  <2> QED
    BY <1>1, <1>2, <2>1, SteadyStage
<1> QED
  BY <1>1, <1>2, <1>3, <1>4, <1>5 DEF Standing, Core

-----------------------------------------------------------------------------
(***************************************************************************)
(* The end of the program.                                                 *)
(***************************************************************************)

\* It ends where it is.
LEMMA DiesKeeps ==
    ASSUME Running, LogIsSound, NEW how \in {"astray", "terminate"}, Dies(how)
    PROVE  LogInv'
<1>1. dead' = how /\ UNCHANGED <<mgr, parts, file, inAssert, todo, exc, unwinding, syslogged, upset>>
  BY DEF Dies
<1>2. LogTyped'
  BY <1>1 DEF Running, LogTyped
<1>3. OneReportAtATime' /\ OneIsMade' /\ PartsTogether'
  BY <1>1 DEF LogIsSound, OneReportAtATime, OneIsMade, PartsTogether, Doing, Now, PartsAgree
<1>4. LogIsWhole'
  BY <1>1 DEF LogIsWhole
<1> QED
  BY <1>1, <1>2, <1>3, <1>4 DEF LogInv, LogIsSound, AbortTellsWhy

\* No report is under an abort, and what the report told is in the log.
LEMMA AbortEnds ==
    ASSUME Running, LogIsSound, ~exc, Now.do = "abort", Abort
    PROVE  LogInv'
<1> DEFINE s == Stack(todo)
<1>1. todo \in Seq(Items) /\ todo # <<>> /\ Len(s) \in Nat \ {0} /\ Top(s) = "abort"
      /\ Held(s, mgr, inAssert, FALSE, parts, syslogged) /\ (~upset => Stage) /\ Upcoming = "abort"
  BY Here DEF Running
<1>2. dead' = "abort" /\ inAssert' = FALSE /\ UNCHANGED <<mgr, parts, file, todo, exc, unwinding, syslogged, upset>>
  BY DEF Abort
<1>3. LogTyped'
  BY <1>2 DEF Running, LogTyped
<1>4. \A i \in DOMAIN todo : todo[i].do # "asserted"
  <2>1. \A h \in 1 .. Len(s) : D(s, h) # "asserted"
    BY <1>1 DEF Held, Reports, Top
  <2> QED
    BY <1>1, <2>1, StackAt
<1>5. Doing("asserted")' = {} /\ OneIsMade'
  BY <1>2, <1>4 DEF LogIsSound, OneIsMade, Doing
<1>6. OneReportAtATime'
  BY <1>2, <1>5, FS_EmptySet DEF OneReportAtATime
<1>7. PartsTogether' /\ LogIsWhole'
  BY <1>1, <1>2 DEF PartsTogether, LogIsWhole, Now, Upcoming
<1>8. \E i \in DOMAIN syslogged' : syslogged'[i] \in {"errorAssertion", "infoTrace"}
  <2>1. WhyLogged(syslogged)
    BY <1>1 DEF Held, Told, Top
  <2> QED
    BY <1>2, <2>1 DEF WhyLogged, Why
<1>9. parts' = {}
  <2>1. ~Above(s, Len(s), "closeStream") /\ Len(s) \in 1 .. Len(s)
    BY <1>1 DEF Above
  <2> QED
    BY <1>1, <1>2, <2>1 DEF Held, Remaining, Top
<1>10. ~upset' => file'.json /\ file'.nest = <<>>
  BY <1>1, <1>2 DEF Stage, Shut, Running, LogTyped
<1> QED
  BY <1>2, <1>3, <1>5, <1>6, <1>7, <1>8, <1>9, <1>10 DEF LogInv, LogIsSound, AbortTellsWhy

\* An exception would come out of the destructor of a part.
LEMMA CaughtEnds ==
    ASSUME Running, exc, Now.do = "end", Caught
    PROVE  LogInv'
<1> DEFINE s == Stack(todo)  s1 == Stack(todo')
<1>1. todo \in Seq(Items) /\ todo # <<>> /\ Len(s) \in Nat \ {0} /\ Top(s) = "end" /\ s[Len(s)] = Now /\ Now.part \in {"array", "root"}
      /\ Held(s, mgr, inAssert, exc, parts, syslogged)
  BY Here, Kinds DEF Running
<1>2. dead' = "terminate" /\ inAssert' = inAssert /\ todo' = Tail(todo) /\ UNCHANGED <<mgr, parts, file, exc, unwinding, syslogged, upset>>
  BY <1>1, Popped DEF Caught, Instead, Running, LogTyped
<1>3. todo' \in Seq(Items) /\ Fresh(s, s1, {})
  BY <1>1, <1>2, Popped, FreshPops
<1>4. LogTyped'
  BY <1>2, <1>3 DEF Running, LogTyped
<1>5. Reports(s1, inAssert') /\ Making(s1)
  <2>1. Reports(s, inAssert) /\ Making(s)
    BY <1>1 DEF Held, Structure
  <2>2. Reports(s1, inAssert) /\ Making(s1)
    BY <1>1, <1>3, <2>1, ReportsKept, MakingKept
  <2> QED
    BY <1>2, <2>2, Zenon
<1>6. OneReportAtATime' /\ OneIsMade'
  <2>1. (todo \in Seq(Items) /\ Reports(Stack(todo), inAssert) => OneReportAtATime)'
    BY OneReport, PTL
  <2>2. (todo \in Seq(Items) /\ Making(Stack(todo)) => OneIsMade)'
    BY OneMaking, PTL
  <2> QED
    BY <1>3, <1>5, <2>1, <2>2
<1>7. Tail(todo) # <<>> => Head(Tail(todo)).do \in {"closeRoot", "closeStream"}
  <2>1. Below(s, Len(s), IF Now.part = "array" THEN "closeRoot" ELSE "closeStream")
    BY <1>1 DEF Held, Structure, Shape, Top, D
  <2>2. D(s, Len(s) - 1) \in {"closeRoot", "closeStream"}
    BY <2>1 DEF Below
  <2> QED
    BY <1>1, <2>2, UnderTop
<1>8. PartsTogether' /\ LogIsWhole'
  BY <1>2, <1>7 DEF PartsTogether, LogIsWhole, Now
<1> QED
  BY <1>2, <1>4, <1>6, <1>8 DEF LogInv, LogIsSound, AbortTellsWhy

-----------------------------------------------------------------------------
(***************************************************************************)
(* The theorems.                                                           *)
(***************************************************************************)

LEMMA LogInvInit == InitLog => LogInv
<1> SUFFICES ASSUME InitLog PROVE LogInv
  OBVIOUS
<1>1. Len(Stack(todo)) = 0
  BY DEF InitLog, Stack
<1>2. \A h \in 1 .. Len(Stack(todo)) : FALSE
  BY <1>1
<1>3. LogTyped
  <2>1. file = [nest |-> <<>>, entries |-> <<>>, json |-> TRUE]
    BY DEF InitLog, NoFile
  <2>2. file \in [nest : {file.nest}, entries : Seq(Messages), json : BOOLEAN]
    BY <2>1
  <2>3. todo \in Seq(Items) /\ syslogged \in Seq(Messages) /\ parts \in SUBSET AllParts
    BY DEF InitLog
  <2>4. mgr \in {"none", "live", "gone"} /\ dead \in {"no", "abort", "terminate", "astray"}
    BY DEF InitLog
  <2>5. inAssert \in BOOLEAN /\ exc \in BOOLEAN /\ unwinding \in BOOLEAN /\ upset \in BOOLEAN
    BY DEF InitLog
  <2> QED
    BY <2>2, <2>3, <2>4, <2>5 DEF LogTyped
<1> DEFINE s == Stack(todo)
<1>4. Structure(s, mgr) /\ Orderly(s)
  BY <1>2 DEF Structure, TracedLast, Sheltered, Making, Shape, Asks, Orderly
<1>5. Reports(s, FALSE) /\ Stopped(s, FALSE) /\ Unmade(s, mgr, FALSE) /\ Remaining(s, {}) /\ Torn(s, {}) /\ Told(s, FALSE, syslogged)
  BY <1>1, <1>2 DEF Reports, Stopped, Unmade, Remaining, Torn, Told
<1>6. Held(s, mgr, inAssert, exc, parts, syslogged)
  BY <1>4, <1>5, Zenon DEF Held, InitLog
<1>7. Stage
  BY DEF InitLog, Stage, Steady, Open, Shut, AllParts, NoFile, Upcoming
<1>8. Core
  BY <1>4, <1>6, <1>7 DEF Core, InitLog
<1>9. LogIsSound
  BY <1>3, <1>8, CoreIsSound
<1> QED
  BY <1>3, <1>8, <1>9 DEF LogInv, AbortTellsWhy, InitLog

LEMMA LogInvNext == LogInv /\ [NextLog]_logVars => LogInv'
<1> SUFFICES ASSUME LogInv, [NextLog]_logVars PROVE LogInv'
  OBVIOUS
<1>1. (LogTyped /\ Core => LogIsSound)'
  BY CoreIsSound, PTL
<1>2. Standing' /\ dead' = "no" => LogInv'
  BY <1>1 DEF Standing, LogInv, AbortTellsWhy
<1>3. CASE UNCHANGED logVars
  <2>1. UNCHANGED <<mgr, parts, file, inAssert, todo, exc, unwinding, syslogged, dead, upset>>
    BY <1>3 DEF logVars
  <2>2. LogTyped' = LogTyped /\ Core' = Core /\ LogIsSound' = LogIsSound /\ AbortTellsWhy' = AbortTellsWhy
    <3>1. LogTyped' = LogTyped
      BY <2>1 DEF LogTyped
    <3>2. Stage' = Stage
      BY <2>1 DEF Stage, Steady, Open, Shut, Upcoming, Now
    <3>3. Core' = Core
      BY <2>1, <3>2 DEF Core
    <3>4. LogIsSound' = LogIsSound
      BY <2>1 DEF LogIsSound, OneReportAtATime, OneIsMade, PartsTogether, LogIsWhole, Doing, Now, PartsAgree
    <3>5. AbortTellsWhy' = AbortTellsWhy
      BY <2>1 DEF AbortTellsWhy
    <3> QED
      BY <3>1, <3>3, <3>4, <3>5
  <2> QED
    BY <2>1, <2>2 DEF LogInv
<1>4. CASE NextLog
  <2>1. dead = "no" /\ LogTyped /\ Core /\ LogIsSound
    BY <1>4 DEF NextLog, LogInv
  <2>2. CASE Call
    <3>1. Idle /\ dead' = "no"
      BY <2>1, <2>2 DEF Idle, Call, CallLog, CallLogUnwinding, CallTrace, CallAssertion, CallInitSysLog, CallCloseThreadSysLog, CallExit, Begin
    <3> QED
      BY <1>2, <2>2, <3>1, CallKeeps
  <2>3. CASE CallOver
    <3>1. Idle /\ dead' = "no"
      BY <2>1, <2>3 DEF Idle, CallOver
    <3> QED
      BY <1>2, <2>3, <3>1, CallOverKeeps
  <2>4. CASE Step /\ exc
    <3>1. Running /\ Caught
      BY <2>1, <2>4 DEF Running, Step
    <3>2. CASE Now.do = "end"
      BY <2>4, <3>1, <3>2, CaughtEnds
    <3>3. CASE Now.do # "end"
      <4>1. dead' = "no"
        BY <2>1, <3>1, <3>3 DEF Caught
      <4> QED
        BY <1>2, <2>4, <3>1, <3>3, <4>1, CaughtKeeps
    <3> QED
      BY <3>2, <3>3
  <2>5. CASE Step /\ ~exc
    <3>1. Running /\ Now \in Items
      BY <2>1, <2>5, Here DEF Running, Step
    <3>2. CASE Now.do = "manager"
      <4>1. Manager
        BY <2>5, <3>2 DEF Step
      <4>2. CASE mgr = "gone"
        BY <2>1, <3>1, <4>1, <4>2, DiesKeeps DEF Manager
      <4>3. CASE mgr # "gone"
        <5>1. dead' = "no"
          BY <2>1, <4>1, <4>3 DEF Manager, Same
        <5> QED
          BY <1>2, <2>5, <3>1, <3>2, <4>1, <4>3, <5>1, ManagerKeeps
      <4> QED
        BY <4>2, <4>3
    <3>3. CASE Now.do = "create"
      <4>1. Create
        BY <2>5, <3>3 DEF Step
      <4>2. dead' = "no"
        BY <2>1, <4>1 DEF Create
      <4> QED
        BY <1>2, <2>5, <3>1, <3>3, <4>1, <4>2, CreateKeeps
    <3>4. CASE Now.do = "created"
      <4>1. Instead(<<>>) /\ Same
        BY <2>5, <3>4 DEF Step
      <4>2. dead' = "no"
        BY <2>1, <4>1 DEF Same
      <4> QED
        BY <1>2, <2>5, <3>1, <3>4, <4>1, <4>2, CreatedKeeps
    <3>5. CASE Now.do = "has"
      <4>1. HasFile
        BY <2>5, <3>5 DEF Step
      <4>2. dead' = "no"
        BY <2>1, <4>1 DEF HasFile, Same
      <4> QED
        BY <1>2, <2>5, <3>1, <3>5, <4>1, <4>2, HasFileKeeps
    <3>6. CASE Now.do = "write"
      <4>1. Write
        BY <2>5, <3>6 DEF Step
      <4>2. dead' = "no"
        BY <2>1, <4>1 DEF Write
      <4> QED
        BY <1>2, <2>5, <3>1, <3>6, <4>1, <4>2, WriteKeeps
    <3>7. CASE Now.do = "entry"
      <4>1. Entry
        BY <2>5, <3>7 DEF Step
      <4>2. dead' = "no"
        BY <2>1, <4>1 DEF Entry
      <4> QED
        BY <1>2, <2>5, <3>1, <3>7, <4>1, <4>2, EntryKeeps
    <3>8. CASE Now.do = "closeArray"
      <4>1. ResetPart("array")
        BY <2>5, <3>8 DEF Step
      <4>2. dead' = "no"
        BY <2>1, <4>1 DEF ResetPart
      <4> QED
        BY <1>2, <2>5, <3>1, <3>8, <4>1, <4>2, ResetPartKeeps
    <3>9. CASE Now.do = "closeRoot"
      <4>1. ResetPart("root")
        BY <2>5, <3>9 DEF Step
      <4>2. dead' = "no"
        BY <2>1, <4>1 DEF ResetPart
      <4> QED
        BY <1>2, <2>5, <3>1, <3>9, <4>1, <4>2, ResetPartKeeps
    <3>10. CASE Now.do = "closeStream"
      <4>1. ResetStream
        BY <2>5, <3>10 DEF Step
      <4>2. dead' = "no"
        BY <2>1, <4>1 DEF ResetStream
      <4> QED
        BY <1>2, <2>5, <3>1, <3>10, <4>1, <4>2, ResetStreamKeeps
    <3>11. CASE Now.do = "end"
      <4>1. EndPart
        BY <2>5, <3>11 DEF Step
      <4>2. CASE dead' = "no"
        BY <1>2, <2>5, <3>1, <3>11, <4>1, <4>2, EndPartKeeps
      <4>3. CASE dead' # "no"
        <5>1. Dies("terminate")
          BY <2>1, <4>1, <4>3 DEF EndPart
        <5> QED
          BY <2>1, <3>1, <5>1, DiesKeeps
      <4> QED
        BY <4>2, <4>3
    <3>12. CASE Now.do = "assert"
      <4>1. Assert_
        BY <2>5, <3>12 DEF Step
      <4>2. dead' = "no"
        BY <2>1, <4>1 DEF Assert_
      <4> QED
        BY <1>2, <2>5, <3>1, <3>12, <4>1, <4>2, AssertKeeps
    <3>13. CASE Now.do = "asserted"
      <4>1. Asserted
        BY <2>5, <3>13 DEF Step
      <4>2. dead' = "no"
        BY <2>1, <4>1 DEF Asserted
      <4> QED
        BY <1>2, <2>5, <3>1, <3>13, <4>1, <4>2, AssertedKeeps
    <3>14. CASE Now.do = "traced"
      <4>1. TraceLogged
        BY <2>5, <3>14 DEF Step
      <4>2. dead' = "no"
        BY <2>1, <4>1 DEF TraceLogged, Same
      <4> QED
        BY <1>2, <2>5, <3>1, <3>14, <4>1, <4>2, TraceLoggedKeeps
    <3>15. CASE Now.do = "gone"
      <4>1. Gone
        BY <2>5, <3>15 DEF Step
      <4>2. dead' = "no"
        BY <2>1, <4>1 DEF Gone
      <4> QED
        BY <1>2, <2>5, <3>1, <3>15, <4>1, <4>2, GoneKeeps
    <3>16. CASE Now.do = "abort"
      <4>1. Abort
        BY <2>5, <3>16 DEF Step
      <4> QED
        BY <2>1, <2>5, <3>1, <3>16, <4>1, AbortEnds
    <3> QED
      BY <3>1, <3>2, <3>3, <3>4, <3>5, <3>6, <3>7, <3>8, <3>9, <3>10, <3>11, <3>12, <3>13, <3>14, <3>15, <3>16, Kinds
  <2> QED
    BY <1>4, <2>2, <2>3, <2>4, <2>5 DEF NextLog
<1> QED
  BY <1>3, <1>4

\* The inductive invariant of a thread's log, whatever fails and whether or not a
\* client logs after its manager is gone.
THEOREM LogInvariance == SpecLog => []LogInv
BY LogInvInit, LogInvNext, PTL DEF SpecLog

\* One manager is made, one assertion is reported at a time and lets go of its
\* flag, the parts of the file agree where a message asks for them, and the file
\* is whole between calls (RGetThreadSysLogMgr, FSetInAssertOrVerify,
\* FHasJSONLogFile, CloseSysLogFile).
THEOREM LogStaysSound == SpecLog => []LogIsSound
<1>1. LogInv => LogIsSound
  BY DEF LogInv
<1> QED
  BY <1>1, LogInvariance, PTL

\* A program that aborts over an assertion or a trace has logged why, and has let
\* go of its file, which is complete if nothing went wrong while it was written
\* (AssertVerify_LogMessage).
THEOREM AbortsTellWhy == SpecLog => []AbortTellsWhy
<1>1. LogInv => AbortTellsWhy
  BY DEF LogInv
<1> QED
  BY <1>1, LogInvariance, PTL
=============================================================================
