----------------------------- MODULE SharedPtr -----------------------------
(***************************************************************************)
(* The intrusive pointers of shared_obj.h.  An object counts the SharedPtrs*)
(* that point to it and has one itself, to the next object, so that        *)
(* destroying it may destroy others.  Threads have pointers of their own   *)
(* and share objects; a call is a stack of what the thread has yet to do,  *)
(* and a step is one thing that another thread can notice, or a destructor *)
(* that may throw.                                                         *)
(***************************************************************************)
EXTENDS Integers, Sequences, FiniteSets

CONSTANTS
    Threads, Locals,    \* the threads; the pointers each has: [Threads -> SUBSET names]
    Objects,            \* the objects that may be made; the name of one is that of its pointer too
    Null,
    DtorMayThrow,       \* the destructor of the objects may throw: not s_kfDtorNoExcept
    DtorAllowThrow,     \* s_kfDtorAllowThrow
    CtorMayThrow,
    Careful             \* a client assigns no pointer that clearing the target would change

VARIABLES
    ptr,    \* m_pt of each pointer, the objects' own among them
    count,  \* m_nRefCount
    life,   \* of an object: "none", "alive", "dying", "destroyed" or "freed"
    todo,   \* what each thread has yet to do in its call, first things first
    exc,    \* how many exceptions each has in flight
    broken  \* a freed object was touched, or an exception met a noexcept or another one

vars == <<ptr, count, life, todo, exc, broken>>

LocalsOf == UNION {Locals[t] : t \in Threads}
Pointers == LocalsOf \cup Objects

Init ==
    /\ ptr = [p \in Pointers |-> Null]
    /\ count = [o \in Objects |-> 0]
    /\ life = [o \in Objects |-> "none"]
    /\ todo = [t \in Threads |-> <<>>]
    /\ exc = [t \in Threads |-> 0]
    /\ broken = FALSE

Idle(t) == todo[t] = <<>>

\* What can be read: a local pointer, or one in an object whose memory is there.
There(p) == p \in Objects => life[p] \in {"alive", "dying"}

RECURSIVE ReachedFrom(_)
\* The objects one gets to from an object or Null.
ReachedFrom(o) == IF o = Null THEN {} ELSE {o} \cup ReachedFrom(ptr[o])

\* The pointers a thread gets to.
Sees(t) == Locals[t] \cup UNION {ReachedFrom(ptr[p]) : p \in Locals[t]}

\* Thread t gets to q by no other way than p, so that clearing p may clear or free it.
OnlyThrough(t, p, q) == q \notin (Locals[t] \ {p}) \cup UNION {ReachedFrom(ptr[r]) : r \in Locals[t] \ {p}}

Begin(t, things) == todo' = [todo EXCEPT ![t] = things] /\ UNCHANGED <<ptr, count, life, exc, broken>>

\* What a thread does now, and what becomes of its list.
Now(t) == Head(todo[t])
Instead(t, things) == todo' = [todo EXCEPT ![t] = things \o Tail(@)]

(***************************************************************************)
(* The calls                                                               *)
(***************************************************************************)

ThenClear(p) == [do |-> "clear", at |-> p]

CallClear(t, p) == Begin(t, <<ThenClear(p)>>)

\* No other thread gets to q: one that does might read it while it is moved from.
Own(t, q) == \A u \in Threads \ {t} : q \notin Sees(u)

\* operator=( SharedPtr const & ), and of a pointer to a derived class.  The copy
\* constructor is the same without anything to clear.
CallCopyAssign(t, p, q) ==
    /\ Careful => ~OnlyThrough(t, p, q)
    /\ Begin(t, <<ThenClear(p), [do |-> "copy", at |-> p, from |-> q, was |-> ptr[q]]>>)

\* operator=( SharedPtr && ) and the move constructors.
CallMoveAssign(t, p, q) ==
    /\ Own(t, q)
    /\ Careful => ~OnlyThrough(t, p, q)
    /\ Begin(t, <<ThenClear(p), [do |-> "take", at |-> p, from |-> q, was |-> ptr[q]]>>)

\* emplace, emplaceDerived and in-place construction of an object that is given q.
CallEmplace(t, p, q) ==
    /\ Careful => ~OnlyThrough(t, p, q)
    /\ Begin(t, <<ThenClear(p), [do |-> "construct", at |-> p, from |-> q, was |-> ptr[q]]>>)

CallSwap(t, p, q) ==
    /\ ptr' = [ptr EXCEPT ![p] = ptr[q], ![q] = ptr[p]]
    /\ UNCHANGED <<count, life, todo, exc, broken>>

\* A pointer of a thread that waits is copied for another one.
CallHandOver(t, p, u, q) ==
    /\ Idle(u) /\ ptr[p] = Null /\ ptr[q] # Null
    /\ ptr' = [ptr EXCEPT ![p] = ptr[q]]
    /\ count' = [count EXCEPT ![ptr[q]] = @ + 1]
    /\ UNCHANGED <<life, todo, exc, broken>>

Call(t) ==
    /\ Idle(t)
    /\ \E p \in Locals[t] :
        \/ CallClear(t, p)
        \/ \E q \in Sees(t) : CallCopyAssign(t, p, q) \/ CallMoveAssign(t, p, q) \/ CallEmplace(t, p, q)
        \/ \E q \in Locals[t] \ {p} : CallSwap(t, p, q)
        \/ \E u \in Threads \ {t} : \E q \in Locals[u] : CallHandOver(t, p, u, q)

(***************************************************************************)
(* The steps of a call                                                     *)
(***************************************************************************)

Breaks == broken' = TRUE /\ UNCHANGED <<ptr, count, life, todo, exc>>

ClearLate(t) ==
    LET p == Now(t).at IN
    IF ~There(p) THEN Breaks
    ELSE /\ ptr' = ptr
         /\ Instead(t, IF ptr[p] = Null THEN <<>> ELSE <<[do |-> "release", obj |-> ptr[p]]>>)
         /\ UNCHANGED <<count, life, exc, broken>>

\* Forgets the object before it lets go of it.
Clear(t) ==
    LET p == Now(t).at IN
    IF ~There(p) THEN Breaks
    ELSE /\ ptr' = [ptr EXCEPT ![p] = Null]
         /\ Instead(t, IF ptr[p] = Null THEN <<>> ELSE <<[do |-> "release", obj |-> ptr[p]]>>)
         /\ UNCHANGED <<count, life, exc, broken>>

ThenDelete(t, o) == [do |-> "delete", obj |-> o, swallow |-> ~DtorAllowThrow \/ exc[t] > 0]

ReleaseEarly(t) ==
    LET o == Now(t).obj IN
    IF life[o] = "freed" THEN Breaks
    ELSE /\ count' = [count EXCEPT ![o] = @ - 1]
         /\ Instead(t, IF count[o] = 2 THEN <<ThenDelete(t, o)>> ELSE <<>>)
         /\ UNCHANGED <<ptr, life, exc, broken>>

\* The count goes down and is looked at in one.
Release(t) ==
    LET o == Now(t).obj IN
    IF life[o] = "freed" THEN Breaks
    ELSE /\ count' = [count EXCEPT ![o] = @ - 1]
         /\ Instead(t, IF count[o] = 1 THEN <<ThenDelete(t, o)>> ELSE <<>>)
         /\ UNCHANGED <<ptr, life, exc, broken>>

\* _DeleteSelf: the destructor, which may throw and then destroys the object's
\* pointer all the same; then the memory goes.
DeleteSelf(t) ==
    LET o == Now(t).obj
        rest == <<ThenClear(o), [do |-> "end", obj |-> o],
                  [do |-> "free", obj |-> o, swallow |-> Now(t).swallow, before |-> exc[t]]>>
    IN IF life[o] # "alive" THEN Breaks
       ELSE /\ life' = [life EXCEPT ![o] = "dying"]
            /\ Instead(t, rest)
            /\ \/ exc' = exc
               \/ DtorMayThrow /\ exc' = [exc EXCEPT ![t] = @ + 1]
            /\ UNCHANGED <<ptr, count, broken>>

End(t) ==
    /\ life' = [life EXCEPT ![Now(t).obj] = "destroyed"]
    /\ Instead(t, <<>>)
    /\ UNCHANGED <<ptr, count, exc, broken>>

UnwoundToTop(things) == <<>>
\* What an exception leaves of a thread's list: the destructors it runs through.
Unwound(things) == SelectSeq(things, LAMBDA x : x.do \in {"clear", "end", "free"})

FreeRethrows(t) ==
    LET x == Now(t)
        thrown == exc[t] > x.before
    IN /\ life' = [life EXCEPT ![x.obj] = "freed"]
       /\ IF thrown THEN todo' = [todo EXCEPT ![t] = Unwound(Tail(@))] ELSE Instead(t, <<>>)
       /\ broken' = (thrown /\ x.before > 0)
       /\ UNCHANGED <<ptr, count, exc>>

\* The catch in _DeleteSelf: the exception goes on, unless there was one before it
\* or none may leave.
Free(t) ==
    LET x == Now(t)
        thrown == exc[t] > x.before
        goesOn == thrown /\ ~x.swallow
    IN /\ life' = [life EXCEPT ![x.obj] = "freed"]
       /\ IF goesOn THEN todo' = [todo EXCEPT ![t] = Unwound(Tail(@))] ELSE Instead(t, <<>>)
       /\ exc' = [exc EXCEPT ![t] = IF goesOn THEN @ ELSE x.before]
       /\ broken' = (goesOn /\ (x.before > 0 \/ ~DtorAllowThrow))
       /\ UNCHANGED <<ptr, count>>

Counted(o) == [count EXCEPT ![o] = @ + 1]

\* The rest of a copy assignment: nothing to do if the source is empty.
Copy(t) ==
    LET x == Now(t) IN
    IF ~There(x.from) \/ (ptr[x.from] # Null /\ life[ptr[x.from]] = "freed") THEN Breaks
    ELSE /\ ptr' = IF ptr[x.from] = Null THEN ptr ELSE [ptr EXCEPT ![x.at] = ptr[x.from]]
         /\ count' = IF ptr[x.from] = Null THEN count ELSE Counted(ptr[x.from])
         /\ Instead(t, <<>>)
         /\ UNCHANGED <<life, exc, broken>>

\* The rest of a move assignment: swaps with what Clear left empty.
Take(t) ==
    LET x == Now(t) IN
    IF ~There(x.from) THEN Breaks
    ELSE /\ ptr' = [ptr EXCEPT ![x.at] = ptr[x.from], ![x.from] = ptr[x.at]]
         /\ Instead(t, <<>>)
         /\ UNCHANGED <<count, life, exc, broken>>

ConstructUncounted(t) ==
    LET x == Now(t) IN
    /\ Instead(t, <<>>)
    /\ \E o \in Objects :
        /\ life[o] = "none"
        /\ life' = [life EXCEPT ![o] = "alive"]
        /\ ptr' = [ptr EXCEPT ![o] = ptr[x.from], ![x.at] = o]
        /\ count' = IF ptr[x.from] = Null THEN count ELSE Counted(ptr[x.from])
    /\ UNCHANGED <<exc, broken>>

\* A new object, which copies the pointer it is given; if its constructor throws,
\* the pointer stays empty.
Construct(t) ==
    LET x == Now(t) IN
    IF ~There(x.from) THEN Breaks
    ELSE /\ Instead(t, <<>>)
         /\ \/ CtorMayThrow /\ exc' = [exc EXCEPT ![t] = @ + 1] /\ UNCHANGED <<ptr, count, life>>
            \/ \E o \in Objects :
                /\ life[o] = "none"
                /\ life' = [life EXCEPT ![o] = "alive"]
                /\ ptr' = [ptr EXCEPT ![o] = ptr[x.from], ![x.at] = o]
                /\ count' = IF ptr[x.from] = Null THEN [count EXCEPT ![o] = 1] ELSE [Counted(ptr[x.from]) EXCEPT ![o] = 1]
                /\ exc' = exc
         /\ UNCHANGED broken

\* The client catches what a call throws.
Caught(t) ==
    /\ Idle(t) /\ exc[t] > 0
    /\ exc' = [exc EXCEPT ![t] = 0]
    /\ UNCHANGED <<ptr, count, life, todo, broken>>

Step(t) ==
    /\ ~Idle(t)
    /\ CASE Now(t).do = "clear" -> Clear(t)
         [] Now(t).do = "release" -> Release(t)
         [] Now(t).do = "delete" -> DeleteSelf(t)
         [] Now(t).do = "end" -> End(t)
         [] Now(t).do = "free" -> Free(t)
         [] Now(t).do = "copy" -> Copy(t)
         [] Now(t).do = "take" -> Take(t)
         [] OTHER -> Construct(t)

Next == ~broken /\ \E t \in Threads : (exc[t] = 0 /\ Call(t)) \/ Step(t) \/ Caught(t)

Spec == Init /\ [][Next]_vars

(***************************************************************************)
(* Properties                                                              *)
(***************************************************************************)

\* A count is that of the pointers to the object, and of the releases that a
\* thread has begun, whatever thread and whatever dying object they are in.
References(o) ==
    Cardinality({p \in Pointers : ptr[p] = o})
    + Cardinality({<<t, i>> \in Threads \X (1..8) : i \in DOMAIN todo[t] /\ todo[t][i].do = "release" /\ todo[t][i].obj = o})
CountsReferences == ~broken => \A o \in Objects : life[o] # "none" => count[o] = References(o)

\* No thread reads or counts in an object that has been freed, none is destroyed
\* twice, and no second exception leaves a destructor that runs for a first one.
NothingBreaks == ~broken

\* When every thread is done, the objects that live are those one can get to: an
\* exception on the way leaves none behind.
NothingForgotten ==
    (~broken /\ \A t \in Threads : Idle(t)) =>
        {o \in Objects : life[o] \notin {"none", "freed"}} = UNION {ReachedFrom(ptr[p]) : p \in LocalsOf}

\* What a call reads after it has cleared its target is what was there before.
SourceSurvivesClear ==
    ~broken => \A t \in Threads : \A i \in DOMAIN todo[t] :
        todo[t][i].do \in {"copy", "take", "construct"} => There(todo[t][i].from) /\ ptr[todo[t][i].from] = todo[t][i].was

\* The four above.
PointersAreSound ==
    CountsReferences /\ NothingBreaks /\ NothingForgotten /\ SourceSurvivesClear

IntrusiveLifetime == INSTANCE SharedLifetime WITH
    Blocks <- Objects,
    mem <- [o \in Objects |-> IF life[o] = "none" THEN "unused" ELSE IF life[o] = "freed" THEN "freed" ELSE "allocated"],
    obj <- [o \in Objects |-> IF life[o] = "none" THEN "none" ELSE IF life[o] \in {"alive", "dying"} THEN "constructed" ELSE "destroyed"],
    owned <- [o \in Objects |-> References(o) > 0],
    watched <- [o \in Objects |-> life[o] \in {"alive", "dying", "destroyed"}]

\* The pointers keep the promise of the shared and weak ones, whose weak half an
\* object has in its own memory.
IntrusiveImplementsLifetime == IntrusiveLifetime!SafeSpec
=============================================================================
