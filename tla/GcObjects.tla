----------------------------- MODULE GcObjects -----------------------------
(***************************************************************************)
(* The reference-counted objects of _garcoll.h and their two handles: a    *)
(* _gcp may hold nothing, a _gcr always holds an object.  The count is     *)
(* atomic; each handle is used by one thread.  When handles copy on write, *)
(* access to the element of an object that is shared makes a copy first,   *)
(* which takes several steps: _DoCopy looks at the count, copies, lets go  *)
(* of the object, and then asserts that somebody else still holds it.      *)
(*                                                                         *)
(* Elements hold no handles.  What a template cannot be instantiated with  *)
(* is not in the model: copy() const allocates with m_alloc, so handles    *)
(* that copy on write, and virtual objects, need an allocator whose        *)
(* allocate() is const; and the element of a "member" object is made       *)
(* either of nothing or of an argument and the allocator, both of which    *)
(* give it one of Values.                                                  *)
(***************************************************************************)
EXTENDS Integers, FiniteSets

CONSTANTS
    Ptrs, Refs,     \* the handles: _gcp and _gcr
    Owner,          \* the thread that uses a handle
    Objects,        \* the memory that objects are made in
    Values,
    Null,           \* a _gcp that holds nothing
    NoHandle,       \* a handle that is not constructed
    Careful,        \* neither _gcr() nor SetObject() is called, and elements of virtual
                    \* objects are made without an exception
    Locked          \* a client's lock keeps other threads from an object being copied

ASSUME GcAssumption ==
    /\ IsFiniteSet(Ptrs) /\ IsFiniteSet(Refs) /\ Ptrs \cap Refs = {}
    /\ DOMAIN Owner = Ptrs \cup Refs
    /\ Null \notin Objects \cup Values /\ NoHandle \notin Objects \cup {Null}

Handles == Ptrs \cup Refs
Threads == {Owner[x] : x \in Handles}

\* _gco with the element as a member or in embedded store, _gcop_derived and _gcop_derivedv
GcoKinds == {"member", "store", "derived", "virtual"}

VARIABLES
    kind, cow,      \* t_TyGCO and t_fCopyOnWrite
    held,           \* m_pgco of the handles
    ref, val,       \* of the objects; 0 and Null where none is constructed
    busy,           \* what a thread is at, within an access that copies
    bad             \* "no", or what went wrong

vars == <<kind, cow, held, ref, val, busy, bad>>

Idle == [at |-> "none"]

Init ==
    /\ kind \in GcoKinds /\ cow \in BOOLEAN
    /\ kind = "derived" => ~cow     \* _gcop_base cannot be copied
    /\ held = [x \in Handles |-> NoHandle]
    /\ ref = [o \in Objects |-> 0] /\ val = [o \in Objects |-> Null]
    /\ busy = [t \in Threads |-> Idle] /\ bad = "no"

Live == {o \in Objects : val[o] # Null}
Made(x) == held[x] # NoHandle
Holds(x) == held[x] \in Objects
Ready(x) == bad = "no" /\ busy[Owner[x]].at = "none"

\* What a thread has in hand besides its handles.
InHand(t) == IF busy[t].at = "none" THEN {} ELSE {busy[t].old, busy[t].new, busy[t].from}
Fresh == {o \in Objects \ Live : \A t \in Threads : o \notin InHand(t)}
Untouched(x, o) == Locked => \A t \in Threads \ {Owner[x]} : o \notin InHand(t)

(***************************************************************************)
(* The handles.                                                            *)
(***************************************************************************)
Counted(r, o, n) == IF o \in Objects THEN [r EXCEPT ![o] = @ + n] ELSE r

\* _Release() of what x holds, then n more references to object o: the last
\* reference destroys the object.
ReleaseAndAdd(x, o, n) ==
    /\ Holds(x) => Untouched(x, held[x])
    /\ ref' = Counted(Counted(ref, held[x], -1), o, n)
    /\ val' = IF Holds(x) /\ ref[held[x]] = 1 THEN [val EXCEPT ![held[x]] = Null] ELSE val

\* An element that throws when it is made takes the memory with it, and nothing
\* has happened; but the base of a virtual object asserts that nobody refers to
\* it when it is destroyed, as it then is, with its maker's reference.
Thrown == IF Careful \/ kind # "virtual" THEN {"no"} ELSE {"no", "element threw"}

\* Constructors from an element, PGCOCreate..., Create(), CreateGct().  An object
\* comes with one reference, for its maker, and _gcr() adds another.
Create(x) ==
    /\ Ready(x)
    /\ \/ \E o \in Fresh, v \in Values, n \in IF Careful \/ Made(x) \/ x \in Ptrs THEN {1} ELSE {1, 2} :
            /\ Holds(x) => Untouched(x, held[x])
            /\ ref' = Counted(Counted(ref, o, n), held[x], -1)
            /\ val' = [e \in Objects |-> IF e = o THEN v ELSE IF e = held[x] /\ ref[e] = 1 THEN Null ELSE val[e]]
            /\ held' = [held EXCEPT ![x] = o]
            /\ bad' = "no"
       \/ bad' \in Thrown /\ UNCHANGED <<held, ref, val>>
    /\ UNCHANGED <<kind, cow, busy>>

Empty(p) ==
    /\ Ready(p) /\ ~Made(p)
    /\ held' = [held EXCEPT ![p] = Null]
    /\ UNCHANGED <<kind, cow, ref, val, busy, bad>>

CopyConstructUncounted(x, y) ==
    /\ Ready(x) /\ Ready(y) /\ ~Made(x) /\ Made(y)
    /\ x \in Refs => Holds(y)
    /\ held' = [held EXCEPT ![x] = held[y]]
    /\ ref' = IF x \in Ptrs /\ y \in Refs THEN ref ELSE Counted(ref, held[y], 1)
    /\ UNCHANGED <<kind, cow, val, busy, bad>>

\* y may be another thread's, which does not use it meanwhile.
CopyConstruct(x, y) ==
    /\ Ready(x) /\ Ready(y) /\ ~Made(x) /\ Made(y)
    /\ x \in Refs => Holds(y)
    /\ held' = [held EXCEPT ![x] = held[y]]
    /\ ref' = Counted(ref, held[y], 1)
    /\ UNCHANGED <<kind, cow, val, busy, bad>>

\* ~_gcp() and ~_gcr(), and Release() of a _gcp.
Drop(x, to) ==
    /\ Ready(x) /\ Made(x)
    /\ to = Null => x \in Ptrs
    /\ ReleaseAndAdd(x, Null, 0)
    /\ held' = [held EXCEPT ![x] = to]
    /\ UNCHANGED <<kind, cow, busy, bad>>

\* A _gcp takes the object of another handle, unless it has it (_SetEqual);
\* SetObject() of a _gcr takes it without a reference of its own.
Assign(x, y) ==
    /\ Ready(x) /\ Ready(y) /\ Made(x) /\ Made(y)
    /\ x \in Refs => ~Careful /\ Holds(y)
    /\ IF x \in Ptrs /\ held[x] = held[y] THEN UNCHANGED <<ref, val>>
       ELSE ReleaseAndAdd(x, held[y], IF x \in Ptrs THEN 1 ELSE 0)
    /\ held' = [held EXCEPT ![x] = held[y]]
    /\ UNCHANGED <<kind, cow, busy, bad>>

Swap(x, y) ==
    /\ Ready(x) /\ Ready(y) /\ Made(x) /\ Made(y) /\ Owner[x] = Owner[y]
    /\ x # y /\ (x \in Ptrs <=> y \in Ptrs)
    /\ held' = [held EXCEPT ![x] = held[y], ![y] = held[x]]
    /\ UNCHANGED <<kind, cow, ref, val, busy, bad>>

(***************************************************************************)
(* Access to the element, to write value v, or that of object from: a _gcr *)
(* is assigned the element of another handle.                              *)
(***************************************************************************)
At(t, pc) == bad = "no" /\ busy[t].at = pc
Goes(t, pc) == busy' = [busy EXCEPT ![t].at = pc]

SharedByMany(o) == cow /\ ref[o] > 2
Shared(o) == cow /\ ref[o] > 1

\* _CopyOnWrite looks at the count.
Access(x, v, from) ==
    /\ Ready(x) /\ Holds(x) /\ Untouched(x, held[x])
    /\ busy' = [busy EXCEPT ![Owner[x]] =
                    [at |-> IF Shared(held[x]) THEN "copy" ELSE "write",
                     on |-> x, old |-> held[x], new |-> Null, v |-> v, from |-> from]]
    /\ UNCHANGED <<kind, cow, held, ref, val, bad>>

\* copy() of the object: when there is no memory, or the element throws, the
\* handle keeps what it has.
Copy(t) ==
    /\ At(t, "copy")
    /\ \/ \E o \in Fresh :
            /\ ref' = [ref EXCEPT ![o] = 1] /\ val' = [val EXCEPT ![o] = val[busy[t].old]]
            /\ busy' = [busy EXCEPT ![t].at = "let go", ![t].new = o]
            /\ bad' = "no"
       \/ busy' = [busy EXCEPT ![t] = Idle] /\ bad' \in Thrown /\ UNCHANGED <<ref, val>>
    /\ UNCHANGED <<kind, cow, held>>

\* The handle takes the copy and lets go of the object, which it leaves to
\* the others to destroy.
LetGo(t) ==
    /\ At(t, "let go")
    /\ held' = [held EXCEPT ![busy[t].on] = busy[t].new]
    /\ ref' = [ref EXCEPT ![busy[t].old] = @ - 1]
    /\ busy' = [busy EXCEPT ![t].at = "look", ![t].new = Null]
    /\ UNCHANGED <<kind, cow, val, bad>>

\* Assert( pgco->m_ref )
Look(t) ==
    /\ At(t, "look")
    /\ bad' = CASE busy[t].old \notin Live -> "freed" [] ref[busy[t].old] = 0 -> "assert" [] OTHER -> "no"
    /\ Goes(t, "write")
    /\ UNCHANGED <<kind, cow, held, ref, val>>

Write(t) ==
    /\ At(t, "write")
    /\ val' = [val EXCEPT ![held[busy[t].on]] =
                    IF busy[t].from \in Objects THEN val[busy[t].from] ELSE busy[t].v]
    /\ bad' = IF busy[t].from \in Objects \ Live THEN "freed" ELSE "no"
    /\ busy' = [busy EXCEPT ![t] = Idle]
    /\ UNCHANGED <<kind, cow, held, ref>>

Next ==
    \/ \E x \in Handles : Create(x)
    \/ \E x \in Handles, to \in {Null, NoHandle} : Drop(x, to)
    \/ \E p \in Ptrs : Empty(p)
    \/ \E x, y \in Handles : CopyConstruct(x, y) \/ Assign(x, y) \/ Swap(x, y)
    \/ \E x \in Handles, v \in Values : Access(x, v, Null)
    \/ \E r \in Refs, y \in Handles : Ready(y) /\ Owner[y] = Owner[r] /\ Holds(y) /\ Access(r, Null, held[y])
    \/ \E t \in Threads : Copy(t) \/ LetGo(t) \/ Look(t) \/ Write(t)

Spec == Init /\ [][Next]_vars

-----------------------------------------------------------------------------

\* The count of an object is the number of handles that hold it, and of
\* threads that have made it and not yet put it in a handle.
ReferencesAreCounted ==
    bad = "no" => \A o \in Live :
        ref[o] = Cardinality({x \in Handles : held[x] = o}) + Cardinality({t \in Threads : o \in InHand(t) /\ busy[t].new = o})

\* No handle holds an object that is destroyed, and every object that nobody
\* holds is.
HeldWhileNeeded ==
    /\ \A x \in Handles : Holds(x) => held[x] \in Live
    /\ bad = "no" => \A o \in Live : ref[o] > 0

\* _DoCopy asserts that the object it let go of is still referred to.
CopyLeavesReference == bad # "assert"

\* No thread looks at an object that is destroyed, and no assertion fails.
NothingGoesAstray == bad = "no"

\* The above: counts, lifetimes, and no thread astray.
ObjectsAreSound == ReferencesAreCounted /\ HeldWhileNeeded /\ NothingGoesAstray

\* A handle that copies on write is a value: what is written through it is
\* seen through no other handle, and a failed copy changes nothing.
Cells == INSTANCE ValueCells WITH
    cell <- [x \in Handles |-> IF ~cow THEN NoHandle ELSE IF Holds(x) THEN val[held[x]] ELSE held[x]]

CopyOnWriteIsByValue == Cells!Spec
=============================================================================
