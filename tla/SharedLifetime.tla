--------------------------- MODULE SharedLifetime ---------------------------
(***************************************************************************)
(* What the shared/weak pointers of _shwkptr.h promise, with the counters  *)
(* and the threads left out.  One memory block holds one object T; the     *)
(* block is allocated once and the object constructed at most once, with   *)
(* the block.  The object stays constructed as long as somebody owns it,   *)
(* is destroyed once nobody does, and can never be owned again; the block  *)
(* stays allocated as long as somebody refers to it (an owner or a weak    *)
(* pointer) and is given back once nobody does.  SharedWeakPtr implements  *)
(* this module.                                                            *)
(***************************************************************************)
CONSTANT Blocks     \* the memory blocks (containers) that may be created

VARIABLES mem,      \* mem[b]: "unused", "allocated" or "freed"
          obj,      \* obj[b]: the T in b is "none", "constructed" or "destroyed"
          owned,    \* owned[b]: somebody owns the object in b
          watched   \* watched[b]: somebody refers to block b

vars == <<mem, obj, owned, watched>>

Init ==
    /\ mem = [b \in Blocks |-> "unused"]
    /\ obj = [b \in Blocks |-> "none"]
    /\ owned = [b \in Blocks |-> FALSE]
    /\ watched = [b \in Blocks |-> FALSE]

\* A block comes into being with its object, or for weak pointers only.
Create(b) ==
    /\ mem[b] = "unused"
    /\ mem' = [mem EXCEPT ![b] = "allocated"]
    /\ watched' = [watched EXCEPT ![b] = TRUE]
    /\ \/ /\ obj' = [obj EXCEPT ![b] = "constructed"]
          /\ owned' = [owned EXCEPT ![b] = TRUE]
       \/ UNCHANGED <<obj, owned>>

\* The last owner lets go: from here on nobody can own the object again.
Disown(b) ==
    /\ owned[b]
    /\ owned' = [owned EXCEPT ![b] = FALSE]
    /\ UNCHANGED <<mem, obj, watched>>

Destroy(b) ==
    /\ obj[b] = "constructed"
    /\ ~owned[b]
    /\ obj' = [obj EXCEPT ![b] = "destroyed"]
    /\ UNCHANGED <<mem, owned, watched>>

\* The last reference of any kind goes, never before the object is destroyed.
Unwatch(b) ==
    /\ watched[b]
    /\ obj[b] # "constructed"
    /\ watched' = [watched EXCEPT ![b] = FALSE]
    /\ UNCHANGED <<mem, obj, owned>>

Free(b) ==
    /\ mem[b] = "allocated"
    /\ ~watched[b]
    /\ mem' = [mem EXCEPT ![b] = "freed"]
    /\ UNCHANGED <<obj, owned, watched>>

\* Both in one, where nobody watches a block but the object that is in it.
UnwatchAndFree(b) ==
    /\ mem[b] = "allocated" /\ watched[b]
    /\ obj[b] # "constructed"
    /\ mem' = [mem EXCEPT ![b] = "freed"]
    /\ watched' = [watched EXCEPT ![b] = FALSE]
    /\ UNCHANGED <<obj, owned>>

Next ==
    \E b \in Blocks : Create(b) \/ Disown(b) \/ Destroy(b) \/ Unwatch(b) \/ Free(b) \/ UnwatchAndFree(b)

\* A release that was started runs to its end.
Fairness == \A b \in Blocks : WF_vars(Destroy(b)) /\ WF_vars(Free(b))

SafeSpec == Init /\ [][Next]_vars

Spec == SafeSpec /\ Fairness
=============================================================================
