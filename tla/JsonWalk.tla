------------------------------ MODULE JsonWalk -------------------------------
(***************************************************************************)
(* What a JsonReadCursor promises: a walk over the tree of a document.  The *)
(* walk has a trail of places, one a level, of which the client is at one;  *)
(* a place is where a value starts, or End after the last element of an     *)
(* aggregate.  Going up leaves the trail, so that going down returns to     *)
(* it; going on to the next element cuts it.                               *)
(***************************************************************************)
EXTENDS Integers, Sequences

CONSTANT End

VARIABLES nodes,  \* the values of the document, by place
          good,   \* the text is JSON; of one that is not, nothing is promised
          trail,  \* the place at each level, from the root
          level,  \* the level the client is at
          ret     \* what the last operation returned

vars == <<nodes, good, trail, level, ret>>

AtEnd == trail[level] = End
Here == nodes[trail[level]]
Parent == nodes[trail[level - 1]]
Index == CHOOSE k \in DOMAIN Parent.kids : Parent.kids[k] = trail[level]
AtAggregate == ~AtEnd /\ Here.jvt \in {"array", "object"}
Elements(node) == Append(node.kids, End)

Init == good => Len(trail) = 1 /\ trail[1] \in DOMAIN nodes /\ level = 1 /\ ret = <<"attached">>

MoveDown ==
    /\ level' = IF AtAggregate THEN level + 1 ELSE level
    /\ trail' = IF AtAggregate /\ level = Len(trail) THEN Append(trail, Elements(Here)[1]) ELSE trail
    /\ ret' = <<"down", AtAggregate>>

MoveUp ==
    /\ level' = IF level > 1 THEN level - 1 ELSE level
    /\ trail' = trail /\ ret' = <<"up", level > 1>>

MoveTo == level' \in DOMAIN trail /\ trail' = trail /\ ret' = <<"restored">>

NextElement ==
    /\ level' = level
    /\ IF level = 1 \/ AtEnd
       THEN trail' = trail /\ ret' = <<"next", IF level = 1 THEN "throws" ELSE "end">>
       ELSE LET next == Elements(Parent)[Index + 1]
            IN  /\ trail' = Append(SubSeq(trail, 1, level - 1), next)
                /\ ret' = <<"next", IF next = End THEN "end" ELSE "element">>

GetValue ==
    /\ UNCHANGED <<level, trail>>
    /\ ret' = <<"value", IF AtEnd THEN "end" ELSE Here.jvt, IF AtEnd THEN <<>> ELSE Here.val>>

GetKey ==
    /\ UNCHANGED <<level, trail>>
    /\ ret' = CASE AtEnd -> <<"key", "end", <<>>>>
                [] ~AtEnd /\ level > 1 /\ Parent.jvt = "object" -> <<"key", "is", Parent.keys[Index]>>
                [] OTHER -> <<"key", "throws", <<>>>>

Skip == UNCHANGED <<level, trail>> /\ ret' = <<"skipped">>

Next == /\ UNCHANGED <<nodes, good>>
        /\ ~good \/ MoveDown \/ MoveUp \/ MoveTo \/ NextElement \/ GetValue \/ GetKey \/ Skip

Spec == Init /\ [][Next]_vars
=============================================================================
