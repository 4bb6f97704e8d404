----------------------------- MODULE ValueCells -----------------------------
(***************************************************************************)
(* What handles that copy on write promise: each has a value of its own,   *)
(* as if the objects behind them were not shared.                          *)
(***************************************************************************)
CONSTANTS Handles, Values, Null, NoHandle

VARIABLE cell

Init == cell = [x \in Handles |-> NoHandle]

\* A handle is made, destroyed, made to hold nothing, or given a value: one of
\* its own choice, or another handle's.
Change == \E x \in Handles, v \in Values \cup {Null, NoHandle} : cell' = [cell EXCEPT ![x] = v]

Exchange == \E x, y \in Handles : cell' = [cell EXCEPT ![x] = cell[y], ![y] = cell[x]]

Next == Change \/ Exchange

Spec == Init /\ [][Next]_cell
=============================================================================
