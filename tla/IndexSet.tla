------------------------------ MODULE IndexSet ------------------------------
(***************************************************************************)
(* What a set of indices promises: a set of numbers below size.  op is the *)
(* last operation with its argument, ret what it answered.                 *)
(***************************************************************************)
EXTENDS Integers, FiniteSets, FiniteSetsExt

CONSTANTS Bound,    \* no set holds a number beyond this
          Nothing   \* the answer when there is no number to give

VARIABLES set, size, op, ret

vars == <<set, size, op, ret>>

All == 0 .. size - 1
Least(S) == IF S = {} THEN Nothing ELSE Min(S)
Greatest(S) == IF S = {} THEN Nothing ELSE Max(S)

Init == set = {} /\ size \in 0 .. Bound + 1 /\ op = <<"Init">> /\ ret = Nothing

Becomes(S, r) == set' = S /\ size' = size /\ ret' = r

Insert(x) == x \in All \ set /\ Becomes(set \cup {x}, Nothing)
CheckInsert(x) == x \in All /\ Becomes(set \cup {x}, x \notin set)
Delete(x) == x \in set /\ Becomes(set \ {x}, Nothing)
CheckDelete(x) == x \in All /\ Becomes(set \ {x}, x \in set)
TakeAfter(x) == LET y == Least({z \in set : z > x}) IN Becomes(set \ {y}, y)
TakeBefore(x) == LET y == Greatest({z \in set : z < x}) IN Becomes(set \ {y}, y)
Truncate(x) == LET S == {y \in set : y <= x} IN Becomes(S, S = {})
Resize(n) == size' = n /\ set' = {x \in set : x < n} /\ ret' = Nothing

\* The set as a binary number, plus one, without the carry.
Successor == IF set = All THEN {}
             ELSE LET free == Min(All \ set) IN {x \in set : x > free} \cup {free}

Next ==
    CASE op'[1] = "Init" -> FALSE
      [] op'[1] = "Insert" -> Insert(op'[2])
      [] op'[1] = "CheckInsert" -> CheckInsert(op'[2])
      [] op'[1] = "Delete" -> Delete(op'[2])
      [] op'[1] = "CheckDelete" -> CheckDelete(op'[2])
      [] op'[1] = "TakeAfter" -> TakeAfter(op'[2])
      [] op'[1] = "TakeBefore" -> TakeBefore(op'[2])
      [] op'[1] = "Truncate" -> Truncate(op'[2])
      [] op'[1] = "Resize" -> Resize(op'[2])
      [] op'[1] = "Fill" -> Becomes(All, Nothing)
      [] op'[1] = "Clear" -> Becomes({}, Nothing)
      [] op'[1] = "Invert" -> Becomes(All \ set, Nothing)
      [] op'[1] = "Or" -> Becomes(set \cup op'[2], Nothing)
      [] op'[1] = "And" -> Becomes(set \cap op'[2], Nothing)
      [] op'[1] = "Count" -> Becomes(Successor, Nothing)
      [] op'[1] = "Up" -> Becomes({x + op'[2] : x \in set} \cap All, Nothing)
      [] op'[1] = "Down" -> Becomes({x - op'[2] : x \in set} \cap All, Nothing)
      [] op'[1] = "Xor" -> Becomes((set \ op'[2]) \cup (op'[2] \ set), Nothing)

Spec == Init /\ [][Next]_vars
=============================================================================
