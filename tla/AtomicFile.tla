----------------------------- MODULE AtomicFile -----------------------------
(***************************************************************************)
(* What MemFile promises its streams: a file, and a position per stream.   *)
(* Each call is one step, which leaves its arguments and its result in     *)
(* "last" until it returns; a write that finds no memory leaves the file   *)
(* as it was.                                                              *)
(***************************************************************************)
EXTENDS Integers, Sequences

CONSTANTS Threads, NoResult

VARIABLES file,     \* the bytes of the file
          pos,      \* the position of each thread's stream
          last      \* the call of each thread that has been made, with its result

vars == <<file, pos, last>>

Init ==
    /\ file = <<>>
    /\ pos = [t \in Threads |-> 0]
    /\ last = [t \in Threads |-> NoResult]

\* The file with vals written at p; a gap before p holds anything.
Written(p, vals) ==
    /\ Len(file') = IF p + Len(vals) > Len(file) THEN p + Len(vals) ELSE Len(file)
    /\ \A i \in 1..Len(file') :
        IF i \in p+1..p+Len(vals) THEN file'[i] = vals[i - p]
        ELSE i <= Len(file) => file'[i] = file[i]

Write(t, c, ret) ==
    \/ ret = -1 /\ UNCHANGED <<file, pos>>
    \/ ret = Len(c.vals) /\ Written(pos[t], c.vals) /\ pos' = [pos EXCEPT ![t] = @ + ret]

Read(t, c, ret, out) ==
    /\ out = SubSeq(file, pos[t] + 1, IF pos[t] + c.len < Len(file) THEN pos[t] + c.len ELSE Len(file))
    /\ ret = Len(out)
    /\ pos' = [pos EXCEPT ![t] = @ + ret]
    /\ UNCHANGED file

Apply(t, c, out) ==
    /\ out = SubSeq(file, pos[t] + 1, pos[t] + c.len)
    /\ UNCHANGED <<file, pos>>

\* A position below zero is refused.
Seek(t, c, whence) ==
    /\ pos' = [pos EXCEPT ![t] = IF whence + c.off < 0 THEN @ ELSE whence + c.off]
    /\ UNCHANGED file

Make(t) ==
    LET c == last'[t].op  ret == last'[t].ret IN
    /\ last[t] = NoResult
    /\ \A u \in Threads \ {t} : last'[u] = last[u]
    /\ CASE c.kind \in {"write", "writeNoExcept"} -> Write(t, c, ret)
         [] c.kind = "read" -> Read(t, c, ret, last'[t].out)
         [] c.kind = "apply" -> Apply(t, c, last'[t].out)
         [] c.kind = "seek" -> Seek(t, c, 0)
         [] c.kind = "seekCur" -> Seek(t, c, pos[t])
         [] c.kind = "seekEnd" -> Seek(t, c, Len(file))

Return(t) ==
    /\ last[t] # NoResult
    /\ last' = [last EXCEPT ![t] = NoResult]
    /\ UNCHANGED <<file, pos>>

Next == \E t \in Threads : IF last'[t] = NoResult THEN Return(t) ELSE Make(t)

Spec == Init /\ [][Next]_vars
=============================================================================
