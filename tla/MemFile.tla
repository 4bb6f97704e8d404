------------------------------ MODULE MemFile ------------------------------
(***************************************************************************)
(* memfile.h in a multithreaded build: MemStreams of several threads on    *)
(* one MemFile, whose SegArray is guarded by a mutex.  Each thread has a   *)
(* stream of its own.  A write makes room and then copies chunk after      *)
(* chunk, while other threads go on; a stream moves its position after the *)
(* file has let go of the mutex.  Apply walks the array without the mutex. *)
(***************************************************************************)
EXTENDS SegArrayOps

CONSTANTS
    Threads,        \* the threads, each with one stream
    Values,         \* the bytes
    SegSize,        \* NElsPerSegment of the file
    MaxEnd,         \* bound: the size of the file and the largest position
    MaxTransfer,    \* bound: the length of a transfer
    Careful,        \* the client applies only while no call writes, and the other way round
    Nobody          \* the mutex is free

ASSUME MemFileAssumption ==
    /\ ~OwnLifetime
    /\ SegSize \in Nat \ {0} /\ MaxEnd \in Nat /\ MaxTransfer \in Nat
    /\ Careful \in BOOLEAN /\ Nobody \notin Threads
    /\ Null \notin [0..SegSize-1 -> Values \cup {Raw}]

VARIABLES
    rgsImpl,    \* m_rgsImpl
    posCur,     \* m_posCur of each stream
    mtx,        \* who holds m_mtx
    pc,         \* where each thread is
    op,         \* the call it is in
    nDone,      \* elements transferred so far by that call
    out,        \* the bytes it was given
    ret,        \* what the MemFile's call returned
    committed,  \* history: the file as the last holder of the mutex left it
    seen        \* history: the files there were since the thread began to read

vars == <<rgsImpl, posCur, mtx, pc, op, nDone, out, ret, committed, seen>>

NoCall == [kind |-> "none"]

Bulk == UNION {[1..k -> Values] : k \in 1..MaxTransfer}

Requests ==
    [kind : {"write", "writeNoExcept"}, vals : Bulk]
    \cup [kind : {"read", "apply"}, len : 1..MaxTransfer]
    \cup [kind : {"seek"}, off : -1..MaxEnd]
    \cup [kind : {"seekCur"}, off : {-1, 1}]
    \cup [kind : {"seekEnd"}, off : {-1, 0}]

Writes == {"write", "writeNoExcept"}
Reads == {"read", "apply"}

TypeOK ==
    /\ rgsImpl.n \in 0..MaxEnd /\ rgsImpl.per = SegSize
    /\ rgsImpl.seg \in [0..rgsImpl.blocks-1 -> [0..SegSize-1 -> Values \cup {Raw}] \cup {Null}]
    /\ posCur \in [Threads -> 0..MaxEnd]
    /\ mtx \in Threads \cup {Nobody}
    /\ pc \in [Threads -> {"idle", "lock", "room", "copy", "unlock", "walk", "return"}]
    /\ \A t \in Threads : op[t] = NoCall \/ op[t] \in Requests

Init ==
    /\ rgsImpl = Empty(SegSize)
    /\ posCur = [t \in Threads |-> 0]
    /\ mtx = Nobody
    /\ pc = [t \in Threads |-> "idle"]
    /\ op = [t \in Threads |-> NoCall]
    /\ nDone = [t \in Threads |-> 0]
    /\ out = [t \in Threads |-> <<>>]
    /\ ret = [t \in Threads |-> 0]
    /\ committed = <<>>
    /\ seen = [t \in Threads |-> {}]

Goto(t, label) == pc' = [pc EXCEPT ![t] = label]

\* Nothing in the code keeps the one from going on while the other does.
Excludes(k, l) == "apply" \in {k, l} /\ {k, l} \cap Writes # {}

\* A stream on this file is called; Apply takes its range from the client.
Call(t) ==
    /\ pc[t] = "idle"
    /\ \E c \in Requests :
        /\ Careful => \A u \in Threads : ~Excludes(c.kind, op[u].kind)
        /\ c.kind \in Writes => posCur[t] + Len(c.vals) <= MaxEnd
        /\ c.kind = "apply" => posCur[t] + c.len <= rgsImpl.n
        /\ c.kind = "seekCur" => posCur[t] + c.off <= MaxEnd
        /\ op' = [op EXCEPT ![t] = c]
        /\ Goto(t, IF c.kind \in {"seek", "seekCur"} THEN "return"
                   ELSE IF c.kind = "apply" THEN "walk" ELSE "lock")
        /\ ret' = [ret EXCEPT ![t] =
                CASE c.kind = "seek" -> c.off
                  [] c.kind = "seekCur" -> posCur[t] + c.off
                  [] OTHER -> 0]
    /\ nDone' = [nDone EXCEPT ![t] = 0]
    /\ out' = [out EXCEPT ![t] = <<>>]
    /\ seen' = [seen EXCEPT ![t] = IF op'[t].kind \in Reads THEN {committed} ELSE {}]
    /\ UNCHANGED <<rgsImpl, posCur, mtx, committed>>

LockAnyway(t) ==
    /\ pc[t] = "lock"
    /\ mtx' = t
    /\ Goto(t, IF op[t].kind \in Writes THEN "room" ELSE "copy")
    /\ UNCHANGED <<rgsImpl, posCur, op, nDone, out, ret, committed, seen>>

\* _tyLock lock; LockMutex( lock ).
Lock(t) ==
    /\ pc[t] = "lock"
    /\ mtx = Nobody
    /\ mtx' = t
    /\ Goto(t, IF op[t].kind \in Writes THEN "room" ELSE "copy")
    /\ UNCHANGED <<rgsImpl, posCur, op, nDone, out, ret, committed, seen>>

MakeRoomKeepsLock(t) ==
    /\ pc[t] = "room"
    /\ \E o \in Room(rgsImpl, posCur[t] + Len(op[t].vals)) :
        /\ rgsImpl' = o.sa
        /\ IF o.res = "ok" THEN Goto(t, "copy") /\ UNCHANGED ret
           ELSE Goto(t, "return") /\ ret' = [ret EXCEPT ![t] = -1]
    /\ UNCHANGED <<posCur, mtx, op, nDone, out, committed, seen>>

\* Overwrite: room for the whole transfer first; without memory, back to the caller.
MakeRoom(t) ==
    /\ pc[t] = "room"
    /\ \E o \in Room(rgsImpl, posCur[t] + Len(op[t].vals)) :
        /\ rgsImpl' = o.sa
        /\ IF o.res = "ok" THEN Goto(t, "copy") /\ UNCHANGED ret
           ELSE Goto(t, "unlock") /\ ret' = [ret EXCEPT ![t] = -1]
    /\ UNCHANGED <<posCur, mtx, op, nDone, out, committed, seen>>

CopyChunkFromFront(t) ==
    /\ pc[t] = "copy" /\ op[t].kind \in Writes
    /\ nDone[t] < Len(op[t].vals)
    /\ LET end == posCur[t] + Len(op[t].vals) - nDone[t]
           len == Lesser(Len(op[t].vals) - nDone[t], BackOff(SegSize, end))
       IN /\ rgsImpl' = Store(rgsImpl, end - len, SubSeq(op[t].vals, nDone[t] + 1, nDone[t] + len))
          /\ nDone' = [nDone EXCEPT ![t] = @ + len]
    /\ UNCHANGED <<posCur, mtx, pc, op, out, ret, committed, seen>>

\* The next chunk of a write, from the back.
CopyChunk(t) ==
    /\ pc[t] = "copy" /\ op[t].kind \in Writes
    /\ nDone[t] < Len(op[t].vals)
    /\ LET end == posCur[t] + Len(op[t].vals) - nDone[t]
           last == Len(op[t].vals) - nDone[t]
           len == Lesser(last, BackOff(SegSize, end))
       IN /\ rgsImpl' = Store(rgsImpl, end - len, SubSeq(op[t].vals, last - len + 1, last))
          /\ nDone' = [nDone EXCEPT ![t] = @ + len]
    /\ UNCHANGED <<posCur, mtx, pc, op, out, ret, committed, seen>>

WriteDone(t) ==
    /\ pc[t] = "copy" /\ op[t].kind \in Writes
    /\ nDone[t] = Len(op[t].vals)
    /\ ret' = [ret EXCEPT ![t] = Len(op[t].vals)]
    /\ Goto(t, "unlock")
    /\ UNCHANGED <<rgsImpl, posCur, mtx, op, nDone, out, committed, seen>>

\* The range of a read is fixed first, then its chunks are copied from the back.
ReadChunk(t) ==
    /\ pc[t] = "copy" /\ op[t].kind = "read"
    /\ LET n == rgsImpl.n
           len == IF posCur[t] >= n THEN 0 ELSE Lesser(op[t].len, n - posCur[t])
           end == posCur[t] + len - nDone[t]
           chunk == Lesser(len - nDone[t], BackOff(SegSize, end))
       IN IF nDone[t] < len
          THEN /\ out' = [out EXCEPT ![t] = Load(rgsImpl, end - chunk, chunk) \o @]
               /\ nDone' = [nDone EXCEPT ![t] = @ + chunk]
               /\ UNCHANGED <<pc, ret>>
          ELSE /\ ret' = [ret EXCEPT ![t] = len]
               /\ Goto(t, "unlock")
               /\ UNCHANGED <<out, nDone>>
    /\ UNCHANGED <<rgsImpl, posCur, mtx, op, committed, seen>>

\* GetEndPos, from which vkSeekEnd counts.
EndPos(t) ==
    /\ pc[t] = "copy" /\ op[t].kind = "seekEnd"
    /\ ret' = [ret EXCEPT ![t] = rgsImpl.n + op[t].off]
    /\ Goto(t, "unlock")
    /\ UNCHANGED <<rgsImpl, posCur, mtx, op, nDone, out, committed, seen>>

\* The lock goes out of scope: what is in the array now is the file.
Unlock(t) ==
    /\ pc[t] = "unlock"
    /\ mtx' = Nobody
    /\ Goto(t, "return")
    /\ committed' = Elements(rgsImpl)
    /\ seen' = [u \in Threads |-> IF seen[u] = {} THEN {} ELSE seen[u] \cup {Elements(rgsImpl)}]
    /\ UNCHANGED <<rgsImpl, posCur, op, nDone, out, ret>>

\* Apply hands on one contiguous piece after the other, without the mutex.
WalkPiece(t) ==
    /\ pc[t] = "walk"
    /\ nDone[t] < op[t].len
    /\ LET at == posCur[t] + nDone[t]
           len == Lesser(op[t].len - nDone[t], SegSize - (at % SegSize))
       IN /\ out' = [out EXCEPT ![t] = @ \o Load(rgsImpl, at, len)]
          /\ nDone' = [nDone EXCEPT ![t] = @ + len]
    /\ UNCHANGED <<rgsImpl, posCur, mtx, pc, op, ret, committed, seen>>

WalkDone(t) ==
    /\ pc[t] = "walk"
    /\ nDone[t] = op[t].len
    /\ Goto(t, "return")
    /\ UNCHANGED <<rgsImpl, posCur, mtx, op, nDone, out, ret, committed, seen>>

NextPositionNegative(t) ==
    IF op[t].kind \in {"seek", "seekCur", "seekEnd"} THEN ret[t] ELSE posCur[t] + ret[t]

\* Where the stream's call leaves its position: a negative one is refused.
NextPosition(t) ==
    IF op[t].kind \in {"seek", "seekCur", "seekEnd"} THEN IF ret[t] < 0 THEN posCur[t] ELSE ret[t]
    ELSE IF ret[t] = -1 THEN posCur[t]
    ELSE posCur[t] + ret[t]

Return(t) ==
    /\ pc[t] = "return"
    /\ posCur' = [posCur EXCEPT ![t] = NextPosition(t)]
    /\ op' = [op EXCEPT ![t] = NoCall]
    /\ Goto(t, "idle")
    /\ nDone' = [nDone EXCEPT ![t] = 0]
    /\ out' = [out EXCEPT ![t] = <<>>]
    /\ ret' = [ret EXCEPT ![t] = 0]
    /\ seen' = [seen EXCEPT ![t] = {}]
    /\ UNCHANGED <<rgsImpl, mtx, committed>>

Next ==
    \E t \in Threads :
        Call(t) \/ Lock(t) \/ MakeRoom(t) \/ CopyChunk(t) \/ WriteDone(t) \/ ReadChunk(t)
        \/ EndPos(t) \/ Unlock(t) \/ WalkPiece(t) \/ WalkDone(t) \/ Return(t)

Spec == Init /\ [][Next]_vars

(***************************************************************************)
(* Properties                                                              *)
(***************************************************************************)

\* What a finished call was given is a piece of one file that existed while the
\* call was made, never a mixture of two.
OneFileSeen ==
    \A t \in Threads : pc[t] = "return" /\ op[t].kind \in Reads =>
        \E f \in seen[t] : out[t] = SubSeq(f, posCur[t] + 1, Lesser(posCur[t] + op[t].len, Len(f)))

\* Calls keep the sizes of the file and of its segments, and a call of a stream
\* sees one file.
StreamsSeeOneFile == TypeOK /\ OneFileSeen

\* Whoever changes or reads the array under the mutex is alone with it, and
\* nobody leaves it half-written: a free mutex means that the file is committed.
MutexGuardsArray ==
    /\ \A t \in Threads : pc[t] \in {"room", "copy", "unlock"} <=> mtx = t
    /\ mtx = Nobody => Elements(rgsImpl) = committed

\* Streams on a MemFile behave like streams on a file whose calls are atomic.
Atomic == INSTANCE AtomicFile WITH
    NoResult <- NoCall,
    file <- committed,
    pos <- [t \in Threads |-> IF pc[t] = "return" THEN NextPosition(t) ELSE posCur[t]],
    last <- [t \in Threads |->
                IF pc[t] = "return" THEN [op |-> op[t], ret |-> ret[t], out |-> out[t]] ELSE NoCall]

ImplementsAtomicFile == Atomic!Spec
=============================================================================
