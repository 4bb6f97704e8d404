------------------------------- MODULE SysLog -------------------------------
(***************************************************************************)
(* A thread's log manager (syslogmgr.h, syslogmgr.inl) and the assertions  *)
(* that report through it.  The manager is made by the first message, and  *)
(* opens a JSON log file; to say so it logs a message itself, as does an   *)
(* assertion that fails inside it, so that calls nest.  todo is the stack  *)
(* of what the thread has yet to do, first things first.                   *)
(*                                                                         *)
(* Managers are thread_local: threads share the system's log only, and the *)
(* defaults, which are written before there are other threads.             *)
(***************************************************************************)
EXTENDS Integers, Sequences, FiniteSets

CONSTANTS
    MaxCalls,       \* bound: the calls a client makes
    MaxFailures,    \* bound: how often something fails below those calls
    StopsAtExit     \* a client logs nothing after the manager is destroyed

VARIABLES
    mgr,        \* "none", "live" or "gone": s_tls_pThis, which is not reset
    parts,      \* which of the stream, the root and the array the manager has
    file,       \* the JSON log file: what is open in it, its entries, and whether it is JSON
    inAssert,   \* m_fInAssertOrVerify
    todo,       \* what the thread has yet to do
    exc,        \* an exception runs through todo
    unwinding,  \* the client makes this call from a destructor that an exception runs through
    syslogged,  \* the messages of the system's log
    dead,       \* how the program ended: "no", "abort", "terminate" or "astray"
    upset,      \* history: an assertion failed or something was thrown while the file was written
    calls, failures

logVars == <<mgr, parts, file, inAssert, todo, exc, unwinding, syslogged, dead, upset, calls, failures>>

AllParts == {"stream", "root", "array"}
NoFile == [nest |-> <<>>, entries |-> <<>>, json |-> TRUE]
Actions == {"ignore", "throw", "abort"}

\* What is logged.
PlainMessage == "info"
CreatedMessage == "infoCreated"
FailedMessage == "warningNotCreated"
Traced == "infoTrace"
AssertionMessage == "errorAssertion"

InitLog ==
    /\ mgr = "none" /\ parts = {} /\ file = NoFile
    /\ inAssert = FALSE /\ todo = <<>> /\ exc = FALSE /\ unwinding = FALSE
    /\ syslogged = <<>> /\ dead = "no" /\ upset = FALSE
    /\ calls = 0 /\ failures = 0

Do(x) == <<[do |-> x]>>
Now == Head(todo)
Instead(things) == todo' = things \o Tail(todo)

\* n_SysLog::Log and StaticLog: every call asks for the manager first.
Log(m) == Do("manager") \o <<[do |-> "has", msg |-> m]>>
\* AssertVerify_LogMessage
Assertion(act) == Do("manager") \o <<[do |-> "assert", act |-> act]>>

CloseRootFirst == Do("closeRoot") \o Do("closeArray") \o Do("closeStream")
\* CloseSysLogFile: the parts go in the order their destructors would.
Close == Do("closeArray") \o Do("closeRoot") \o Do("closeStream")

(***************************************************************************)
(* The calls                                                               *)
(***************************************************************************)

Begin(things) ==
    /\ todo' = things
    /\ calls' = calls + 1
    /\ UNCHANGED <<mgr, parts, file, inAssert, exc, syslogged, dead, failures>>

CallLog == Begin(Log(PlainMessage)) /\ UNCHANGED <<unwinding, upset>>
\* From a destructor, on the way of an exception.
CallLogUnwinding == Begin(Log(PlainMessage)) /\ unwinding' = TRUE /\ upset' = TRUE
CallTrace == \E act \in {"ignore", "abort"} : Begin(Log(Traced) \o <<[do |-> "traced", act |-> act]>>) /\ UNCHANGED <<unwinding, upset>>
CallAssertion == \E act \in Actions : Begin(Assertion(act)) /\ UNCHANGED <<unwinding, upset>>
CallInitSysLog == Begin(Do("manager")) /\ UNCHANGED <<unwinding, upset>>
\* Closes the file, if the manager is there; it will not open another.
CallCloseThreadSysLog == mgr # "none" /\ Begin(Do("manager") \o Close) /\ UNCHANGED <<unwinding, upset>>
\* The thread's objects are destroyed, the manager among them.
CallExit == mgr = "live" /\ Begin(Close \o Do("gone")) /\ UNCHANGED <<unwinding, upset>>

Call ==
    /\ todo = <<>> /\ ~exc /\ ~unwinding /\ calls < MaxCalls
    /\ StopsAtExit => mgr # "gone"
    /\ CallLog \/ CallLogUnwinding \/ CallTrace \/ CallAssertion \/ CallInitSysLog \/ CallCloseThreadSysLog \/ CallExit

(***************************************************************************)
(* What goes wrong                                                         *)
(***************************************************************************)

\* Something below throws: an allocation, a write, a conversion.
Throw ==
    /\ failures < MaxFailures
    /\ exc' = TRUE /\ failures' = failures + 1
    /\ todo' = Tail(todo)

\* An assertion of the JSON stream fails, before what is to be done now.
AssertsInside ==
    /\ failures < MaxFailures
    /\ failures' = failures + 1
    /\ upset' = TRUE
    /\ \E act \in Actions : todo' = Assertion(act) \o todo

(***************************************************************************)
(* The steps                                                               *)
(***************************************************************************)

Same == UNCHANGED <<mgr, parts, file, inAssert, exc, unwinding, syslogged, dead, upset, calls, failures>>
Dies(how) == dead' = how /\ UNCHANGED <<mgr, parts, file, inAssert, todo, exc, unwinding, syslogged, upset, calls, failures>>

\* RGetThreadSysLogMgr: the manager is known before it opens its file, so that what
\* is logged meanwhile finds it.
Manager ==
    CASE mgr = "gone" -> Dies("astray")
      [] mgr = "live" -> Instead(<<>>) /\ Same
      [] OTHER -> \/ /\ mgr' = "live"
                     /\ Instead(Do("create"))
                     /\ UNCHANGED <<parts, file, inAssert, exc, unwinding, syslogged, dead, upset, calls, failures>>
                  \/ Throw /\ UNCHANGED <<mgr, parts, file, inAssert, unwinding, syslogged, dead, upset, calls>>

\* FCreateUniqueJSONLogFile: the manager gets all three or none of the parts.
Create ==
    \/ /\ parts' = AllParts
       /\ file' = [NoFile EXCEPT !.nest = <<"array", "root">>]
       /\ Instead(Log(CreatedMessage) \o Do("created"))
       /\ UNCHANGED <<mgr, inAssert, exc, unwinding, syslogged, dead, upset, calls, failures>>
    \/ /\ failures < MaxFailures
       /\ failures' = failures + 1
       /\ Instead(Log(FailedMessage))
       /\ UNCHANGED <<mgr, parts, file, inAssert, exc, unwinding, syslogged, dead, upset, calls>>
    \/ AssertsInside /\ UNCHANGED <<mgr, parts, file, inAssert, exc, unwinding, syslogged, dead, calls>>

\* FHasJSONLogFile: one failed assertion for a stream without the others, which
\* is nothing in itself when one is being reported.
PartsAgree == \A part \in AllParts : (part \in parts) = ("stream" \in parts)
HasFile ==
    LET write == <<[do |-> "write", msg |-> Now.msg, context |-> "stream" \in parts]>>
    IN IF PartsAgree THEN Instead(write) /\ Same
       ELSE \E act \in Actions : Instead(Assertion(act) \o write) /\ Same

\* _SysLogMgr::Log: the system's log first, then an entry of the file.
Write ==
    /\ syslogged' = Append(syslogged, Now.msg)
    /\ IF Now.context /\ parts = AllParts
       THEN /\ file' = [file EXCEPT !.nest = <<"entry">> \o @, !.json = @ /\ Head(file.nest) = "array"]
            /\ Instead(<<[do |-> "entry", msg |-> Now.msg]>>)
       ELSE UNCHANGED file /\ Instead(<<>>)
    /\ UNCHANGED <<mgr, parts, inAssert, exc, unwinding, dead, upset, calls, failures>>

\* The entry is written and ended; on the way of an exception its end is left out.
Entry ==
    \/ /\ file' = IF unwinding THEN file
                  ELSE [file EXCEPT !.nest = Tail(@), !.json = @ /\ Head(file.nest) = "entry", !.entries = Append(@, Now.msg)]
       /\ Instead(<<>>)
       /\ UNCHANGED <<mgr, parts, inAssert, exc, unwinding, syslogged, dead, upset, calls, failures>>
    \/ Throw /\ upset' = TRUE /\ UNCHANGED <<mgr, parts, file, inAssert, unwinding, syslogged, dead, calls>>
    \/ AssertsInside /\ UNCHANGED <<mgr, parts, file, inAssert, exc, unwinding, syslogged, dead, calls>>

\* One part goes: the pointer first, then what it pointed to.
ResetPart(part) ==
    /\ parts' = parts \ {part}
    /\ Instead(IF part \in parts THEN <<[do |-> "end", part |-> part]>> ELSE <<>>)
    /\ UNCHANGED <<mgr, file, inAssert, exc, unwinding, syslogged, dead, upset, calls, failures>>

\* Its destructor ends the array or the object that it has in the file.
\* unique_ptr::reset() lets no exception out: the catch around it is never reached.
EndPart ==
    \/ /\ file' = IF unwinding \/ file.nest = <<>> THEN file
                  ELSE [file EXCEPT !.nest = Tail(@), !.json = @ /\ Head(file.nest) = Now.part]
       /\ Instead(<<>>)
       /\ UNCHANGED <<mgr, parts, inAssert, exc, unwinding, syslogged, dead, upset, calls, failures>>
    \/ failures < MaxFailures /\ ~unwinding /\ Dies("terminate")
    \/ AssertsInside /\ UNCHANGED <<mgr, parts, file, inAssert, exc, unwinding, syslogged, dead, calls>>

ResetStream ==
    /\ parts' = parts \ {"stream"}
    /\ Instead(<<>>)
    /\ UNCHANGED <<mgr, file, inAssert, exc, unwinding, syslogged, dead, upset, calls, failures>>

\* One that fails while another is reported is passed over, whatever is asked for.
Assert_ ==
    /\ inAssert' = TRUE
    /\ Instead(IF inAssert THEN <<>> ELSE Log(AssertionMessage) \o <<[do |-> "asserted", act |-> Now.act]>>)
    /\ UNCHANGED <<mgr, parts, file, exc, unwinding, syslogged, dead, upset, calls, failures>>

AbortUnclosed(act) == IF act = "abort" THEN Do("abort") ELSE <<>>

AbortClosed(act) == IF act = "abort" THEN Close \o Do("abort") ELSE <<>>

\* The end of the report: closes the file before it aborts.
Asserted ==
    /\ inAssert' = (Now.act = "abort")
    /\ IF Now.act = "throw" THEN exc' = TRUE /\ todo' = Tail(todo)
       ELSE exc' = exc /\ Instead(AbortClosed(Now.act))
    /\ UNCHANGED <<mgr, parts, file, unwinding, syslogged, dead, upset, calls, failures>>

TraceLogged == Instead(AbortClosed(Now.act)) /\ Same

Gone ==
    /\ mgr' = "gone"
    /\ Instead(<<>>)
    /\ UNCHANGED <<parts, file, inAssert, exc, unwinding, syslogged, dead, upset, calls, failures>>

Abort ==
    /\ inAssert' = FALSE
    /\ dead' = "abort"
    /\ UNCHANGED <<mgr, parts, file, todo, exc, unwinding, syslogged, upset, calls, failures>>

CaughtKeepsFlag ==
    /\ CASE Now.do = "created" -> exc' = FALSE /\ Instead(Log(FailedMessage))
         [] Now.do = "traced" -> exc' = FALSE /\ Instead(<<>>)
         [] OTHER -> exc' = exc /\ Instead(<<>>)
    /\ UNCHANGED <<mgr, parts, file, inAssert, unwinding, syslogged, dead, upset, calls, failures>>

\* Where an exception comes by: creating the file and tracing catch it, the report
\* of an assertion lets go of its flag; everything else is left undone.  Nothing
\* may come out of closing.
Caught ==
    /\ CASE Now.do = "created" -> exc' = FALSE /\ Instead(Log(FailedMessage))
         [] Now.do = "traced" -> exc' = FALSE /\ Instead(<<>>)
         [] OTHER -> exc' = exc /\ Instead(<<>>)
    /\ inAssert' = (inAssert /\ Now.do # "asserted")
    /\ dead' = IF Now.do = "end" THEN "terminate" ELSE dead
    /\ UNCHANGED <<mgr, parts, file, unwinding, syslogged, upset, calls, failures>>

Step ==
    /\ todo # <<>>
    /\ IF exc THEN Caught
       ELSE CASE Now.do = "manager" -> Manager
              [] Now.do = "create" -> Create
              [] Now.do = "created" -> Instead(<<>>) /\ Same
              [] Now.do = "has" -> HasFile
              [] Now.do = "write" -> Write
              [] Now.do = "entry" -> Entry
              [] Now.do = "closeArray" -> ResetPart("array")
              [] Now.do = "closeRoot" -> ResetPart("root")
              [] Now.do = "closeStream" -> ResetStream
              [] Now.do = "end" -> EndPart
              [] Now.do = "assert" -> Assert_
              [] Now.do = "asserted" -> Asserted
              [] Now.do = "traced" -> TraceLogged
              [] Now.do = "gone" -> Gone
              [] OTHER -> Abort

\* The call is over, or the client has caught what it threw.
CallOver ==
    /\ todo = <<>> /\ (exc \/ unwinding)
    /\ exc' = FALSE /\ unwinding' = FALSE
    /\ UNCHANGED <<mgr, parts, file, inAssert, todo, syslogged, dead, upset, calls, failures>>

NextLog == dead = "no" /\ (Call \/ Step \/ CallOver)

SpecLog == InitLog /\ [][NextLog]_logVars

(***************************************************************************)
(* Properties                                                              *)
(***************************************************************************)

Doing(x) == {i \in DOMAIN todo : todo[i].do = x}

\* One assertion is reported at a time, and the flag that keeps others from it is
\* up just as long, however the report ends: left up it would silence every
\* assertion to come (FSetInAssertOrVerify).
OneReportAtATime ==
    /\ Cardinality(Doing("asserted")) <= 1
    /\ Doing("asserted") # {} => inAssert
    /\ inAssert => Doing("asserted") \cup Doing("abort") # {}

\* Making a manager logs a message, which asks for the manager: one is made, once
\* (RGetThreadSysLogMgr).
OneIsMade == Cardinality(Doing("create") \cup Doing("created")) <= 1

\* FHasJSONLogFile asserts that the parts exist together.  The assertion fails
\* only below another's report, where it is passed over; it would log, and so
\* ask again.
PartsTogether == todo # <<>> /\ Now.do = "has" /\ ~PartsAgree => inAssert

\* Between calls, if nothing failed while it was written, the file is JSON: open
\* in the array while the manager has its parts, complete when it has not.  Its
\* entries are the last messages of the system's log.
LogIsWhole ==
    (todo = <<>> /\ ~exc /\ ~upset /\ dead = "no") =>
        /\ file.json
        /\ <<parts, file.nest>> \in {<<AllParts, <<"array", "root">>>>, <<{}, <<>>>>}
        /\ parts = AllParts =>
              LET n == Len(syslogged) - Len(file.entries)
              IN \A i \in DOMAIN file.entries : file.entries[i] = syslogged[n + i]

\* One manager, one report at a time, and a log that is whole between calls.
LogIsSound == OneReportAtATime /\ OneIsMade /\ PartsTogether /\ LogIsWhole

\* A program that aborts has said why, in the system's log and in a file that is
\* complete (AssertVerify_LogMessage: "and then flush the log file").
AbortTellsWhy ==
    dead = "abort" =>
        /\ \E i \in DOMAIN syslogged : syslogged[i] \in {"errorAssertion", "infoTrace"}
        /\ parts = {}
        /\ ~upset => file.json /\ file.nest = <<>>
=============================================================================
