------------------------------- MODULE MCJson --------------------------------
(***************************************************************************)
(* The parts of jsonstrm.h, one of them in each behaviour: a client walks   *)
(* over a document, a client writes one, a document is copied, or a text is *)
(* scanned; or values are kept in memory (jsonobjs.h).  And what they and  *)
(* the log use: texts converted between encodings (utfconvert.h), and a    *)
(* thread's log manager (syslogmgr.h).                                     *)
(***************************************************************************)
EXTENDS JsonCopy, JsonTexts, JsonOutput, SysLog

CONSTANTS Which,        \* the parts to use
          Reading       \* the texts that are read into memory

VARIABLES
    which, jv, said,
    conv, src, pos, out, target, end

One == Simple("number", <<49>>, <<49>>)
MinusHalf == Simple("number", <<45, 48, 46, 53>>, <<45, 48, 46, 53>>)
Line == Simple("string", <<34, 97, 92, 110, 34>>, <<97, 10>>)
Yes == Simple("true", True, <<>>)
Nothing == Simple("null", Null, <<>>)
Array(kids) == Aggregate("array", kids, <<>>)
K == <<107>>
L == <<108>>
Object1(v) == Aggregate("object", <<v>>, <<K>>)
Object2(u, v) == Aggregate("object", <<u, v>>, <<K, L>>)

Trees == {MinusHalf, Array(<<>>), Array(<<One, Array(<<One, Line>>), One>>), Array(<<Array(<<Array(<<One>>)>>), Yes>>),
          Array(<<Array(<<>>), Object1(One), Nothing>>), Object2(Array(<<One, Array(<<>>)>>), Yes),
          Object2(Object2(Line, Object1(Array(<<One>>))), Array(<<>>))}
TornTrees == {MinusHalf, Array(<<One, Array(<<Yes>>)>>), Object2(Line, Object1(One))}

Document(v, blank, onDisk) ==
    [text |-> blank \o TextOf(v, blank), nodes |-> LayoutOf(v, Len(blank) + 1, blank), good |-> TRUE, file |-> onDisk,
     tree |-> v]

\* The text of v with a character left out, put in or changed, or cut off.
Edits(t) ==
    {SubSeq(t, 1, i - 1) \o SubSeq(t, i + 1, Len(t)) : i \in DOMAIN t} \cup {SubSeq(t, 1, i) : i \in 0 .. Len(t) - 1}
    \cup UNION {{SubSeq(t, 1, i - 1) \o <<x>> \o SubSeq(t, i + 1, Len(t)), SubSeq(t, 1, i) \o <<x>> \o SubSeq(t, i + 1, Len(t))} :
                    i \in DOMAIN t, x \in {Comma, RightSquare, RightCurly, Quote, Colon, 49}}
Torn(t, onDisk) == [text |-> t, nodes |-> <<>>, good |-> FALSE, file |-> onDisk, tree |-> One]

Y == <<121>>
S == <<115>>
D == <<100>>
F == <<102>>
Object(keys, kids) == Aggregate("object", kids, keys)
TestTrees == {Object(<<S, K>>, <<Object1(Array(<<One>>)), One>>), Object(<<D, K>>, <<Array(<<Line, One>>), Yes>>),
              Object(<<F, K>>, <<Array(<<Array(<<One, Yes>>), One>>), One>>), Array(<<Object1(One), Object(<<D, S>>, <<One, Line>>)>>),
              Object(<<Y, K, L>>, <<One, Array(<<Nothing, Yes>>), Array(<<One>>)>>),
              Object(<<Y, K, L>>, <<Yes, One, Array(<<One>>)>>)}

SomeDocuments ==
    {Document(v, b, f) : v \in Trees, b \in {<<>>, <<Space>>}, f \in BOOLEAN}
    \cup {Torn(t, FALSE) : t \in UNION {Edits(TextOf(v, <<>>)) : v \in TornTrees}}
TestDocuments == {Document(v, <<>>, FALSE) : v \in TestTrees}

AllDocuments == SomeDocuments \cup TestDocuments

Pretty == [Plain EXCEPT !.pretty = TRUE, !.indent = 2, !.most = 3, !.crlf = TRUE]
SomeFormats == {Plain, Pretty}
SomeKeys == {<<97>>, <<34, 92>>}
SomeScalars == {One, Nothing, Line}

TreesRead ==
    {One, Array(<<>>), Array(<<One, Array(<<One, Line>>), One>>), Array(<<Array(<<Array(<<One>>)>>), Yes>>),
     Object2(Array(<<One, Array(<<>>)>>), Yes), Object2(Object2(Line, Object1(Array(<<One>>))), Array(<<>>)),
     Object(<<L, K>>, <<Nothing, Array(<<One, Nothing>>)>>), Object(<<K, L, K>>, <<One, Line, Nothing>>),
     Array(<<Object(<<L, K, L>>, <<Array(<<>>), Object1(One), Yes>>), One>>),
     Array(<<Array(<<Nothing, Array(<<One>>)>>), Object2(Array(<<One>>), One)>>)}
TextsRead == {[text |-> TextOf(v, b), tree |-> v, good |-> TRUE] : v \in TreesRead, b \in {<<>>, <<Space>>}}
\* Texts that are whole and texts that break off.
ReadByLetter == {True, <<LeftSquare>> \o Null \o <<Comma, 49, RightSquare>>}
TextsTorn == {[text |-> SubSeq(t, 1, i), tree |-> One, good |-> FALSE] : t \in ReadByLetter, i \in 1 .. 4}
             \cup {[text |-> t, tree |-> One, good |-> FALSE] : t \in ReadByLetter}
LeafValues == {[jvt |-> "string", val |-> <<97, 10>>]}
Memory == INSTANCE JsonObjects WITH Texts <- Reading, OutFormats <- SomeFormats, Names <- {K, L},
                                   Leaves <- LeafValues, MostNodes <- [x |-> 3, y |-> 2], Within <- TRUE

UpTo(set, n) == UNION {[1..k -> set] : k \in 0..n}

\* Bytes on both sides of every bound that the conversion from UTF-8 knows.
Trails == {143, 144, 159, 160}
Leads == {65, 193, 194, 224, 237, 240, 244, 245, 248}
Texts8 ==
    UpTo(Trails \cup Leads, 2) \cup {<<a, b, x>> : a \in Leads, b \in Trails \cup Leads, x \in Trails \cup {65, 194}}
    \cup {<<a, b, x, y>> : a \in {65, 224, 237, 240, 244, 245}, b \in Trails, x \in {160, 65}, y \in {144, 65, 194}}
    \cup {<<248, b, 160, x, 160>> : b \in {144, 65}, x \in {160, 65}} \cup {<<65, 240, 144, 143, 160>>}
UnitTexts == [e \in {8, 16, 32} |->
    CASE e = 8 -> Texts8
      [] e = 16 -> UpTo({65, 55296, 56319, 56320, 57343, 65535}, 3)
      [] e = 32 -> UpTo({127, 128, 2047, 2048, 55295, 55296, 57343, 65535, 65536, 1114111, 1114112}, 2)]
Utf == INSTANCE Utf WITH Texts <- UnitTexts, Rooms <- {1, 4, 6}, MaxAlloca <- 12

walkVars == <<doc, c, ret>>
runVars == <<mode, marks, next, at>>

NotWalking == doc = Document(One, <<>>, FALSE) /\ c = AttachRoot(Opened(doc.text, FALSE)) /\ ret = <<"copying">>
NotWriting == w = Writer(Plain) /\ built = <<>> /\ phase = "none"
NotCopying == mode = "read" /\ marks = <<>> /\ next = NoSkip /\ at = "done"
NotScanning == kind = "none" /\ text = <<>> /\ pieces = 0
NotUsingFiles == st = Closed("file") /\ files = [h \in Handles |-> [Unused EXCEPT !.open = (h = Attached)]]
                 /\ outcome = "gone"
utfVars == <<conv, src, pos, out, target, end>>
NotConverting == conv = [from |-> 8, to |-> 8] /\ src = <<>> /\ pos = 0 /\ out = <<>> /\ target = Utf!Old /\ end = "done"
NotInMemory == jv = [r \in {"x", "y"} |-> One] /\ said = <<"none">>

NoJson == NotWalking /\ NotWriting /\ NotCopying /\ NotScanning /\ NotUsingFiles /\ NotInMemory

MCInit ==
    /\ which \in Which
    /\ InitLog
    /\ \/ which = "walk" /\ doc \in SomeDocuments /\ Init /\ NotWriting /\ NotCopying /\ NotScanning /\ NotUsingFiles /\ NotInMemory /\ NotConverting
       \/ which = "write" /\ InitWriter /\ NotWalking /\ NotCopying /\ NotScanning /\ NotUsingFiles /\ NotInMemory /\ NotConverting
       \/ which = "copy" /\ InitCopy /\ NotScanning /\ NotUsingFiles /\ NotInMemory /\ NotConverting
       \/ which = "scan" /\ InitTexts /\ NotWalking /\ NotWriting /\ NotCopying /\ NotUsingFiles /\ NotInMemory /\ NotConverting
       \/ which = "output" /\ InitOutput /\ NotWalking /\ NotWriting /\ NotCopying /\ NotScanning /\ NotInMemory /\ NotConverting
       \/ which = "memory" /\ Memory!InitObjects /\ NotWalking /\ NotWriting /\ NotCopying /\ NotScanning /\ NotUsingFiles /\ NotConverting
       \/ which = "utf" /\ Utf!Init /\ NoJson
       \/ which = "log" /\ NoJson /\ NotConverting

memoryVars == <<jv, said>>

jsonVars == <<copyVars, textVars, outputVars, memoryVars>>

\* Every one of them may stop, but the copying of a document goes on until it ends.
MCNext ==
    /\ which' = which
    /\ \/ which = "walk" /\ Next /\ UNCHANGED <<writerVars, runVars, textVars, outputVars, memoryVars, utfVars, logVars>>
       \/ which = "write" /\ NextWriter /\ UNCHANGED <<walkVars, runVars, textVars, outputVars, memoryVars, utfVars, logVars>>
       \/ which = "copy" /\ NextCopy /\ UNCHANGED <<textVars, outputVars, memoryVars, utfVars, logVars>>
       \/ which = "scan" /\ NextTexts /\ UNCHANGED <<walkVars, writerVars, runVars, outputVars, memoryVars, utfVars, logVars>>
       \/ which = "output" /\ NextOutput /\ UNCHANGED <<copyVars, textVars, memoryVars, utfVars, logVars>>
       \/ which = "memory" /\ Memory!NextObjects /\ UNCHANGED <<copyVars, textVars, outputVars, utfVars, logVars>>
       \/ which = "utf" /\ Utf!Next /\ UNCHANGED <<jsonVars, logVars>>
       \/ which = "log" /\ NextLog /\ UNCHANGED <<jsonVars, utfVars>>
       \/ (which # "copy" \/ ~Busy) /\ UNCHANGED <<jsonVars, utfVars, logVars>>

MCSpec == MCInit /\ [][MCNext]_<<jsonVars, utfVars, logVars, which>> /\ Fairness

-----------------------------------------------------------------------------

\* Numbers, strings and values are read as the grammar of JSON has them.
JsonIsRead == which = "scan" => NumbersAgree /\ StringsAgree /\ ValuesAgree

\* A client that walks over a document is where the text says it is.
JsonIsWalked == which \in {"walk", "copy"} => TypeOK /\ StreamInStep /\ OnlyJsonIsWalked

\* What is written is what was meant, or torn when something was thrown.
JsonIsWritten ==
    /\ which = "scan" => EscapesReadBack
    /\ which = "write" => WrittenAsMeant /\ TornWhenThrown
    /\ which = "copy" => CopySaysTheSame /\ TornStaysTorn

\* A document in memory is the document.
DocumentsAgree ==
    which = "memory" => Memory!DocumentInMemory /\ Memory!ReadsBack /\ Memory!StreamedAsRead /\ Memory!ComparisonsAgree

\* "Read JSON from a string - throws upon finding bad JSON, etc." (jsonobjs.h:833).
BadJsonThrows == which = "memory" => Memory!BadJsonThrows

\* Texts are the same text in another encoding.
TextsConvert ==
    which = "utf" => /\ Utf!ConvertsFaithfully /\ Utf!OutputWellFormed /\ Utf!StrictAcceptsOnlyWellFormed
                     /\ Utf!OnlyWrongIsReplaced /\ Utf!TargetTakesText

\* Each call consumes something or ends.
StepsAdvance == [][which = "utf" => Utf!StepAdvances]_utfVars
=============================================================================
