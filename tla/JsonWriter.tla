----------------------------- MODULE JsonWriter ------------------------------
(***************************************************************************)
(* A client of JsonValueLife, the writing side of jsonstrm.h: it opens      *)
(* objects and arrays, writes simple values with and without keys, and lets *)
(* the lives end in the reverse order, or throws.  built is the tree that   *)
(* the client means to write, from the root to the open aggregate.         *)
(***************************************************************************)
EXTENDS JsonWrite

CONSTANTS Formats,     \* the formats a document is written in
          Keys,        \* keys of objects
          Scalars,     \* simple values
          MostValues,  \* the values of a document
          Proper       \* the client keeps off WriteValueType with a key

VARIABLES w,      \* the writer
          built,  \* the open aggregates, then the root when it has been written
          phase   \* writing, done or thrown

writerVars == <<w, built, phase>>

Open == Last(w.lives)
KeysFor(life) == IF life.jvt = "object" THEN {<<k>> : k \in Keys} ELSE {<<>>}

RECURSIVE ValuesIn(_)
ValuesIn(v) == 1 + FoldLeft(LAMBDA n, kid : n + ValuesIn(kid), 0, v.kids)
Room == FoldLeft(LAMBDA n, v : n + ValuesIn(v), 0, built) < MostValues

\* v becomes the next element of aggregate a.
WithKid(a, key, v) == [a EXCEPT !.kids = Append(@, v), !.keys = @ \o key]

InitWriter ==
    \E fmt \in Formats, jvt \in {"array", "object"} :
        /\ w = Began(Writer(fmt), <<>>, jvt)
        /\ built = <<Aggregate(jvt, <<>>, <<>>)>> /\ phase = "writing"

\* A sub-life for an aggregate.  built keeps the key with its parent until it ends.
OpenAggregate ==
    /\ phase = "writing" /\ Room
    /\ \E key \in KeysFor(Open), jvt \in {"array", "object"} :
           /\ w' = Began(w, key, jvt)
           /\ built' = Append([built EXCEPT ![Len(built)].keys = @ \o key], Aggregate(jvt, <<>>, <<>>))
    /\ phase' = phase

\* WriteStringValue, WriteValue, WriteBoolValue, WriteNullValue: a life for one value.
WrittenValue(key, v) == Ended(WithValue(Began(w, key, v.jvt), v.jvt, v.val))

Threw(what) == w' = Unwound(w) /\ built' = built /\ phase' = what

\* A key in an array, or none in an object, throws before anything is written.
WriteValue ==
    /\ phase = "writing" /\ Room
    /\ \E key \in {<<>>} \cup {<<k>> : k \in Keys}, v \in Scalars :
           IF key \notin KeysFor(Open) THEN Threw("thrown")
           ELSE /\ w' = WrittenValue(key, v)
                /\ built' = [built EXCEPT ![Len(built)] = WithKid(@, key, v)]
                /\ phase' = phase

\* WriteValueType for null, true and false; the one with a key asks for an
\* array, as the one without does.
WriteValueType ==
    /\ phase = "writing" /\ Room
    /\ \E key \in {<<>>} \cup {<<k>> : k \in Keys}, v \in {s \in Scalars : s.jvt \notin {"number", "string"}} :
           /\ Proper => key = <<>>
           /\ IF Open.jvt # "array" THEN Threw("thrown")
              ELSE /\ w' = WrittenValue(key, v)
                   /\ built' = [built EXCEPT ![Len(built)] = WithKid(@, key, v)]
                   /\ phase' = phase

\* A life ends.
EndLife ==
    /\ phase = "writing" /\ w' = Ended(w)
    /\ built' = IF Len(built) = 1 THEN built
                ELSE Front([built EXCEPT ![Len(built) - 1] = WithKid(@, <<>>, Last(built))])
    /\ phase' = IF Len(built) = 1 THEN "done" ELSE phase

\* The client throws: every life ends while the exception is in flight.
ClientThrows == phase = "writing" /\ Threw("thrown")

NextWriter == OpenAggregate \/ WriteValue \/ WriteValueType \/ EndLife \/ ClientThrows

-----------------------------------------------------------------------------
Says(text, v) ==
    \E i \in DOMAIN text, j \in DOMAIN text :
        IsBlank(text, 1, i - 1) /\ IsBlank(text, j + 1, Len(text)) /\ Denotes(text, i, j, v)

\* Whatever was written between the braces and in whatever order lives began and
\* ended, the commas, colons and brackets come out right in every format: the
\* text says the tree the client meant (_WritePreamble and _WritePostamble,
\* jsonstrm.h:2525, 2598).
WrittenAsMeant == phase = "done" => Says(w.out, built[1])

\* An exception leaves a text that nobody can take for a whole document: no
\* destructor closes what was not finished (jsonstrm.h:2587).
TornWhenThrown == phase = "thrown" => ~IsJson(w.out)

=============================================================================
