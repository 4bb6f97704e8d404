---------------------------- MODULE JsonObjects -----------------------------
(***************************************************************************)
(* JsoValue of jsonobjs.h: JSON in memory, read from a cursor and written   *)
(* by lives, with a filter or without, and changed in between by a client   *)
(* through references to its elements.  An object is a std::map: its kids   *)
(* are in the order of their keys.                                         *)
(***************************************************************************)
EXTENDS JsonCursor, JsonWrite

CONSTANTS Texts,       \* the documents that are read: text, tree, good
          OutFormats,  \* the formats that are written
          Names,       \* keys of objects
          Leaves,      \* simple values
          MostNodes,   \* the values of each variable
          Within       \* the client keeps to what the assertions ask of it

VARIABLES jv,   \* the client's two values
          said  \* the last operation, and what came of it

objectVars == <<jv, said>>

Value(jvt, val, kids, keys) == [jvt |-> jvt, val |-> val, kids |-> kids, keys |-> keys]
Fresh(jvt) == Value(jvt, <<>>, <<>>, <<>>)
FEmpty(v) == v.jvt = "empty"
FIsAggregate(v) == v.jvt \in Aggregates
SetValueType(v, jvt) == IF v.jvt = jvt THEN v ELSE Fresh(jvt)

\* char_traits::compare
Earlier(a, b) ==
    \/ Len(a) < Len(b) /\ SubSeq(b, 1, Len(a)) = a
    \/ \E i \in DOMAIN a \cap DOMAIN b : SubSeq(a, 1, i - 1) = SubSeq(b, 1, i - 1) /\ a[i] < b[i]

\* try_emplace and emplace_back.
WithKey(v, key, kid) ==
    LET at == 1 + Cardinality({i \in DOMAIN v.keys : Earlier(v.keys[i], key)})
        Into(s, x) == SubSeq(s, 1, at - 1) \o <<x>> \o SubSeq(s, at, Len(s))
    IN  [v EXCEPT !.keys = Into(@, key), !.kids = Into(@, kid)]
WithLast(v, kid) == [v EXCEPT !.kids = Append(@, kid)]
HasKey(v, key) == \E i \in DOMAIN v.keys : v.keys[i] = key

-----------------------------------------------------------------------------
Chosen == CHOOSE key \in Names : TRUE
\* The filter of the client sees the container, and the key and the type of an
\* element, before the element is read, or written.
Filters == {"all", "no nulls", "no arrays", "named"}
Wanted(filter, container, key, jvt) ==
    CASE filter = "no nulls" -> jvt # "null"
      [] filter = "no arrays" -> jvt # "array"
      [] filter = "named" -> container # "object" \/ key # Chosen
      [] OTHER -> TRUE

\* An element that has been read whole is taken in.
Taken(v, key, kid) == IF v.jvt = "object" THEN WithKey(v, key, kid) ELSE WithLast(v, kid)

SimpleValue(jvt, k) == [k |-> k, v |-> [Fresh(jvt) EXCEPT !.val = Current(k).val]]
\* Mutant: the context of an aggregate is not restored.
LeftAggregateStays(k, r) == r
\* The destructor of the JsonRestoreContext.
LeftAggregate(k, r) == [r EXCEPT !.k.cur = k.cur]

\* What throws leaves the elements that were read whole.
WithElement(v, key, kid) ==
    CASE kid.k.in.bad -> [k |-> kid.k, v |-> v]
      [] ~kid.k.in.bad /\ v.jvt = "object" /\ HasKey(v, key) -> [k |-> [kid.k EXCEPT !.in = Thrown(@)], v |-> v]
      [] OTHER -> [k |-> kid.k, v |-> Taken(v, key, kid.v)]

RECURSIVE ReadValue(_, _, _), ReadKids(_, _), ReadFurther(_, _)
\* FromJSONStream: true, false and null are not read.
ReadValue(k, v, filter) ==
    CASE Current(k).jvt \in Aggregates ->
            LeftAggregate(k, ReadKids([k |-> MovedDown(k), v |-> SetValueType(v, Current(k).jvt)], filter))
      [] Current(k).jvt \in {"number", "string"} -> SimpleValue(Current(k).jvt, ReadCurrent(k))
      [] OTHER -> [k |-> k, v |-> Fresh(Current(k).jvt)]

\* The loop over the elements, with the cursor r.k and the value r.v.
ReadKids(r, filter) ==
    LET key == r.k.st[r.k.cur - 1].key
    IN  CASE r.k.in.bad \/ Current(r.k).jvt = "end" -> r
          [] ~r.k.in.bad /\ Current(r.k).jvt # "end" /\ ~Wanted(filter, r.v.jvt, key, Current(r.k).jvt) ->
                ReadFurther(r, filter)
          [] OTHER -> ReadFurther(WithElement(r.v, key, ReadValue(r.k, Fresh("empty"), filter)), filter)
ReadFurther(r, filter) == IF r.k.in.bad THEN r ELSE ReadKids([r EXCEPT !.k = Advanced(@)], filter)

\* FromString: a text without a value throws before the value is touched.
FromRoot(v, root, filter) == IF root.in.bad THEN [k |-> root, v |-> v] ELSE ReadValue(root, v, filter)
FromText(v, text, filter) == FromRoot(v, AttachRoot(Opened(text, FALSE)), filter)

\* The key that an element is written with, if any.
KeyOf(v, i) == IF v.jvt = "object" THEN <<v.keys[i]>> ELSE <<>>
Offered(filter, v, i) == Wanted(filter, v.jvt, IF v.jvt = "object" THEN v.keys[i] ELSE <<>>, v.kids[i].jvt)

RECURSIVE WrittenInto(_, _, _)
\* ToJSONStream, into a life that has begun with the type of the value.
WrittenInto(w, v, filter) ==
    CASE v.jvt \in {"number", "string"} -> WithValue(w, v.jvt, v.val)
      [] v.jvt \in Aggregates ->
            FoldLeft(LAMBDA u, i : IF ~Offered(filter, v, i) THEN u
                                   ELSE Ended(WrittenInto(Began(u, KeyOf(v, i), v.kids[i].jvt), v.kids[i], filter)),
                     w, [i \in DOMAIN v.kids |-> i])
      [] OTHER -> w

\* ToString of a value that holds no empty one.
ToText(v, filter, fmt) == Ended(WrittenInto(Began(Writer(fmt), <<>>, v.jvt), v, filter)).out

-----------------------------------------------------------------------------
\* The comparisons; they throw when they come to two empty values.
RECURSIVE FCompare(_, _), ICompare(_, _)
\* Vectors and maps of different lengths differ; else up to the first that is
\* not the same.
FCompare(u, v) ==
    LET unlike == {i \in DOMAIN u.kids : (u.keys # <<>> /\ u.keys[i] # v.keys[i]) \/ FCompare(u.kids[i], v.kids[i]) # "same"}
        i == Min(unlike)
    IN  IF u.jvt # v.jvt THEN "differ"
        ELSE CASE FEmpty(u) -> "throws"
               [] FIsAggregate(u) -> IF Len(u.kids) # Len(v.kids) THEN "differ"
                                     ELSE IF unlike = {} THEN "same"
                                     ELSE IF u.keys # <<>> /\ u.keys[i] # v.keys[i] THEN "differ"
                                     ELSE FCompare(u.kids[i], v.kids[i])
               [] OTHER -> IF u.val = v.val THEN "same" ELSE "differ"

Order == <<"object", "array", "number", "string", "true", "false", "null", "end", "empty">>
Place(jvt) == CHOOSE i \in DOMAIN Order : Order[i] = jvt

\* Of values without objects: those do not compare.
ICompare(u, v) ==
    LET n == IF Len(u.kids) < Len(v.kids) THEN Len(u.kids) ELSE Len(v.kids)
        unlike == {i \in 1 .. n : ICompare(u.kids[i], v.kids[i]) # "equal"}
        By(less, equal) == IF less THEN "less" ELSE IF equal THEN "equal" ELSE "greater"
    IN  IF u.jvt # v.jvt THEN By(Place(u.jvt) < Place(v.jvt), FALSE)
        ELSE CASE FEmpty(u) -> "throws"
               [] FIsAggregate(u) -> IF unlike = {} THEN By(Len(u.kids) < Len(v.kids), Len(u.kids) = Len(v.kids))
                                     ELSE ICompare(u.kids[Min(unlike)], v.kids[Min(unlike)])
               [] OTHER -> By(Earlier(u.val, v.val), u.val = v.val)

-----------------------------------------------------------------------------
\* References: the places of a value, and what is there.
RECURSIVE Places(_), At(_, _), Put(_, _, _), Nodes(_)
Places(v) == {<<>>} \cup UNION {{<<i>> \o p : p \in Places(v.kids[i])} : i \in DOMAIN v.kids}
At(v, p) == IF p = <<>> THEN v ELSE At(v.kids[p[1]], Tail(p))
Put(v, p, u) == IF p = <<>> THEN u ELSE [v EXCEPT !.kids[p[1]] = Put(@, Tail(p), u)]
Nodes(v) == 1 + FoldLeft(LAMBDA n, kid : n + Nodes(kid), 0, v.kids)

Roots == {"x", "y"}
InitObjects == jv = [r \in Roots |-> Fresh("empty")] /\ said = <<"changed">>

Fits == \A r \in Roots : Nodes(jv'[r]) <= MostNodes[r]
\* The value at place p of root r becomes u.
Becomes(r, p, u) == jv' = [jv EXCEPT ![r] = Put(@, p, u)] /\ said' = <<"changed">> /\ Fits
Throws == jv' = jv /\ said' = said

SetEmpty(r, p) == Becomes(r, p, SetValueType(At(jv[r], p), "empty"))

\* SetNullValue, SetBoolValue and SetStringValue.
SetLeaf(r, p, leaf) == Becomes(r, p, [SetValueType(At(jv[r], p), leaf.jvt) EXCEPT !.val = leaf.val])

\* SetValue of any kind of number.
SetValue(r, p, digits) == Becomes(r, p, [SetValueType(At(jv[r], p), "number") EXCEPT !.val = digits])

\* SetValueType of an aggregate, and SetArrayCapacity.
SetAggregate(r, p, jvt) == Becomes(r, p, SetValueType(At(jv[r], p), jvt))

Nulls(n) == [i \in 1 .. n |-> Fresh("null")]
\* CreateOrGetEl with an index: a null becomes an array, and nulls fill it up.
CreateOrGetIndex(r, p, n) ==
    LET v == At(jv[r], p)
        array == IF v.jvt = "null" THEN Fresh("array") ELSE v
        more == IF n > Len(array.kids) THEN n - Len(array.kids) ELSE 0
    IN  IF array.jvt # "array" THEN Throws
        ELSE Becomes(r, p, [array EXCEPT !.kids = @ \o Nulls(more)])

\* CreateOrGetEl with a key: of an object only.
CreateOrGetKey(r, p, key) ==
    LET v == At(jv[r], p)
    IN  IF v.jvt # "object" THEN Throws
        ELSE Becomes(r, p, IF HasKey(v, key) THEN v ELSE WithKey(v, key, Fresh("null")))

AppendEl(r, p) ==
    LET v == At(jv[r], p)
    IN  IF v.jvt # "array" THEN Throws ELSE Becomes(r, p, WithLast(v, Fresh("null")))

\* Neither of two places holds the other.
Apart(p, q) == \E i \in DOMAIN p \cap DOMAIN q : p[i] # q[i]

\* Assigning an element to what holds it destroys it first.
Assign(r, p, s, q) ==
    /\ Within => r # s \/ Apart(p, q) \/ p = q
    /\ Becomes(r, p, At(jv[s], q))

\* What has been moved from keeps its type, and has none of its value.
Move(r, p, s, q) ==
    LET v == At(jv[s], q)
    IN  /\ r # s \/ Apart(p, q)
        /\ jv' = [[jv EXCEPT ![s] = Put(@, q, Fresh(v.jvt))] EXCEPT ![r] = Put(@, p, v)]
        /\ said' = <<"changed">> /\ Fits

\* The types are exchanged; the buffers only of values that have nothing in them.
Swap ==
    /\ Within => \A r \in Roots : jv[r].jvt \in {"true", "false", "null"}
    /\ jv' = [x |-> [jv["x"] EXCEPT !.jvt = jv["y"].jvt], y |-> [jv["y"] EXCEPT !.jvt = jv["x"].jvt]]
    /\ said' = <<"changed">>

\* The elements that are read come to those that are there already.
FromString(r, d, filter) ==
    /\ Within => jv[r].kids = <<>>
    /\ \E read \in {FromText(jv[r], d.text, filter)} :
           /\ jv' = [jv EXCEPT ![r] = read.v]
           /\ said' = <<"FromString", r, d, filter, IF read.k.in.bad THEN "throws" ELSE "reads">>

\* StreamJSONObjects::Stream: from a file to a file by way of a value of its own,
\* which is written if nothing threw.
WrittenIfRead(read, fmt) == IF read.k.in.bad THEN <<>> ELSE ToText(read.v, "all", fmt)
Stream(d, fmt) ==
    /\ \A r \in Roots : FEmpty(jv[r])
    /\ jv' = jv /\ said' = <<"Stream", d, WrittenIfRead(FromText(Fresh("empty"), d.text, "all"), fmt)>>

NextObjects ==
    \/ \E r \in Roots : \E p \in Places(jv[r]) :
           \/ SetEmpty(r, p) \/ AppendEl(r, p)
           \/ \E leaf \in Leaves : SetLeaf(r, p, leaf)
           \/ SetValue(r, p, <<49>>)
           \/ \E jvt \in Aggregates : SetAggregate(r, p, jvt)
           \/ \E n \in 1 .. 2 : CreateOrGetIndex(r, p, n)
           \/ \E key \in Names : CreateOrGetKey(r, p, key)
           \/ \E s \in Roots : \E q \in Places(jv[s]) : Assign(r, p, s, q) \/ Move(r, p, s, q)
    \/ \E d \in Texts, filter \in Filters : FromString("x", d, filter)
    \/ \E d \in Texts, fmt \in OutFormats : Stream(d, fmt)
    \/ Swap

SpecObjects == InitObjects /\ [][NextObjects]_objectVars

-----------------------------------------------------------------------------
RECURSIVE Complete(_), Pruned(_, _), InMemory(_), OneOfEachKey(_), HasObject(_)
\* No value is empty and no number has been moved away.
Complete(v) == /\ ~FEmpty(v) /\ (v.jvt = "number" => v.val # <<>>)
               /\ \A i \in DOMAIN v.kids : Complete(v.kids[i])
HasObject(v) == v.jvt = "object" \/ \E i \in DOMAIN v.kids : HasObject(v.kids[i])
OneOfEachKey(v) ==
    /\ \A i \in DOMAIN v.keys, j \in DOMAIN v.keys : v.keys[i] = v.keys[j] => i = j
    /\ \A i \in DOMAIN v.kids : OneOfEachKey(v.kids[i])

\* v without the elements that the filter keeps out.
Pruned(v, filter) ==
    LET in == SelectSeq([i \in DOMAIN v.kids |-> i], LAMBDA i : Offered(filter, v, i))
    IN  [v EXCEPT !.kids = [i \in DOMAIN in |-> Pruned(v.kids[in[i]], filter)],
                  !.keys = IF @ = <<>> THEN @ ELSE [i \in DOMAIN in |-> v.keys[in[i]]]]

\* The tree of a document as a value.
InMemory(tree) ==
    FoldLeft(LAMBDA v, i : IF tree.jvt = "object" THEN WithKey(v, tree.keys[i], InMemory(tree.kids[i]))
                           ELSE WithLast(v, InMemory(tree.kids[i])),
             [Fresh(tree.jvt) EXCEPT !.val = tree.val], [i \in DOMAIN tree.kids |-> i])

\* FromJSONStream gives the tree of the document, whatever the filter keeps out
\* and so leaves unread, and throws only for a key that comes twice: then every
\* element that is there is one of the document's (jsonobjs.h:1321, 1498).
DocumentInMemory ==
    said[1] = "FromString" /\ said[3].good =>
        LET v == jv[said[2]]
            all == Pruned(InMemory(said[3].tree), said[4])
        IN  IF OneOfEachKey(all) THEN said[5] = "reads" /\ v = all
            ELSE /\ said[5] = "throws" /\ v.jvt = all.jvt /\ OneOfEachKey(v)
                 /\ \A i \in DOMAIN v.kids : \E j \in DOMAIN all.kids :
                        v.kids[i] = all.kids[j] /\ (v.keys # <<>> => v.keys[i] = all.keys[j])

Yields(read, v) == ~read.k.in.bad /\ read.v = v

\* What ToString writes is what FromString reads, in every format, and it makes
\* no difference which of the two the filter is given to (jsonobjs.h:920, 835).
ReadsBack ==
    LET v == jv["x"]
    IN  Complete(v) /\ said[1] = "changed" =>
            \A fmt \in OutFormats, filter \in Filters :
                /\ Yields(FromText(Fresh("empty"), ToText(v, filter, fmt), "all"), Pruned(v, filter))
                /\ Yields(FromText(Fresh("empty"), ToText(v, "all", fmt), filter), Pruned(v, filter))

\* A document that is streamed by way of a value says the same, but for the order
\* of its keys; of one with a key that comes twice nothing is written
\* (jsonobjs.h:1595).
StreamedAsRead ==
    said[1] = "Stream" =>
        LET all == InMemory(said[2].tree)
        IN  IF OneOfEachKey(all) THEN Yields(FromText(Fresh("empty"), said[3], "all"), all) ELSE said[3] = <<>>

\* The two comparisons agree with each other and with what the values say, as far
\* as they do not throw (jsonobjs.h:449, 484).
ComparisonsAgree ==
    LET Opposite(o) == CASE o = "less" -> "greater" [] o = "greater" -> "less" [] OTHER -> o
        u == jv["x"]
        v == jv["y"]
    IN  /\ FCompare(u, v) = FCompare(v, u)
        /\ Complete(u) /\ Complete(v) => (FCompare(u, v) = "same" <=> ToText(u, "all", Plain) = ToText(v, "all", Plain))
        /\ ~HasObject(u) /\ ~HasObject(v) =>
               /\ ICompare(u, v) = Opposite(ICompare(v, u))
               /\ ICompare(u, v) = "equal" <=> FCompare(u, v) = "same"

\* The comment of FromString: "Read JSON from a string - throws upon finding bad
\* JSON, etc." (jsonobjs.h:833).
BadJsonThrows == said[1] = "FromString" /\ said[5] = "reads" => IsJson(said[3].text)
=============================================================================
