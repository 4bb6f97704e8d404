--------------------------- MODULE ObjSave_proofs ---------------------------
(***************************************************************************)
(* Whatever the mesh, the sizes of a vertex, of the header and of a block, *)
(* and wherever something throws: the file has the vertices that are known *)
(* so far, each once, with their greatest distances, and has room for      *)
(* them; the indices written so far name the vertices they were made for.  *)
(***************************************************************************)
EXTENDS ObjSave, FiniteSetTheorems, TLAPS

-----------------------------------------------------------------------------
(* The state of a model that is being saved. *)

HeaderType == [nVertices : Nat, nIndices : Nat, maxDistance : Nat, byQuadrant : [Quadrants -> Nat]]

SaveTypeOK ==
    /\ mesh \in Seq(Vertices)
    /\ file \in [header : HeaderType, vertices : Seq(Vertices), indices : Seq(Nat), size : Nat]
    /\ mapped \in [attribs : BOOLEAN, file : BOOLEAN]
    /\ mapUnique \in Seq(Vertices) /\ rgIndices \in Seq(Nat)
    /\ at \in {"open", "vertices", "sizing", "indices", "done", "thrown", "crashed"}

\* Every index names the vertex it was made for, and every vertex has an index.
IndicesName ==
    /\ Len(rgIndices) <= Len(mesh)
    /\ \A k \in 1..Len(rgIndices) :
           rgIndices[k] < Len(mapUnique) /\ mapUnique[rgIndices[k] + 1] = mesh[k]
    /\ \A i \in 1..Len(mapUnique) : \E k \in 1..Len(rgIndices) : rgIndices[k] + 1 = i

\* The vertices are different, as many as there are of them.
EachVertexOnce ==
    /\ IsFiniteSet({mapUnique[i] : i \in 1..Len(mapUnique)})
    /\ Cardinality({mapUnique[i] : i \in 1..Len(mapUnique)}) = Len(mapUnique)

\* n is the greatest of the numbers, or 0 if there are none.
Greatest(n, S) == n \in S \cup {0} /\ \A m \in S : m <= n

Distances(s) == {s[i].distance : i \in 1..Len(s)}
DistancesIn(s, q) == {s[i].distance : i \in {j \in 1..Len(s) : s[j].quadrant = q}}

\* The header has the distances of the vertices in the file.
DistancesKept ==
    /\ Greatest(file.header.maxDistance, Distances(file.vertices))
    /\ \A q \in Quadrants : Greatest(file.header.byQuadrant[q], DistancesIn(file.vertices, q))

\* What is in the file, by how far the saving has got.
FileFollows ==
    /\ at # "crashed" => file.vertices = mapUnique
    /\ at = "open" => mapUnique = <<>> /\ rgIndices = <<>>
    /\ at \in {"vertices", "sizing", "indices", "done"} => file.header.nIndices = Len(mesh)
    /\ at \in {"sizing", "indices", "done"} =>
           Len(rgIndices) = Len(mesh) /\ file.header.nVertices = Len(file.vertices)
    /\ at \in {"open", "vertices", "crashed"} => file.header.nVertices = 0
    /\ file.header.nVertices \in {0, Len(file.vertices)}
    /\ at \in {"indices", "done"} => file.size = SizeForIndices
    /\ file.indices = (IF at = "done" THEN rgIndices ELSE <<>>)

\* The file is mapped while it is written, and what is written is within it.
MappedHolds ==
    /\ at \in {"vertices", "sizing", "indices"} => mapped.file
    /\ mapped.file => PosCur <= file.size
    /\ ~Moves => at # "crashed" /\ (at = "vertices" => mapped.attribs)

SaveInv == SaveTypeOK /\ IndicesName /\ EachVertexOnce /\ DistancesKept /\ FileFollows /\ MappedHolds

-----------------------------------------------------------------------------
LEMMA InitialSave == InitSave => SaveInv
<1> SUFFICES ASSUME InitSave PROVE SaveInv
  OBVIOUS
<1> USE SaveAssumption DEF InitSave
<1>1. mesh \in Seq(Vertices)
  OBVIOUS
<1>2. file.header = Header /\ file.vertices = <<>> /\ file.indices = <<>> /\ file.size = 0
  BY DEF NoFile
<1>3. Header \in HeaderType
  BY DEF Header, HeaderType
<1>4. SaveTypeOK
  BY <1>1, <1>2, <1>3 DEF SaveTypeOK, NoFile, Unmapped
<1>5. IndicesName
  BY <1>1 DEF IndicesName
<1>6. {mapUnique[i] : i \in 1..Len(mapUnique)} = {}
  OBVIOUS
<1>7. EachVertexOnce
  BY <1>6, FS_EmptySet DEF EachVertexOnce
<1>8. DistancesKept
  BY <1>2 DEF DistancesKept, Greatest, Distances, DistancesIn, Header
<1>9. FileFollows
  BY <1>2 DEF FileFollows, Header
<1>10. MappedHolds
  BY DEF MappedHolds, Unmapped
<1> QED
  BY <1>4, <1>5, <1>7, <1>8, <1>9, <1>10 DEF SaveInv

\* A step that throws leaves the file as it is, with the size given.
LEMMA ThrowKeeps ==
  ASSUME SaveInv, NEW size \in Nat, Throw(size), at \in {"open", "vertices", "sizing"}
  PROVE  SaveInv'
<1> USE DEF SaveInv, Throw
<1>1. /\ file'.header = file.header /\ file'.vertices = file.vertices
      /\ file'.indices = file.indices /\ file'.size = size
  BY DEF SaveTypeOK
<1>2. SaveTypeOK'
  BY Zenon DEF SaveTypeOK, Unmapped
<1>3. IndicesName' /\ EachVertexOnce'
  BY Zenon DEF IndicesName, EachVertexOnce
<1>4. DistancesKept'
  BY <1>1 DEF DistancesKept, Distances, DistancesIn, Greatest
<1>5. FileFollows'
  BY <1>1 DEF FileFollows
<1>6. MappedHolds'
  BY DEF MappedHolds, Unmapped
<1> QED
  BY <1>2, <1>3, <1>4, <1>5, <1>6

LEMMA CreateFileKeeps == SaveInv /\ CreateFile => SaveInv'
<1> SUFFICES ASSUME SaveInv, CreateFile PROVE SaveInv'
  OBVIOUS
<1> USE SaveAssumption
<1>0. VertexLen * VertexGrowBy \in Nat
  OBVIOUS
<1>1. CASE \E size \in {0, VertexLen * VertexGrowBy} : Throw(size)
  BY <1>0, <1>1, ThrowKeeps DEF CreateFile
<1>2. CASE ~ \E size \in {0, VertexLen * VertexGrowBy} : Throw(size)
  <2>1. /\ at = "open" /\ at' = "vertices"
        /\ file' = [file EXCEPT !.size = VertexLen * VertexGrowBy, !.header.nIndices = Len(mesh)]
        /\ mapped' = [file |-> TRUE, attribs |-> TRUE]
        /\ UNCHANGED <<mesh, mapUnique, rgIndices>>
    BY <1>2 DEF CreateFile
  <2>2. /\ file'.vertices = file.vertices /\ file'.indices = file.indices
        /\ file'.size = VertexLen * VertexGrowBy
        /\ file'.header.nVertices = file.header.nVertices /\ file'.header.nIndices = Len(mesh)
        /\ file'.header.maxDistance = file.header.maxDistance
        /\ file'.header.byQuadrant = file.header.byQuadrant
    BY <2>1 DEF SaveInv, SaveTypeOK, HeaderType
  <2>3. Len(mesh) \in Nat
    BY DEF SaveInv, SaveTypeOK
  <2>4. SaveTypeOK'
    BY <1>0, <2>1, <2>3, Zenon DEF SaveInv, SaveTypeOK, HeaderType
  <2>5. IndicesName' /\ EachVertexOnce'
    BY <2>1, Zenon DEF SaveInv, IndicesName, EachVertexOnce
  <2>6. DistancesKept'
    BY <2>2 DEF SaveInv, DistancesKept, Distances, DistancesIn, Greatest
  <2>7. FileFollows'
    BY <2>1, <2>2 DEF SaveInv, FileFollows
  <2>8. file.vertices = <<>>
    BY <2>1 DEF SaveInv, FileFollows
  <2>9. MappedHolds'
    BY <1>0, <2>1, <2>2, <2>8 DEF SaveInv, MappedHolds, PosCur
  <2> QED
    BY <2>4, <2>5, <2>6, <2>7, <2>9 DEF SaveInv
<1> QED
  BY <1>1, <1>2

\* A number is the greatest of a set with another, when it is the greater of the two.
LEMMA GreatestGrows ==
  ASSUME NEW n \in Nat, NEW d \in Nat, NEW S \in SUBSET Nat, Greatest(n, S)
  PROVE  Greatest(IF d > n THEN d ELSE n, S \cup {d})
BY DEF Greatest

LEMMA VertexRead ==
  ASSUME SaveTypeOK, Len(rgIndices) < Len(mesh)
  PROVE  Vertex \in Vertices /\ Vertex.distance \in Nat /\ Vertex.quadrant \in Quadrants
<1>1. Len(rgIndices) + 1 \in 1..Len(mesh)
  BY DEF SaveTypeOK
<1>2. Vertex \in Vertices
  BY <1>1 DEF SaveTypeOK, Vertex
<1> QED
  BY <1>2, SaveAssumption DEF Quadrants

LEMMA GrownSizeFits ==
  ASSUME SaveTypeOK, PosCur <= file.size
  PROVE  /\ PosCur \in Nat /\ GrownSize \in Nat
         /\ PosCur + VertexLen <= GrownSize
<1> USE SaveAssumption
<1>1. Len(file.vertices) \in Nat /\ file.size \in Nat
  BY DEF SaveTypeOK
<1>2. VertexLen * Len(file.vertices) \in Nat
  BY <1>1
<1>3. VertexLen * VertexGrowBy \in Nat
  OBVIOUS
<1>4. VertexLen <= VertexLen * VertexGrowBy
  <2>1. VertexLen * (VertexGrowBy - 1) \in Nat
    OBVIOUS
  <2>2. VertexLen * VertexGrowBy = VertexLen + VertexLen * (VertexGrowBy - 1)
    OBVIOUS
  <2> QED
    BY <2>1, <2>2, <1>3
<1>5. PosCur \in Nat
  BY <1>2 DEF PosCur
<1>6. VertexLen \in Nat
  OBVIOUS
<1> QED
  BY <1>1, <1>3, <1>4, <1>5, <1>6 DEF GrownSize

\* What the file is after a vertex is written.
LEMMA WriteVertexIs ==
  ASSUME SaveTypeOK, PosCur <= file.size, NEW v \in Vertices
  PROVE  LET new == WriteVertex(v)
         IN  /\ new \in [header : HeaderType, vertices : Seq(Vertices), indices : Seq(Nat), size : Nat]
             /\ new.vertices = Append(file.vertices, v) /\ new.indices = file.indices
             /\ new.size = GrownSize
             /\ new.header.nVertices = file.header.nVertices /\ new.header.nIndices = file.header.nIndices
             /\ new.header.maxDistance = Further(v.distance)
             /\ new.header.byQuadrant = [file.header.byQuadrant EXCEPT ![v.quadrant] = FurtherIn(v)]
<1> DEFINE new == WriteVertex(v)
<1>1. v.distance \in Nat /\ v.quadrant \in Quadrants
  BY SaveAssumption DEF Quadrants
<1>2. file.header \in HeaderType
  BY DEF SaveTypeOK
<1>3. Further(v.distance) \in Nat /\ FurtherIn(v) \in Nat
  BY <1>1, <1>2 DEF Further, FurtherIn, HeaderType
<1>4. GrownSize \in Nat
  BY GrownSizeFits
<1>5. Append(file.vertices, v) \in Seq(Vertices)
  BY DEF SaveTypeOK
<1>6. /\ new.vertices = Append(file.vertices, v) /\ new.indices = file.indices /\ new.size = GrownSize
  BY DEF SaveTypeOK, WriteVertex
<1>7. /\ new.header.nVertices = file.header.nVertices /\ new.header.nIndices = file.header.nIndices
      /\ new.header.maxDistance = Further(v.distance)
      /\ new.header.byQuadrant = [file.header.byQuadrant EXCEPT ![v.quadrant] = FurtherIn(v)]
  BY <1>2 DEF SaveTypeOK, WriteVertex, HeaderType
<1>8. [file.header.byQuadrant EXCEPT ![v.quadrant] = FurtherIn(v)] \in [Quadrants -> Nat]
  BY <1>2, <1>3 DEF HeaderType
<1>9. new \in [header : HeaderType, vertices : Seq(Vertices), indices : Seq(Nat), size : Nat]
  BY <1>2, <1>3, <1>4, <1>5, <1>8 DEF SaveTypeOK, HeaderType, WriteVertex
<1> QED
  BY <1>6, <1>7, <1>9

LEMMA DistancesGrow ==
  ASSUME NEW s \in Seq(Vertices), NEW v \in Vertices
  PROVE  /\ Distances(Append(s, v)) = Distances(s) \cup {v.distance}
         /\ \A q \in Quadrants :
                DistancesIn(Append(s, v), q) =
                    IF q = v.quadrant THEN DistancesIn(s, q) \cup {v.distance} ELSE DistancesIn(s, q)
         /\ Distances(s) \subseteq Nat
         /\ \A q \in Quadrants : DistancesIn(s, q) \subseteq Nat
<1> DEFINE n == Len(s)
           t == Append(s, v)
<1>1. n \in Nat /\ Len(t) = n + 1
  OBVIOUS
<1>2. \A i \in 1..n : t[i] = s[i]
  OBVIOUS
<1>3. t[n + 1] = v
  OBVIOUS
<1>4. 1..n + 1 = (1..n) \cup {n + 1}
  BY <1>1
<1>5. \A i \in 1..n : s[i] \in Vertices
  OBVIOUS
<1>6. \A i \in 1..n : s[i].distance \in Nat
  BY <1>5, SaveAssumption
<1> HIDE DEF n, t
<1>7. Distances(t) = Distances(s) \cup {v.distance}
  BY <1>1, <1>2, <1>3, <1>4 DEF Distances, n
<1>8. ASSUME NEW q \in Quadrants
      PROVE  DistancesIn(t, q) =
                 IF q = v.quadrant THEN DistancesIn(s, q) \cup {v.distance} ELSE DistancesIn(s, q)
  <2>1. {j \in 1..Len(t) : t[j].quadrant = q} =
            {j \in 1..n : s[j].quadrant = q} \cup (IF q = v.quadrant THEN {n + 1} ELSE {})
    BY <1>1, <1>2, <1>3, <1>4
  <2>2. CASE q = v.quadrant
    BY <1>2, <1>3, <2>1, <2>2 DEF DistancesIn, n
  <2>3. CASE q # v.quadrant
    BY <1>2, <2>1, <2>3 DEF DistancesIn, n
  <2> QED
    BY <2>2, <2>3
<1>9. Distances(s) \subseteq Nat /\ \A q \in Quadrants : DistancesIn(s, q) \subseteq Nat
  BY <1>6 DEF Distances, DistancesIn, n
<1> QED
  BY <1>7, <1>8, <1>9 DEF t

\* A vertex that is not there yet is written behind the others.
LEMMA UniqueGrows ==
  ASSUME SaveTypeOK, EachVertexOnce, NEW v \in Vertices, \A i \in DOMAIN mapUnique : mapUnique[i] # v,
         mapUnique' = Append(mapUnique, v)
  PROVE  EachVertexOnce'
<1> DEFINE n == Len(mapUnique)
           S == {mapUnique[i] : i \in 1..n}
           T == {Append(mapUnique, v)[i] : i \in 1..Len(Append(mapUnique, v))}
<1>1. mapUnique \in Seq(Vertices) /\ n \in Nat
  BY DEF SaveTypeOK
<1>2. Len(Append(mapUnique, v)) = n + 1 /\ 1..n + 1 = (1..n) \cup {n + 1}
  BY <1>1
<1>3. \A i \in 1..n : Append(mapUnique, v)[i] = mapUnique[i]
  BY <1>1
<1>4. Append(mapUnique, v)[n + 1] = v
  BY <1>1
<1>5. T = S \cup {v}
  BY <1>2, <1>3, <1>4
<1>6. v \notin S
  BY <1>1
<1>7. IsFiniteSet(S) /\ Cardinality(S) = n
  BY Zenon DEF EachVertexOnce
<1> HIDE DEF S
<1>8. IsFiniteSet(S \cup {v}) /\ Cardinality(S \cup {v}) = n + 1
  BY <1>6, <1>7, FS_AddElement
<1> QED
  BY <1>2, <1>5, <1>8, ZenonT(60) DEF EachVertexOnce

LEMMA NamesGrow ==
  ASSUME SaveTypeOK, IndicesName, Len(rgIndices) < Len(mesh),
         mapUnique' = Append(mapUnique, Vertex), rgIndices' = Append(rgIndices, Len(mapUnique)), mesh' = mesh
  PROVE  IndicesName'
<1> DEFINE n == Len(mapUnique)
           m == Len(rgIndices)
<1>1. mapUnique \in Seq(Vertices) /\ n \in Nat /\ rgIndices \in Seq(Nat) /\ m \in Nat /\ Len(mesh) \in Nat
  BY DEF SaveTypeOK
<1>2. Vertex \in Vertices
  BY VertexRead
<1>3. /\ Len(mapUnique') = n + 1 /\ mapUnique'[n + 1] = Vertex
      /\ \A i \in 1..n : mapUnique'[i] = mapUnique[i]
  BY <1>1, <1>2
<1>4. /\ Len(rgIndices') = m + 1 /\ rgIndices'[m + 1] = n
      /\ \A k \in 1..m : rgIndices'[k] = rgIndices[k] /\ rgIndices[k] \in Nat
  BY <1>1
<1>5. Len(rgIndices') <= Len(mesh')
  BY <1>1, <1>4
<1>6. ASSUME NEW k \in 1..m + 1
      PROVE  rgIndices'[k] < n + 1 /\ mapUnique'[rgIndices'[k] + 1] = mesh[k]
  <2>1. CASE k = m + 1
    BY <1>1, <1>3, <1>4, <2>1 DEF Vertex
  <2>2. CASE k \in 1..m
    <3>1. rgIndices[k] < n /\ mapUnique[rgIndices[k] + 1] = mesh[k]
      BY <2>2 DEF IndicesName
    <3>2. rgIndices[k] + 1 \in 1..n
      BY <1>1, <1>4, <2>2, <3>1, SMTT(60)
    <3> QED
      BY <1>1, <1>3, <1>4, <2>2, <3>1, <3>2
  <2> QED
    BY <1>1, <2>1, <2>2, SMTT(60)
<1>7. ASSUME NEW i \in 1..n + 1
      PROVE  \E k \in 1..m + 1 : rgIndices'[k] + 1 = i
  <2>1. CASE i = n + 1
    <3>1. m + 1 \in 1..m + 1 /\ rgIndices'[m + 1] + 1 = i
      BY <1>1, <1>4, <2>1
    <3> QED
      BY <3>1
  <2>2. CASE i \in 1..n
    <3>1. PICK k \in 1..m : rgIndices[k] + 1 = i
      BY <2>2 DEF IndicesName
    <3> QED
      BY <1>1, <1>4, <3>1
  <2> QED
    BY <1>1, <2>1, <2>2
<1> QED
  BY <1>3, <1>4, <1>5, <1>6, <1>7 DEF IndicesName

LEMMA AddUniqueKeeps == SaveInv /\ AddUnique => SaveInv'
<1> SUFFICES ASSUME SaveInv, AddUnique PROVE SaveInv'
  OBVIOUS
<1>1. /\ SaveTypeOK /\ IndicesName /\ EachVertexOnce /\ DistancesKept /\ FileFollows /\ MappedHolds
      /\ at = "vertices" /\ Len(rgIndices) < Len(mesh) /\ IsUnique
  BY DEF SaveInv, AddUnique
<1>2. PosCur <= file.size /\ mapped.file
  BY <1>1 DEF MappedHolds
<1>3. PosCur \in Nat /\ GrownSize \in Nat /\ PosCur + VertexLen <= GrownSize /\ file.size \in Nat
  BY <1>1, <1>2, GrownSizeFits DEF SaveTypeOK
<1>4. Vertex \in Vertices /\ Vertex.distance \in Nat /\ Vertex.quadrant \in Quadrants
  BY <1>1, VertexRead
<1>5. CASE \E size \in {file.size, GrownSize} : Throw(size)
  BY <1>1, <1>3, <1>5, ThrowKeeps
<1>6. CASE ~ \E size \in {file.size, GrownSize} : Throw(size)
  <2>1. /\ mapped' = (IF GrownSize # file.size THEN Remapped ELSE mapped)
        /\ mapUnique' = Append(mapUnique, Vertex) /\ rgIndices' = Append(rgIndices, Len(mapUnique))
        /\ IF mapped'.attribs THEN file' = WriteVertex(Vertex) /\ at' = at
           ELSE file' = file /\ at' = "crashed"
        /\ mesh' = mesh
    BY <1>6 DEF AddUnique
  <2>2. /\ mapped' \in [attribs : BOOLEAN, file : BOOLEAN] /\ mapped'.file
        /\ ~Moves => mapped'.attribs
    BY <1>1, <1>2, <2>1, SaveAssumption DEF SaveTypeOK, MappedHolds, Remapped
  <2>3. mapUnique' \in Seq(Vertices) /\ rgIndices' \in Seq(Nat)
    BY <1>1, <1>4, <2>1 DEF SaveTypeOK
  <2>4. IndicesName'
    BY <1>1, <2>1, NamesGrow
  <2>5. \A i \in DOMAIN mapUnique : mapUnique[i] # Vertex
    BY <1>1 DEF IsUnique
  <2>6. EachVertexOnce'
    BY <1>1, <1>4, <2>1, <2>5, UniqueGrows
  <2>7. CASE ~mapped'.attribs
    <3>1. file' = file /\ at' = "crashed" /\ Moves
      BY <2>1, <2>2, <2>7, SaveAssumption
    <3>2. SaveTypeOK'
      BY <1>1, <2>1, <2>2, <2>3, <3>1 DEF SaveTypeOK
    <3>3. DistancesKept'
      BY <1>1, <3>1 DEF DistancesKept
    <3>4. FileFollows'
      BY <1>1, <3>1 DEF FileFollows
    <3>5. MappedHolds'
      BY <1>2, <3>1 DEF MappedHolds, PosCur
    <3> QED
      BY <2>4, <2>6, <3>2, <3>3, <3>4, <3>5 DEF SaveInv
  <2>8. CASE mapped'.attribs
    <3>1. file' = WriteVertex(Vertex) /\ at' = "vertices"
      BY <1>1, <2>1, <2>8
    <3>2. /\ file' \in [header : HeaderType, vertices : Seq(Vertices), indices : Seq(Nat), size : Nat]
          /\ file'.vertices = Append(file.vertices, Vertex) /\ file'.indices = file.indices
          /\ file'.size = GrownSize
          /\ file'.header.nVertices = file.header.nVertices /\ file'.header.nIndices = file.header.nIndices
          /\ file'.header.maxDistance = Further(Vertex.distance)
          /\ file'.header.byQuadrant =
                 [file.header.byQuadrant EXCEPT ![Vertex.quadrant] = FurtherIn(Vertex)]
      BY <1>1, <1>2, <1>4, <3>1, WriteVertexIs
    <3>3. SaveTypeOK'
      BY <1>1, <2>1, <2>2, <2>3, <3>1, <3>2 DEF SaveTypeOK
    <3>4. /\ file.vertices \in Seq(Vertices) /\ file.header.maxDistance \in Nat
          /\ file.header.byQuadrant \in [Quadrants -> Nat]
      BY <1>1 DEF SaveTypeOK, HeaderType
    <3>5. Greatest(file'.header.maxDistance, Distances(file'.vertices))
      <4>1. Distances(file.vertices) \in SUBSET Nat
        BY <3>4, DistancesGrow, <1>4
      <4>2. Greatest(Further(Vertex.distance), Distances(file.vertices) \cup {Vertex.distance})
        BY <1>1, <1>4, <3>4, <4>1, GreatestGrows DEF DistancesKept, Further
      <4> QED
        BY <1>4, <3>2, <3>4, <4>2, DistancesGrow, ZenonT(60)
    <3>6. ASSUME NEW q \in Quadrants
          PROVE  Greatest(file'.header.byQuadrant[q], DistancesIn(file'.vertices, q))
      <4>1. DistancesIn(file.vertices, q) \in SUBSET Nat
        BY <3>4, DistancesGrow, <1>4
      <4>2. Greatest(file.header.byQuadrant[q], DistancesIn(file.vertices, q))
        BY <1>1 DEF DistancesKept
      <4>3. CASE q = Vertex.quadrant
        <5>1. file.header.byQuadrant[q] \in Nat
          BY <3>4
        <5>2. Greatest(FurtherIn(Vertex), DistancesIn(file.vertices, q) \cup {Vertex.distance})
          BY <1>4, <4>1, <4>2, <4>3, <5>1, GreatestGrows DEF FurtherIn
        <5>3. file'.header.byQuadrant[q] = FurtherIn(Vertex)
          BY <3>2, <3>4, <4>3
        <5>4. DistancesIn(file'.vertices, q) = DistancesIn(file.vertices, q) \cup {Vertex.distance}
          BY <1>4, <3>2, <3>4, <4>3, DistancesGrow
        <5> QED
          BY <5>2, <5>3, <5>4
      <4>4. CASE q # Vertex.quadrant
        <5>1. file'.header.byQuadrant[q] = file.header.byQuadrant[q]
          BY <3>2, <3>4, <4>4
        <5>2. DistancesIn(file'.vertices, q) = DistancesIn(file.vertices, q)
          BY <1>4, <3>2, <3>4, <4>4, DistancesGrow
        <5> QED
          BY <4>2, <5>1, <5>2
      <4> QED
        BY <4>3, <4>4
    <3>7. DistancesKept'
      BY <3>5, <3>6 DEF DistancesKept
    <3>8. FileFollows'
      BY <1>1, <2>1, <3>1, <3>2 DEF FileFollows
    <3>9. PosCur' <= file'.size
      <4>1. Len(file'.vertices) = Len(file.vertices) + 1 /\ Len(file.vertices) \in Nat
        BY <1>4, <3>2, <3>4
      <4>2. PosCur' = PosCur + VertexLen
        BY <4>1, SaveAssumption DEF PosCur
      <4> QED
        BY <1>3, <3>2, <4>2
    <3>10. MappedHolds'
      BY <2>2, <2>8, <3>1, <3>9 DEF MappedHolds
    <3> QED
      BY <2>4, <2>6, <3>3, <3>7, <3>8, <3>10 DEF SaveInv
  <2> QED
    BY <2>7, <2>8
<1> QED
  BY <1>5, <1>6

LEMMA AddExistingKeeps == SaveInv /\ AddExisting => SaveInv'
<1> SUFFICES ASSUME SaveInv, AddExisting PROVE SaveInv'
  OBVIOUS
<1>1. /\ SaveTypeOK /\ IndicesName /\ EachVertexOnce /\ DistancesKept /\ FileFollows /\ MappedHolds
      /\ at = "vertices" /\ Len(rgIndices) < Len(mesh)
  BY DEF SaveInv, AddExisting
<1>2. CASE Throw(file.size)
  BY <1>1, <1>2, ThrowKeeps DEF SaveTypeOK
<1>3. CASE ~Throw(file.size)
  <2>1. PICK i \in DOMAIN mapUnique : mapUnique[i] = Vertex /\ rgIndices' = Append(rgIndices, i - 1)
    BY <1>3 DEF AddExisting
  <2>2. UNCHANGED <<mesh, file, mapped, mapUnique, at>>
    BY <1>3 DEF AddExisting
  <2>3. /\ mapUnique \in Seq(Vertices) /\ rgIndices \in Seq(Nat) /\ i \in 1..Len(mapUnique) /\ i - 1 \in Nat
        /\ Len(mapUnique) \in Nat /\ Len(rgIndices) \in Nat /\ Len(mesh) \in Nat
    BY <1>1 DEF SaveTypeOK
  <2>4. SaveTypeOK'
    BY <1>1, <2>1, <2>2, <2>3 DEF SaveTypeOK
  <2>5. /\ Len(rgIndices') = Len(rgIndices) + 1 /\ rgIndices'[Len(rgIndices) + 1] = i - 1
        /\ \A k \in 1..Len(rgIndices) : rgIndices'[k] = rgIndices[k]
    BY <2>1, <2>3
  <2>6. IndicesName'
    <3>1. Len(rgIndices') <= Len(mesh)
      BY <1>1, <2>3, <2>5
    <3>2. ASSUME NEW k \in 1..Len(rgIndices) + 1
          PROVE  rgIndices'[k] < Len(mapUnique) /\ mapUnique[rgIndices'[k] + 1] = mesh[k]
      <4>1. CASE k \in 1..Len(rgIndices)
        BY <1>1, <2>5, <4>1 DEF IndicesName
      <4>2. CASE k = Len(rgIndices) + 1
        BY <2>1, <2>3, <2>5, <4>2 DEF Vertex
      <4> QED
        BY <2>3, <4>1, <4>2
    <3>3. ASSUME NEW j \in 1..Len(mapUnique)
          PROVE  \E k \in 1..Len(rgIndices) + 1 : rgIndices'[k] + 1 = j
      <4>1. PICK k \in 1..Len(rgIndices) : rgIndices[k] + 1 = j
        BY <1>1 DEF IndicesName
      <4> QED
        BY <2>3, <2>5, <4>1, SMTT(60)
    <3> QED
      BY <2>2, <2>5, <3>1, <3>2, <3>3 DEF IndicesName
  <2>7. EachVertexOnce'
    BY <1>1, <2>2, Zenon DEF EachVertexOnce
  <2>8. DistancesKept' /\ FileFollows' /\ MappedHolds'
    BY <1>1, <2>2 DEF DistancesKept, FileFollows, MappedHolds, PosCur
  <2> QED
    BY <2>4, <2>6, <2>7, <2>8 DEF SaveInv
<1> QED
  BY <1>2, <1>3

LEMMA CountVerticesKeeps == SaveInv /\ CountVertices => SaveInv'
<1> SUFFICES ASSUME SaveInv, CountVertices PROVE SaveInv'
  OBVIOUS
<1>1. /\ SaveTypeOK /\ IndicesName /\ EachVertexOnce /\ DistancesKept /\ FileFollows /\ MappedHolds
      /\ at = "vertices" /\ at' = "sizing" /\ Len(rgIndices) = Len(mesh)
      /\ file' = [file EXCEPT !.header.nVertices = Len(mapUnique)]
      /\ UNCHANGED <<mesh, mapped, mapUnique, rgIndices>>
  BY DEF SaveInv, CountVertices
<1>2. Len(mapUnique) \in Nat /\ file.vertices = mapUnique
  BY <1>1 DEF SaveTypeOK, FileFollows
<1>3. /\ file'.vertices = file.vertices /\ file'.indices = file.indices /\ file'.size = file.size
      /\ file'.header.nVertices = Len(mapUnique) /\ file'.header.nIndices = file.header.nIndices
      /\ file'.header.maxDistance = file.header.maxDistance
      /\ file'.header.byQuadrant = file.header.byQuadrant
  BY <1>1 DEF SaveTypeOK, HeaderType
<1>4. SaveTypeOK'
  BY <1>1, <1>2 DEF SaveTypeOK, HeaderType
<1>5. IndicesName' /\ EachVertexOnce'
  BY <1>1, Zenon DEF IndicesName, EachVertexOnce
<1>6. DistancesKept'
  BY <1>1, <1>3 DEF DistancesKept
<1>7. FileFollows'
  BY <1>1, <1>2, <1>3 DEF FileFollows
<1>8. MappedHolds'
  BY <1>1, <1>3 DEF MappedHolds, PosCur
<1> QED
  BY <1>4, <1>5, <1>6, <1>7, <1>8 DEF SaveInv

LEMMA ResizeFileKeeps == SaveInv /\ ResizeFile => SaveInv'
<1> SUFFICES ASSUME SaveInv, ResizeFile PROVE SaveInv'
  OBVIOUS
<1>1. /\ SaveTypeOK /\ IndicesName /\ EachVertexOnce /\ DistancesKept /\ FileFollows /\ MappedHolds
      /\ at = "sizing"
  BY DEF SaveInv, ResizeFile
<1>2. PosCur \in Nat /\ SizeForIndices \in Nat /\ file.size \in Nat /\ PosCur <= SizeForIndices
  <2>1. Len(mesh) \in Nat /\ file.size \in Nat /\ Len(file.vertices) \in Nat
    BY <1>1 DEF SaveTypeOK
  <2>2. VertexLen * Len(file.vertices) \in Nat
    BY <2>1, SaveAssumption
  <2>3. PosCur \in Nat
    BY <2>2, SaveAssumption DEF PosCur
  <2> QED
    BY <2>1, <2>3 DEF SizeForIndices
<1>3. CASE \E size \in {file.size, SizeForIndices} : Throw(size)
  BY <1>1, <1>2, <1>3, ThrowKeeps
<1>4. CASE ~ \E size \in {file.size, SizeForIndices} : Throw(size)
  <2>1. /\ file' = [file EXCEPT !.size = SizeForIndices]
        /\ mapped' = (IF SizeForIndices # file.size THEN Remapped ELSE mapped)
        /\ at' = "indices" /\ UNCHANGED <<mesh, mapUnique, rgIndices>>
    BY <1>4 DEF ResizeFile
  <2>2. /\ file'.header = file.header /\ file'.vertices = file.vertices
        /\ file'.indices = file.indices /\ file'.size = SizeForIndices
    BY <1>1, <2>1 DEF SaveTypeOK
  <2>3. mapped' \in [attribs : BOOLEAN, file : BOOLEAN] /\ mapped'.file
    BY <1>1, <2>1, SaveAssumption DEF SaveTypeOK, MappedHolds, Remapped
  <2>4. SaveTypeOK'
    BY <1>1, <1>2, <2>1, <2>3, Zenon DEF SaveTypeOK
  <2>5. IndicesName' /\ EachVertexOnce'
    BY <1>1, <2>1, Zenon DEF IndicesName, EachVertexOnce
  <2>6. DistancesKept'
    BY <1>1, <2>2 DEF DistancesKept
  <2>7. SizeForIndices' = SizeForIndices /\ PosCur' = PosCur
    BY <2>1, <2>2 DEF SizeForIndices, PosCur
  <2>8. FileFollows'
    BY <1>1, <2>1, <2>2, <2>7 DEF FileFollows
  <2>9. MappedHolds'
    BY <1>1, <1>2, <2>1, <2>2, <2>3, <2>7 DEF MappedHolds
  <2> QED
    BY <2>4, <2>5, <2>6, <2>8, <2>9 DEF SaveInv
<1> QED
  BY <1>3, <1>4 DEF ResizeFile

LEMMA CopyIndicesKeeps == SaveInv /\ CopyIndices => SaveInv'
<1> SUFFICES ASSUME SaveInv, CopyIndices PROVE SaveInv'
  OBVIOUS
<1>1. /\ SaveTypeOK /\ IndicesName /\ EachVertexOnce /\ DistancesKept /\ FileFollows /\ MappedHolds
      /\ at = "indices" /\ at' = "done" /\ file' = [file EXCEPT !.indices = rgIndices]
      /\ mapped' = Unmapped /\ UNCHANGED <<mesh, mapUnique, rgIndices>>
  BY DEF SaveInv, CopyIndices
<1>2. /\ file'.header = file.header /\ file'.vertices = file.vertices
      /\ file'.indices = rgIndices /\ file'.size = file.size
  BY <1>1 DEF SaveTypeOK
<1>3. SaveTypeOK'
  BY <1>1, Zenon DEF SaveTypeOK, Unmapped
<1>4. IndicesName' /\ EachVertexOnce'
  BY <1>1, Zenon DEF IndicesName, EachVertexOnce
<1>5. DistancesKept'
  BY <1>1, <1>2 DEF DistancesKept
<1>6. SizeForIndices' = SizeForIndices
  BY <1>1, <1>2 DEF SizeForIndices, PosCur
<1>7. FileFollows'
  BY <1>1, <1>2, <1>6 DEF FileFollows
<1>8. MappedHolds'
  BY <1>1 DEF MappedHolds, Unmapped
<1> QED
  BY <1>3, <1>4, <1>5, <1>7, <1>8 DEF SaveInv

THEOREM SaveInvariance == SpecSave => []SaveInv
<1>1. SaveInv /\ UNCHANGED saveVars => SaveInv'
  <2> SUFFICES ASSUME SaveInv, UNCHANGED saveVars PROVE SaveInv'
    BY SMTT(60)
  <2>1. SaveTypeOK' /\ EachVertexOnce'
    BY Zenon DEF SaveInv, SaveTypeOK, EachVertexOnce, saveVars
  <2>2. IndicesName'
    BY DEF SaveInv, IndicesName, saveVars
  <2>3. DistancesKept' /\ MappedHolds'
    BY DEF SaveInv, DistancesKept, MappedHolds, PosCur, saveVars
  <2>4. FileFollows'
    BY DEF SaveInv, FileFollows, SizeForIndices, PosCur, saveVars
  <2> QED
    BY <2>1, <2>2, <2>3, <2>4 DEF SaveInv
<1>2. SaveInv /\ [NextSave]_saveVars => SaveInv'
  BY <1>1, CreateFileKeeps, AddUniqueKeeps, AddExistingKeeps, CountVerticesKeeps, ResizeFileKeeps,
     CopyIndicesKeeps DEF NextSave
<1> QED
  BY <1>2, InitialSave, PTL DEF SpecSave

-----------------------------------------------------------------------------
(* What a saved model is. *)

LEMMA GreatestIsLargest ==
  ASSUME NEW n \in Nat, NEW S \in SUBSET Nat, Greatest(n, S)
  PROVE  n = Largest(S)
<1>1. n \in S \cup {0} /\ \A m \in S : m <= n
  BY DEF Greatest
<1>2. ASSUME NEW j \in S \cup {0}, \A m \in S : m <= j PROVE j = n
  BY <1>1, <1>2
<1> QED
  BY <1>1, <1>2 DEF Largest

LEMMA MeshIsUnique ==
  ASSUME SaveTypeOK, IndicesName, Len(rgIndices) = Len(mesh)
  PROVE  {mesh[k] : k \in DOMAIN mesh} = {mapUnique[i] : i \in 1..Len(mapUnique)}
<1>1. DOMAIN mesh = 1..Len(rgIndices) /\ Len(mapUnique) \in Nat
  BY DEF SaveTypeOK
<1>2. ASSUME NEW k \in 1..Len(rgIndices)
      PROVE  \E i \in 1..Len(mapUnique) : mapUnique[i] = mesh[k]
  <2>1. rgIndices[k] \in Nat /\ rgIndices[k] < Len(mapUnique) /\ mapUnique[rgIndices[k] + 1] = mesh[k]
    BY DEF SaveTypeOK, IndicesName
  <2>2. rgIndices[k] + 1 \in 1..Len(mapUnique)
    BY <1>1, <2>1
  <2> QED
    BY <2>1, <2>2
<1>3. ASSUME NEW i \in 1..Len(mapUnique)
      PROVE  \E k \in 1..Len(rgIndices) : mesh[k] = mapUnique[i]
  <2>1. PICK k \in 1..Len(rgIndices) : rgIndices[k] + 1 = i
    BY DEF IndicesName
  <2> QED
    BY <2>1 DEF IndicesName
<1>4. {mesh[k] : k \in DOMAIN mesh} \subseteq {mapUnique[i] : i \in 1..Len(mapUnique)}
  BY <1>1, <1>2
<1>5. {mapUnique[i] : i \in 1..Len(mapUnique)} \subseteq {mesh[k] : k \in DOMAIN mesh}
  BY <1>1, <1>3
<1> QED
  BY <1>4, <1>5

\* The same distances, by vertex and by the place of the vertex.
LEMMA DistancesOfRange ==
  ASSUME NEW s, NEW q
  PROVE  DistancesIn(s, q) = {v.distance : v \in {u \in {s[i] : i \in 1..Len(s)} : u.quadrant = q}}
<1> DEFINE R == {u \in {s[i] : i \in 1..Len(s)} : u.quadrant = q}
           I == {j \in 1..Len(s) : s[j].quadrant = q}
<1>1. \A i \in I : s[i] \in R
  OBVIOUS
<1>2. \A v \in R : \E i \in I : v = s[i]
  OBVIOUS
<1> HIDE DEF R, I
<1>3. {s[i].distance : i \in I} = {v.distance : v \in R}
  BY <1>1, <1>2
<1> QED
  BY <1>3 DEF DistancesIn, R, I

LEMMA SavedModelIsWhole == SaveInv => SavedIsWhole
<1> SUFFICES ASSUME SaveInv, at = "done" PROVE SavedIsWhole
  BY DEF SavedIsWhole
<1>1. /\ SaveTypeOK /\ IndicesName /\ EachVertexOnce /\ DistancesKept
      /\ file.vertices = mapUnique /\ file.indices = rgIndices /\ file.size = SizeForIndices
      /\ Len(rgIndices) = Len(mesh) /\ file.header.nVertices = Len(file.vertices)
      /\ file.header.nIndices = Len(mesh)
  BY DEF SaveInv, FileFollows
<1> DEFINE Whole == {mesh[k] : k \in DOMAIN mesh}
<1>2. Whole = {mapUnique[i] : i \in 1..Len(mapUnique)}
  BY <1>1, MeshIsUnique, Zenon
<1>3. file.header.nVertices = Cardinality(Whole)
  BY <1>1, <1>2, Zenon DEF EachVertexOnce
<1>4. ASSUME NEW k \in DOMAIN mesh PROVE VertexAt(IndexAt(k)) = mesh[k]
  <2>1. k \in 1..Len(rgIndices) /\ k \in DOMAIN rgIndices
    BY <1>1 DEF SaveTypeOK
  <2> QED
    BY <1>1, <2>1 DEF IndicesName, VertexAt, IndexAt
<1>5. /\ mapUnique \in Seq(Vertices)
      /\ file.header.maxDistance \in Nat /\ file.header.byQuadrant \in [Quadrants -> Nat]
  BY <1>1 DEF SaveTypeOK, HeaderType
<1>6. {mesh[k].distance : k \in DOMAIN mesh} = Distances(mapUnique)
  <2>1. {mesh[k].distance : k \in DOMAIN mesh} = {v.distance : v \in Whole}
    OBVIOUS
  <2>2. Distances(mapUnique) = {v.distance : v \in {mapUnique[i] : i \in 1..Len(mapUnique)}}
    BY DEF Distances
  <2> QED
    BY <1>2, <2>1, <2>2
<1>7. \A q \in Quadrants :
          {v.distance : v \in {u \in Whole : u.quadrant = q}} = DistancesIn(mapUnique, q)
  BY <1>2, DistancesOfRange
<1>8. \A i \in 1..Len(mapUnique) : mapUnique[i].distance \in Nat
  <2>1. \A i \in 1..Len(mapUnique) : mapUnique[i] \in Vertices
    BY <1>5
  <2> QED
    BY <2>1, SaveAssumption
<1>9. Distances(mapUnique) \in SUBSET Nat /\ \A q \in Quadrants : DistancesIn(mapUnique, q) \in SUBSET Nat
  BY <1>8 DEF Distances, DistancesIn
<1>10. file.header.maxDistance = Largest({mesh[k].distance : k \in DOMAIN mesh})
  <2>1. Greatest(file.header.maxDistance, Distances(mapUnique))
    BY <1>1 DEF DistancesKept
  <2> QED
    BY <1>5, <1>6, <1>9, <2>1, GreatestIsLargest
<1>11. ASSUME NEW q \in Quadrants
       PROVE  file.header.byQuadrant[q] = Largest({v.distance : v \in {u \in Whole : u.quadrant = q}})
  <2>1. Greatest(file.header.byQuadrant[q], DistancesIn(mapUnique, q)) /\ file.header.byQuadrant[q] \in Nat
    BY <1>1, <1>5 DEF DistancesKept
  <2>2. file.header.byQuadrant[q] = Largest(DistancesIn(mapUnique, q))
    BY <1>9, <2>1, GreatestIsLargest
  <2> QED
    BY <1>7, <2>2
<1>12. Loads
  <2>1. Len(file.vertices) \in Nat /\ Len(mesh) \in Nat
    BY <1>1 DEF SaveTypeOK
  <2>2. VertexLen * Len(file.vertices) \in Nat
    BY <2>1, SaveAssumption
  <2>3. PIndexBegin + file.header.nIndices = file.size
    BY <1>1 DEF PIndexBegin, SizeForIndices, PosCur
  <2>4. file.size # 0
    BY <1>1, <2>1, <2>2, SaveAssumption DEF SizeForIndices, PosCur
  <2> QED
    BY <2>3, <2>4 DEF Loads
<1> QED
  BY <1>1, <1>3, <1>4, <1>10, <1>11, <1>12 DEF SavedIsWhole

LEMMA TornModelIsUsable == SaveInv => TornIsUsable
<1> SUFFICES ASSUME SaveInv PROVE TornIsUsable
  OBVIOUS
<1>1. SaveTypeOK /\ IndicesName /\ FileFollows /\ MappedHolds
  BY DEF SaveInv
<1>2. mapped.file => PosCur <= file.size
  BY <1>1 DEF MappedHolds
<1>3. ASSUME file.header.nVertices > 0, NEW k \in 1..file.header.nIndices
      PROVE  IndexAt(k) < Len(file.vertices)
  <2>1. at # "crashed" /\ file.vertices = mapUnique /\ Len(file.vertices) > 0
    BY <1>1, <1>3 DEF FileFollows, SaveTypeOK
  <2>2. CASE k \in DOMAIN file.indices
    <3>1. file.indices = rgIndices /\ k \in 1..Len(rgIndices)
      BY <1>1, <2>2 DEF FileFollows, SaveTypeOK
    <3> QED
      BY <1>1, <2>1, <2>2, <3>1 DEF IndicesName, IndexAt
  <2>3. CASE k \notin DOMAIN file.indices
    BY <2>1, <2>3 DEF IndexAt
  <2> QED
    BY <2>2, <2>3
<1> QED
  BY <1>2, <1>3 DEF TornIsUsable

\* A model that was saved is loaded as it was, and one whose saving an exception
\* ended names nothing that is not in its file (obj_save.h:107, obj_load.h:39),
\* also where the file moves when it grows.
THEOREM SavedModelsAreWhole == SpecSave => [](SavedIsWhole /\ TornIsUsable)
BY SaveInvariance, SavedModelIsWhole, TornModelIsUsable, PTL

\* Where a file that grows stays where it is mapped, the header is never written
\* through the pointer of a mapping that has gone (obj_save.h:282).
THEOREM SavedModelsLoad == ASSUME ~Moves PROVE SpecSave => []SavedIsLoaded
<1>1. SaveInv => SavedIsLoaded
  BY SavedModelIsWhole, TornModelIsUsable DEF SaveInv, MappedHolds, SavedIsLoaded
<1> QED
  BY <1>1, SaveInvariance, PTL

=============================================================================
