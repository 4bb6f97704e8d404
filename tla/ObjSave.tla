------------------------------- MODULE ObjSave -------------------------------
(***************************************************************************)
(* ObjOptimizer of obj_save.h and OptimizedObjLoader of obj_load.h: a model *)
(* of a mesh, each vertex once, is written through a mapping of a file that *)
(* grows by blocks of vertices and is cut to size for the indices; what is  *)
(* in the file is a header, the vertices and the indices.  What is written  *)
(* is in the file however the program ends.                                *)
(***************************************************************************)
EXTENDS Naturals, Sequences, FiniteSets

CONSTANTS
    Vertices,       \* records of a quadrant and the distance from the origin
    VertexLen,      \* sizeof(_TyVertex), in units of an index
    VertexBegin,    \* sizeof(OptObjAttribs), aligned for a vertex; fits in the first block
    VertexGrowBy,   \* s_kstVertexGrowBy: a block has so many
    MaxIndices,     \* bound: the indices of a mesh
    Moves           \* a file that is mapped again may be mapped elsewhere

\* Distances are not negative, and the header, which is not empty, fits in the first block.
ASSUME SaveAssumption ==
    /\ \A v \in Vertices : v.distance \in Nat
    /\ VertexLen \in Nat \ {0} /\ VertexGrowBy \in Nat \ {0}
    /\ VertexBegin \in 1..VertexLen * VertexGrowBy
    /\ MaxIndices \in Nat /\ Moves \in BOOLEAN

VARIABLES
    mesh,           \* the vertices of all shapes, in the order of their indices
    file,           \* the header, the content behind it, and the size
    mapped,         \* whether the file is mapped, and whether m_pAttribs points into it
    mapUnique,      \* mapUniqueVertices: in the order of their indices
    rgIndices,
    at              \* open, vertices, sizing, indices, done, thrown or crashed

saveVars == <<mesh, file, mapped, mapUnique, rgIndices, at>>

Quadrants == {v.quadrant : v \in Vertices}
Unmapped == [attribs |-> FALSE, file |-> FALSE]
Header == [nVertices |-> 0, nIndices |-> 0, maxDistance |-> 0, byQuadrant |-> [q \in Quadrants |-> 0]]
NoFile == [header |-> Header, vertices |-> <<>>, indices |-> <<>>, size |-> 0]

InitSave ==
    /\ mesh \in UNION {[1..n -> Vertices] : n \in 0..MaxIndices}
    /\ file = NoFile /\ mapped = Unmapped
    /\ mapUnique = <<>> /\ rgIndices = <<>> /\ at = "open"

\* m_pbyCur, from the beginning of the file: the vertices come first.
PosCur == VertexBegin + VertexLen * Len(file.vertices)
Further(v) == IF v > file.header.maxDistance THEN v ELSE file.header.maxDistance
FurtherIn(v) == IF v.distance > file.header.byQuadrant[v.quadrant] THEN v.distance ELSE file.header.byQuadrant[v.quadrant]

\* Something throws: an allocation, or a system call when the file has this size.
Throw(size) ==
    /\ at' = "thrown" /\ file' = [file EXCEPT !.size = size] /\ mapped' = Unmapped
    /\ UNCHANGED <<mesh, mapUnique, rgIndices>>

\* _SetMappedSize: m_pAttribs keeps pointing to where the file was mapped before.
Remapped == [file |-> TRUE, attribs |-> mapped.attribs /\ ~Moves]
CreateFile ==
    /\ at = "open"
    /\ \/ \E size \in {0, VertexLen * VertexGrowBy} : Throw(size)
       \/ /\ file' = [file EXCEPT !.size = VertexLen * VertexGrowBy, !.header.nIndices = Len(mesh)]
          /\ mapped' = [file |-> TRUE, attribs |-> TRUE] /\ at' = "vertices"
          /\ UNCHANGED <<mesh, mapUnique, rgIndices>>

Vertex == mesh[Len(rgIndices) + 1]
IsUnique == \A i \in DOMAIN mapUnique : mapUnique[i] # Vertex
GrownSize == IF file.size - PosCur < VertexLen THEN file.size + VertexLen * VertexGrowBy ELSE file.size

\* WriteVertex, and the distances of the header.
WriteVertex(v) ==
    [file EXCEPT !.vertices = Append(@, v), !.size = GrownSize, !.header.maxDistance = Further(v.distance),
                 !.header.byQuadrant[v.quadrant] = FurtherIn(v)]

AddUnique ==
    /\ at = "vertices" /\ Len(rgIndices) < Len(mesh) /\ IsUnique
    /\ \/ \E size \in {file.size, GrownSize} : Throw(size)
       \/ /\ mapped' = IF GrownSize # file.size THEN Remapped ELSE mapped
          /\ mapUnique' = Append(mapUnique, Vertex) /\ rgIndices' = Append(rgIndices, Len(mapUnique))
          /\ IF mapped'.attribs THEN file' = WriteVertex(Vertex) /\ at' = at
             ELSE file' = file /\ at' = "crashed"
          /\ mesh' = mesh

AddExisting ==
    /\ at = "vertices" /\ Len(rgIndices) < Len(mesh) /\ ~IsUnique
    /\ \/ Throw(file.size)
       \/ /\ \E i \in DOMAIN mapUnique : mapUnique[i] = Vertex /\ rgIndices' = Append(rgIndices, i - 1)
          /\ UNCHANGED <<mesh, file, mapped, mapUnique, at>>

CountVertices ==
    /\ at = "vertices" /\ Len(rgIndices) = Len(mesh)
    /\ at' = "sizing" /\ file' = [file EXCEPT !.header.nVertices = Len(mapUnique)]
    /\ UNCHANGED <<mesh, mapped, mapUnique, rgIndices>>

\* Mutant: the file only grows.
SizeForIndicesGrows == IF PosCur + Len(mesh) > file.size THEN PosCur + Len(mesh) ELSE file.size

\* WriteIndices: the file ends with the indices.
SizeForIndices == PosCur + Len(mesh)

ResizeFile ==
    /\ at = "sizing"
    /\ \/ SizeForIndices # file.size /\ \E size \in {file.size, SizeForIndices} : Throw(size)
       \/ /\ file' = [file EXCEPT !.size = SizeForIndices]
          /\ mapped' = IF SizeForIndices # file.size THEN Remapped ELSE mapped
          /\ at' = "indices" /\ UNCHANGED <<mesh, mapUnique, rgIndices>>

CopyIndices ==
    /\ at = "indices"
    /\ at' = "done" /\ file' = [file EXCEPT !.indices = rgIndices] /\ mapped' = Unmapped
    /\ UNCHANGED <<mesh, mapUnique, rgIndices>>

NextSave == CreateFile \/ AddUnique \/ AddExisting \/ CountVertices \/ ResizeFile \/ CopyIndices

SpecSave == InitSave /\ [][NextSave]_saveVars

-----------------------------------------------------------------------------
\* The constructor of OptimizedObjLoader: the indices end where the file ends.
PIndexBegin == VertexBegin + VertexLen * file.header.nVertices
Loads == file.size # 0 /\ PIndexBegin + file.header.nIndices = file.size

\* What is in the file where no indices were written is zeros.
IndexAt(k) == IF k \in DOMAIN file.indices THEN file.indices[k] ELSE 0
VertexAt(i) == file.vertices[i + 1]
Largest(set) == CHOOSE n \in set \cup {0} : \A m \in set : m <= n

\* A model that was saved is loaded as it was, each of its vertices once, with the
\* distances of its farthest vertices (obj_save.h:107, obj_load.h:39).
SavedIsWhole ==
    at = "done" =>
        /\ Loads
        /\ file.header.nVertices = Cardinality({mesh[k] : k \in DOMAIN mesh})
        /\ file.header.nIndices = Len(mesh)
        /\ \A k \in DOMAIN mesh : VertexAt(IndexAt(k)) = mesh[k]
        /\ file.header.maxDistance = Largest({mesh[k].distance : k \in DOMAIN mesh})
        /\ \A q \in Quadrants :
               file.header.byQuadrant[q] =
                   Largest({v.distance : v \in {u \in {mesh[k] : k \in DOMAIN mesh} : u.quadrant = q}})

\* Wherever the program stops, what it leaves is within its file, and when that
\* loads with vertices every index names one.
TornIsUsable ==
    /\ mapped.file => PosCur <= file.size
    /\ Loads /\ file.header.nVertices > 0 =>
           \A k \in 1..file.header.nIndices : IndexAt(k) < Len(file.vertices)

SavedIsLoaded == SavedIsWhole /\ TornIsUsable /\ at # "crashed"
=============================================================================
