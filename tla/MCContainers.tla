---------------------------- MODULE MCContainers ----------------------------
(***************************************************************************)
(* Small instances of the containers and of the pointers, each used by     *)
(* itself; which says which one.  The sets of numbers: a tree of two words *)
(* of two bits to a cluster, 16 numbers in 4 clusters; one of its leaves;  *)
(* and a bit vector of words of four bits, of which the last is partly     *)
(* used, or full.                                                          *)
(***************************************************************************)
EXTENDS GcObjects, VebTree, VebBottom, ReserveString, ObjSave, TLC

CONSTANTS
    Which,          \* the containers to use
    Arrays, ArrayValues, NoArray, Raw, Default

VARIABLES
    which,
    bv, bop, bret,
    arr, shape, call,
    ptr, count, life, todo, exc, broken

SomeSizes == {7, 8, 10, 16}
SomeLengths == {4, 6, 7}

Vector == INSTANCE BitVectors WITH WordBits <- 4, NibbleBits <- 2, Lengths <- SomeLengths,
                                   MaxShift <- 13, op <- bop, ret <- bret

SomeShapes == {[min |-> 0, max |-> 1], [min |-> 0, max |-> 2], [min |-> 1, max |-> 2]}

Blocks == INSTANCE LogArray WITH Shapes <- SomeShapes, PtrsIn <- 2, Values <- ArrayValues, Moved <- Default,
                                 MaxElements <- 5, MaxTogether <- 3

TwoThreads == ("t" :> {"p", "q"}) @@ ("u" :> {"r"})

Pointers == INSTANCE SharedPtr WITH Threads <- {"t", "u"}, Locals <- TwoThreads,
                                    DtorMayThrow <- TRUE, DtorAllowThrow <- TRUE, CtorMayThrow <- TRUE

\* One thread has the handles whose names are in capitals.
OwnerOf == [x \in Ptrs \cup Refs |-> IF x \in {"P", "R"} THEN "t" ELSE "u"]

SomeVertices == {[quadrant |-> 0, distance |-> 1], [quadrant |-> 0, distance |-> 2], [quadrant |-> 7, distance |-> 2]}

vectorvars == <<bv, bop, bret>>
arrayvars == <<arr, shape, call>>
pointervars == <<ptr, count, life, todo, exc, broken>>

ContainersInit ==
    /\ which \in Which
    /\ Init /\ InitTree /\ InitLeaf /\ Vector!Init /\ Blocks!Init /\ Pointers!Init /\ InitStrings /\ InitSave
    /\ which # "blocks" => shape = CHOOSE s \in [Arrays -> SomeShapes] : TRUE
    /\ which # "saved" => mesh = <<>>
    /\ which # "collected" => kind = "member" /\ cow

ContainersNext ==
    /\ which' = which
    /\ \/ which = "tree" /\ NextTree /\ UNCHANGED <<leafVars, vectorvars, arrayvars, pointervars, stringVars, vars, saveVars>>
       \/ which = "leaf" /\ NextLeaf /\ UNCHANGED <<treeVars, vectorvars, arrayvars, pointervars, stringVars, vars, saveVars>>
       \/ which = "vector" /\ Vector!Next /\ UNCHANGED <<treeVars, leafVars, arrayvars, pointervars, stringVars, vars, saveVars>>
       \/ which = "blocks" /\ Blocks!Next /\ UNCHANGED <<treeVars, leafVars, vectorvars, pointervars, stringVars, vars, saveVars>>
       \/ which = "pointers" /\ Pointers!Next /\ UNCHANGED <<treeVars, leafVars, vectorvars, arrayvars, stringVars, vars, saveVars>>
       \/ which = "strings" /\ NextStrings /\ UNCHANGED <<treeVars, leafVars, vectorvars, arrayvars, pointervars, vars, saveVars>>
       \/ which = "collected" /\ Next /\ UNCHANGED <<treeVars, leafVars, vectorvars, arrayvars, pointervars, stringVars, saveVars>>
       \/ which = "saved" /\ NextSave /\ UNCHANGED <<treeVars, leafVars, vectorvars, arrayvars, pointervars, stringVars, vars>>

ContainersSpec ==
    ContainersInit
    /\ [][ContainersNext]_<<which, treeVars, leafVars, vectorvars, arrayvars, pointervars, stringVars, vars, saveVars>>

\* Of the container in use, and without what the last operation was.
View == CASE which = "tree" -> <<which, tree>>
          [] which = "leaf" -> <<which, leaf>>
          [] which = "vector" -> <<which, bv>>
          [] which = "blocks" -> <<which, arr, shape, Blocks!Running>>
          [] which = "pointers" -> <<which, pointervars>>
          [] which = "strings" -> <<which, str, made, astray>>
          [] which = "collected" -> <<which, vars>>
          [] which = "saved" -> <<which, saveVars>>

Symm == Permutations(Objects)

-----------------------------------------------------------------------------

\* No word of a vector has a bit beyond its end, and searches in a vector answer
\* as the set of the numbers does.
VectorIsSound == which = "vector" => Vector!BeyondEndIsZero /\ Vector!BitSearchesAgree

\* What each module says of its own state.
BlocksAreSound == which = "blocks" => Blocks!BlocksAreSound
PointersAreSound == which = "pointers" => Pointers!PointersAreSound

\* Every container does what its abstract specification says: sets of numbers,
\* sequences of elements, references to objects, texts, and values.
ContainersImplement ==
    /\ Set!Init /\ LeafSet!Init /\ Vector!BitSet!Init /\ Blocks!Abstract!Init
    /\ Pointers!IntrusiveLifetime!Init /\ Cells!Init
    /\ [][CASE which = "tree" -> Set!Next
            [] which = "leaf" -> LeafSet!Next
            [] which = "vector" -> Vector!BitSet!Next
            [] which = "blocks" -> Blocks!Abstract!Next \/ UNCHANGED arrayvars
            [] which = "pointers" -> Pointers!IntrusiveLifetime!Next \/ UNCHANGED Pointers!IntrusiveLifetime!vars
            [] which = "strings" -> CallAsPromised
            [] which = "collected" -> Cells!Next
            [] which = "saved" -> TRUE
       ]_<<treeVars, leafVars, vectorvars, arrayvars, pointervars, stringVars, vars>>
=============================================================================
