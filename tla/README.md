# A TLA+ model of bienutil

bienutil is a header-only C++ library of utilities: reference-counted pointers,
segmented buffers and in-memory files, search structures, JSON streams, a log
manager, and wrappers of operating-system and graphics handles.  This directory
holds TLA+ modules translated from its source, the TLC configurations that check
them, and theorems about them that TLAPS checks.

    tlc -workers 2 -config SharedWeakPtr_threads.cfg MCSharedWeakPtr
    tlc -workers 2 -config Buffers_all.cfg MCBuffers
    tlc -workers 2 -config Containers_all.cfg MCContainers
    tlc -workers 2 -config Json_streams.cfg MCJson
    tlapm SharedWeakPtr_proofs.tla
    tlapm MemFile_proofs.tla
    tlapm GcObjects_proofs.tla
    tlapm SysLog_proofs.tla
    tlapm ReserveString_proofs.tla
    tlapm VebTree_proofs.tla
    tlapm ObjSave_proofs.tla
    tlapm JsonOutput_proofs.tla

Four modules make small instances: `MCSharedWeakPtr`, `MCBuffers`, `MCContainers`
and `MCJson`.  The last three have several components side by side that do not know of each
other; their variable `which` says which one a behaviour uses (one of `Which`, a constant),
and the view of a run leaves the others out.

## Inventory

The library has no process of its own: each component is a data structure that a
client calls.  Threads meet in the shared/weak and the intrusive pointers, in the
collected objects and in the in-memory file with its mutex; the log manager keeps
one object per thread beside process-wide defaults.

| Component | State | Operations | Interacts with | Hard part | Correct when |
|---|---|---|---|---|---|
| `_shwkptr.h` shared/weak pointers | a control block with two atomic counters, the object inside it, one pointer per variable | construct, copy, move, convert, assign, swap, emplace, reset | `FAtomicAddNotEqual` of `_util.h`; T's destructor calls back | interleaved atomic accesses, throwing destructors and allocators, an object that watches itself | counts are exact, object lives as long as an owner, block as long as a reference, each released once |
| `shared_obj.h` intrusive pointer | a count inside the object | the same, without weak pointers | T's destructor releases other pointers | recursive destruction, exceptions on the way of exceptions | as above |
| `segarray.h` `SegArray` | a block of segment pointers, an element count | SetSize, Insert, Remove, Overwrite, Read, Compact, Clear | used by the next three, and by JSON and log output in memory | offsets in segments, growth that fails half way, the 0-element edge | it is a sequence |
| `segarray.h` `SegArrayRotatingBuffer` | a SegArray and a base element | SetIBaseEl, CopyDataAndAdvanceBuffer, SetSize | segments rotate | base across segments | it is a window on a sequence |
| `fdrotbuf.h` | a rotating buffer, a position, a length | FGetChar, ConsumeData, DiscardData | a file descriptor | read-ahead, end of file, short reads | characters come out in file order |
| `memfile.h` | a SegArray, a mutex; per stream a position | Seek, Read, Write | streams share the file | threads, many chunks in one call | each call is atomic |
| `_vebtree.h` | summaries, clusters, minimum and maximum | insert, delete, successor, predecessor, set operations, resize | recursion over halves of the word | the minimum that is in no cluster; numbers that fill their type | it is a set of numbers |
| `_simpbv.h`, `fixedbv.h`, `_bitutil.h` | words of bits | set, clear, search, shift | - | word boundaries, a last word partly used | it is a set of indices |
| `_logarray.h` | blocks of growing size, a signed count | emplaceAtEnd, SetSize, Remove, copies | - | a count that is negative after an exception; block boundaries | it is a sequence |
| `_garcoll.h` | objects with an atomic count, handles that may copy on write | construct, assign, access, swap | handles of several threads share objects | copying while others let go | a handle is a value |
| `strwrsv.h` | a buffer, or a `std::string` made in it, and a flag byte | assign, resize, append, swap, move | `std::string` | going from one to the other, exceptions between | it is a text |
| `utfconvert.h` | - | conversions between UTF-8, -16, -32 | JSON, log, strings | surrogates, text cut short, small buffers | the text is the same text |
| `syslogmgr.*`, `bien_assert.h` | a manager per thread with a stream, a root and an array; a re-entrancy flag; process-wide defaults | Log, Trace, CloseThreadSysLog, assertions, abort | JSON output, system log; logging from within logging | re-entrancy, failures while opening and closing | one manager, one report at a time, a whole file |
| `jsonstrm.h` | a stack of read contexts, or of open values; an output file, mapping or buffer | move, read, skip; open and close values; write, close, move streams | files, memory, `_fdobjs.h` | half-read values, nesting, exceptions | what is written is read back, and only JSON is |
| `jsonobjs.h` | a tree of values | FromJSONStream, ToJSONStream, GetEl, assignments, comparisons | cursor and lives of `jsonstrm.h` | filters, keys that come twice | the value is the document |
| `obj_save.h`, `obj_load.h` | a header, vertices and indices in a mapped file | write, grow, cut; load | files | a pointer into a mapping that is replaced; a file left unfinished | what is loaded is what was saved |
| `_rbtree.h`, `_typemap.h`, `_basemap.h`, `_pset.h`, `_mtlist.h`, `_lcirc.h`, `jsonpath.h`, `updlist.h`, `utfsupp.h` | linked nodes, paths | - | - | - | cannot be compiled: see *Not modelled* |
| everything else | handles, traits, glue | RAII, I/O | OS, GL, Vulkan, JNI | - | not modelled: see below |

`PROJECT.json` lists each component with its status, and the hazards: the places
where this code can go wrong in a way a test would hardly reach.

## How the modules build on each other

    SharedWeakPtr => SharedLifetime <= SharedPtr          SharedWeakPtr -- SharedWeakPtr_proofs
    SegArrayOps -- SegArray => ElementSeq <= LogArray
        |-- RotatingBuffer -- RotatingClient => ElementWindow (uses ElementSeq)
        |           `-------- FdReadRotating
        `-- MemFile => AtomicFile                         MemFile -- MemFile_proofs
    VebWords -- VebBottom => IndexSet <= VebTree -- VebWords
                             IndexSet <= BitVectors       VebBottom, VebTree -- VebTree_proofs
    GcObjects => ValueCells                               GcObjects -- GcObjects_proofs
    ReserveString -- ReserveString_proofs                 SysLog -- SysLog_proofs
    ObjSave -- ObjSave_proofs                             Utf
    JsonText -- JsonScan -- JsonTexts
                   `-- JsonCursor
    JsonText -- JsonWrite -- JsonWriter            JsonCursor, JsonWriter -- JsonCopy => JsonWalk
    JsonCursor, JsonWrite -- JsonObjects           JsonOutput -- JsonOutput_proofs

`=>` is "implements", checked as a property of a run; `--` is "is used by".
`MCBuffers` extends `MemFile`, `MCContainers` extends `GcObjects`, `VebTree`, `VebBottom`,
`ReserveString` and `ObjSave`, and `MCJson` extends `SysLog` and `JsonOutput`, so that the
properties of those are the ones their theorems name; each takes its other components as instances.
The abstract specifications are shared where the code promises the same twice: two
pointers one lifetime, two arrays one sequence, three sets one set of numbers.

What is left to prove is under *What is proved*.

## SharedWeakPtr: the shared and weak pointers

`SharedLifetime` says what the pointers promise: a block that is allocated once,
an object in it that exists while somebody owns it, a block that exists while
somebody refers to it, and that both go in the end.  `SharedWeakPtr` is the code.

State and code:

| Variable | Code |
|---|---|
| `ptr[s]` | `m_pc` of a `SharedStrongPtr` (`StrongPtrs`), of a `SharedWeakPtr` (`WeakPtrs`), or of the weak pointer that the object in a block holds to its own block (the slot named by the block) |
| `nRefWeak[b]`, `nRefObj[b]` | the atomic counters of the container |
| `tyT[b]`, `mem[b]` | the object's and the container's lifetime; "orphaned" is a container whose allocator threw before `deallocate` |
| `pc[t]`, `op[t]`, `blk[t]`, `tCur[t]` | where a thread is in which operation, and its local `m_pc` and `tCur` |
| `leaked[b]` | history: strong counts that no pointer stands for any more (see `WatchMove`) |

One action is one atomic access: `!--m_nRefObj`, `!--m_nRefWeak`, the load and the
compare-and-exchange of `FAtomicAddNotEqual`, `++m_nRefWeak`, `++m_nRefObj`.  Every
operation that replaces a value is a release phase (the `reset()` it begins with)
and an acquire phase.  The operations not named in `Requests` are sequences of
these: a destructor is `reset`, a constructor is the same request on an empty
variable.  T's destructor releases the object's own weak pointer (`DtorMember`).
Exceptions: a destructor or allocator that throws turns the request into one that
ends after its release (`AfterThrow`), which is what the code does with the
exception it rethrows or swallows; the move constructor from a weak pointer is
`noexcept`, and its exception ends the program.

The client's contract, `NoRace`: one pointer *variable* is not written by one thread
while another uses it; only the counters are atomic.  Blocks are never reused, so a
use after free stays visible.  Not modelled: the loads inside `AssertValid` as steps
of their own; strong pointers inside T (recursive destruction, cycles);
`PCreate( allocator const &, ... )`, which returns the container by value where a
pointer is declared and does not compile when instantiated; assigning one weak
pointer to another of the same type, for which the compiler deletes the operator,
is covered by the templated operator that takes `SharedWeakPtr` of another T.

| Run | Question | Bounds |
|---|---|---|
| `threads` | the six invariants and `NoResurrection` | 3 threads, 2 strong and 2 weak variables, 1 block; every request, throwing destructor and allocator, one leak. Three threads are what it takes for a conversion to meet a release that meets another conversion |
| `lifetime` | `WeakDoesNotLockObject`, and the refinement of `SharedLifetime` with liveness | 2 threads, 2 blocks, so that an assignment releases one block while it takes the other |
| `assert` | the assertion of the release (violated) | 3 threads, emplace/watch/lock |
| `weakmove` | a weak pointer does not keep the object (violated by `WatchMove`) | 1 leak |

`threads` switches deadlock checking off because `std::terminate` stops the program
and `MaxLeaks` bounds `WatchMove`.  `RefModulus` is larger than the number of
references there can be; `RefAssumption` says so.

Fairness: weak fairness of the release phase of each thread.  A release has no loop
and takes no lock, so a thread the scheduler runs again and again completes it; T's
destructor is assumed to return.  Clients need not call anything, and the
compare-and-exchange loop is given no fairness.

Two more places where the code is not what its words say:
`expired()` (`_shwkptr.h:578`) looks at the weak count, which the pointer itself
holds, so a non-null weak pointer is never expired; and the conversion from a weak
pointer by move (`:166`) is `noexcept` although it throws when the object is gone:
the program ends there, in the model too.

### The proof

`SharedWeakPtr_proofs` proves, for any finite sets of threads, variables and blocks,
that the six invariants of `threads` and `NoResurrection` hold.  Assumptions: the
sets are finite and disjoint, and `RefModulus` exceeds the number of variables,
threads and leaks.

The inductive invariant `IInv` is `TypeOK` and:

* `OpInv` - what each label says of the request a thread is in: which variables it
  has emptied, and that its block is the one its source names;
* `Apart` - no two threads use a variable one of them writes (from `NoRace`);
* `CountInv` - each counter is the cardinality of the set of its holders, plus leaks;
* `BlockInv` - per block: unused blocks have no holders, a counted object is
  constructed, a block with holders is allocated;
* `ThreadInv` - per thread: in "destroy" the object is constructed and its count is
  zero, in "dealloc" the memory count is zero, and so on;
* `PairInv` - of two threads on one block at most one destroys or deallocates.

Exact counts are not inductive on their own (a thread could decrement a block it
does not hold), which is why the thread's place and its request come in.  Five
lemmas say how a step changes the holders of a block (it leaves them, hands a
reference over, takes one, drops one); every action cites the one it needs, and
`CountStep`, `BlockStep`, `OwnThreadStep`, `OtherThreadStep` and `PairStep` follow from the effect alone.

`WeakDoesNotLockObject` and the refinement of `SharedLifetime` need more, and hold of
less.  `LifeInv` adds to `IInv` what becomes of a block when its last owner goes
(`DeathInv`: as long as the object is not gone, somebody is on the way to destroy it,
and never two) and that no count was left behind (`NoLeak`).  So they are proved
without `WatchMove`, which leaves one; `weakmove` shows that they fail with it.  The
refinement, `PointersImplementLifetime`, is of the safety part and for allocators that
do not throw: one that throws before `deallocate` leaves a container that is neither
there nor freed, for which `SharedLifetime` has no name.  Each step of the code is one
step of the abstract specification or none: the decrement that leaves no owner is
`Disown`, the destructor `Destroy`, and so on; three lemmas, for the steps that create,
share and let go of a reference, say which.

Only model-checked: the liveness of `SharedLifetime`.

## SegArray: the segmented array

`SegArrayOps` has the operations of `SegArray` as functions of one array.  An array
is a record: `seg` and `blocks` are the block of segment pointers
(`m_ppbySegments`, `m_ppbyEndSegments`), each entry `Null` or a segment of `per`
cells (`NElsPerSegment`), and `n` is `m_nElements`.  A cell is an element or `Raw`,
memory in which none lives.  An operation yields the *set of its outcomes*: the
array afterwards, how the call ended (`ok`, `throw`, `crash` when it went through a
null pointer or over the end of a segment) and what was lost on the way (a segment
nobody points to, an element whose memory was freed while it lived).  An
allocation may throw wherever the code allocates, one segment at a time; an element
may throw when it is made or moved; a stream may fail in each chunk.  Every
transfer is cut into chunks as the code cuts it, and a chunk that does not lie in
one segment is a `crash`.

`SegArray` makes any sequence of these calls on a few arrays, one action per call:
`SetSize`, `push_back`, `pop_back`, `Remove`, `RemoveBvElements`, `Insert`,
`Overwrite`, `OverwriteFromStream`, `Compact`, `Clear`, `InitSegmentSize`, swap and
all constructors and assignments.  The readers (`Read`, `ReadSegmented`,
`WriteToFile`, `ApplyContiguous`, `NApplyContiguous`, `FSpanChars`,
`FGetStringView`) change nothing and are operators of `ReadersAgree`.
`ElementSeq` is what a client wants to know: plain sequences, what each call does
to them, and what a call that threw may have done.  Sizes count modulo
`SizeModulus`, as `_tySizeType` does; it matters in `Compact`.

`OwnLifetime` is the template's choice whether the array constructs and destroys its
elements; the bulk transfers exist only without it.

| Run | Question | Bounds |
|---|---|---|
| `buffers`, owned elements | `ElementsAreBacked`, `LiveExactlyCounted`, `ImplementsElementSeq` | 2 arrays with 4 elements, 3 when both have some, segments of 1 and of 2 |
| `buffers`, plain memory | `ElementsAreBacked`, `ReadersAgree`, `ImplementsElementSeq` | the same, segments of 2, transfers of up to 2 |
| `segarray_copythrow` | `NothingLost` when the copy of an element throws in the copy constructor (violated) | as the first |

Two segments and a third that is spare are what every branch needs: a chunk that
ends at a boundary, one that crosses it, source and destination at different
offsets, a partly filled last segment and one without elements; `NewBlocksMin` 2
leaves null entries in the pointer block.  Default, moved-from and stored elements
(respectively two values, one of which stands for memory never written) tell
positions apart.  The view leaves out the last call, on which nothing depends but
whether it crashed; action properties are still checked on every step.  Deadlock
checking is off because the client stops at the bounds.

The client of the passing runs is `Careful`.  What it avoids is what the code does
not survive, and setting the constant to FALSE shows each in a few steps:

* `Clear` of an array that does not own its elements leaves their count
  (`segarray.h:896`), so move assignment gives the source a count without memory;
  the client first sets the size to zero.
* The copy constructor leaves only its inner loop when it has all elements (`:88`),
  and makes uncounted objects in a segment that has none; the client compacts first.

Likewise `CopyThrows` is TRUE in `segarray_copythrow` only, and `DtorThrows` never:
with a destructor that throws (`:444`, `:902`) the destroyed element stays counted,
and `LiveExactlyCounted` fails.  `Compact` of an array without elements wraps around
(`:460`) and removes nothing, which harms no property.

## RotatingBuffer, RotatingClient: the rotating buffer

`RotatingBuffer` adds the base to the array: `SetIBaseEl` rotates the segments before
the new base to the end of the pointer block and takes their elements off the count.
`RotatingClient` makes any sequence of calls, and `ElementWindow` is what they
amount to: a position and the elements from there on.  `buffers` checks that
(`ImplementsWindow`), that every position is in memory that is there and that the
buffer never ends before its base, also after a call that threw (`WindowIsBacked`),
for bases from -1 to 5 and positions up to 5 in segments of 2:
the base stays, crosses one segment or several, or goes past the end.  One value
beside unwritten memory is enough to tell positions apart there.

Its client is `Careful` in two ways.  It keeps the sign of the base: the check that
should refuse a change of sign does not (`segarray.h:1050`), which `rotating_sign`
shows (violated); the shift is then computed from a wrapped number, and
the model lets it go through memory that is not there or move nothing.  And it moves
the base past the end only of a buffer with capacity: `SetIBaseEl` stores the base
(`:1063`) before it allocates.  A client that does it anyway also meets the
assertion `ast_nBlocksEnd == ast_nBlocksStart` (`:1088`) in a buffer without blocks.
Vacated segments go behind null entries of the pointer block (`:1075`), so the next
append allocates though a segment is free, whatever the comment at `:930` says; the
window is not affected.

## FdReadRotating: the file reader

State as in the code (`m_saBuffer`, `m_posCur`, `m_stchLenRead`, `m_fReadAhead`)
and the position of the descriptor.  `FGetChar` is one action per way through it:
end of file, read error, one character, read-ahead, from the buffer.  Read-ahead
enlarges the buffer first and fills it segment by segment, each of which may fail.
The characters of the file are its own, so `CharsInFileOrder` says that the reader
gives the character at each position, whatever was consumed, discarded or gone back
over in between, and `SeenIsInBuffer` that what it has seen is there to be consumed.

`buffers` has a file of 7 characters, segments of 2 and a read-ahead of 2
segments: the buffer rotates several times and the last chunk is partial; the length
is not given, zero, inside, exact, or too long.  What it assumes:

| Constant | In `buffers` | Otherwise |
|---|---|---|
| `KnownLength` | read-ahead only within the length of the file | `reader_eof` (violated): characters beyond the end of the file, again and again, because the count read is only asserted (`fdrotbuf.h:172`, `:176`) |
| `ShortReads` | `read()` gives all there is | characters that were never read, for the same reason |
| `GivesUp` | the client stops at an exception | after a read-ahead that threw, the enlarged buffer is taken for read (`:162`); after an allocation that threw, the descriptor is one character ahead of the buffer (`:150`) |
| `CharSize` | 1 | `Overwrite( m_posCur++, &_rc, sizeof _rc )` stores that many *elements* (`:150`), and the file is out of order |

`AssertValid` (`:100`) says that a reader without read-ahead is at the end of its
buffer, which is not so after `ResetPositionToBase` or `DiscardData`; the model is of
a build without assertions.  `Init` with a position other than zero and the string
conversions around `ConsumeData` are not modelled.

## MemFile: the in-memory file

Threads with a stream each on one file.  A call takes the mutex (`Lock`), makes
room, copies chunk by chunk, lets go (`Unlock`) and only then moves the stream's
position (`Return`): each is a step that other threads come between.  `seek` and
`seekCur` do not touch the file; `seekEnd` asks for its end under the mutex.  A write
may run out of memory: `Write` throws, `WriteNoExcept` returns -1, and the model says
-1 for both, since either leaves file and position alone.  `AtomicFile` is a file on which each call is
one step; `committed` (the file as the last holder of the mutex left it) is what the
refinement maps to it, and a call takes effect when the mutex is let go.

`buffers` checks the refinement (`ImplementsAtomicFile`), `MutexGuardsArray`, and
`StreamsSeeOneFile`: what a call is given is a piece of one file, never a mixture.  Two threads, two values,
segments of 1, a file of at most 2 and transfers of at most 2: every transfer of two
bytes is two chunks in two segments, so a reader could see half a write.  Symmetry
exchanges threads and values, which the specification does not tell apart.  There is
no fairness: `std::mutex` promises none, and nothing here loops.

`Apply` walks the array without the mutex (`memfile.h:314`).  In the run the client
keeps it apart from writes (`Careful`); without that, TLC finds an `Apply` that is
given half of another stream's write.  The two calls with which a client appends
(seek to the end, write) are not one step, and nothing says they are.  Not modelled:
`Insert`, which passes a pointer the array does not accept and does not compile when
instantiated; the copy constructor, which reads its source without the mutex;
`WriteToFile`, whose walk is that of `ReadersAgree`.

### The proof

`MemFile_proofs` proves, for any threads, values, segment size and bounds, from
`MemFileAssumption`:

* `MutexGuards` - `MutexGuardsArray`.  Its invariant adds to the property only that every
  thread is at a label.  Most steps move one thread and leave it on the same side of the
  lock (`SameSide`).
* `StreamsAreTyped` - the state keeps its type, with or without a careful client.
* `StreamsSee` - a careful client's calls see one file each (`StreamsSeeOneFile`).
* `FileIsAtomic` - for a careful client the file implements `AtomicFile`.

The last three rest on one invariant, `FileInv`.  Beside types it says how far every
call has got: a write that has copied `d` bytes from the back has the file as it was,
except for its last `d` bytes (`Partly`), a read has the last `d` bytes of its range, an
`Apply` the first.  That is why a write that is interrupted between two chunks is still
the write the abstract file will make when the mutex is let go, whatever the others did
to their streams meanwhile.  The lemmas at its head have what this needs of the array, for
any segment size: where an element lives (`DivMod`, `OnePlace`), that a chunk stored in
one segment changes the elements it should and no others, and that making room
(`Room`: new pointers, new segments one after the other, any of which may fail)
keeps the elements there were.  The loops of `Read` and `Overwrite` are steps of the
model and so need no induction.

## VebWords, VebBottom, VebTree: van Emde Boas trees

`VebWords` is `_VebFixedBase`, an array of words; a word is the set of its bits, and
`WordOf`, `BitOf` are the divisions the code makes with masks and shifts.  `VebTree`
is one level above it, on a record of minimum, maximum, summary and clusters, and
a client of a `VebTreeFixed` or of a `VebTreeWrap`, which is resized;
`VebBottom` is one of the leaves by themselves.  All of them, and `BitVectors`,
implement `IndexSet`: every insertion, deletion, clearing search, union, copy, move
and resize changes the set, and answers, as a set of numbers does.
`TreeIsSound` says that a tree is of its type, that what `AssertValid` asserts in debug
builds holds of it (`Canonical`), and that every search of every reachable tree finds the
neighbour in the set (`SearchesAgree`).

The tree of `containers` holds 16 numbers, in four clusters of two words of two bits;
`TypeMax` 3 lets the numbers in a cluster fill their type, as a universe of 256 fills a
byte.  Sizes 7, 8, 10 and 16 end inside a word, at a cluster, inside one, and at the
end of the type.  A tree holds, or lacks, at most two elements: with the minimum kept
outside the clusters these are all the cases an operation tells apart in one cluster
(none, the minimum alone, one more, the last one gone).

The client stays where the code keeps its promise (`WithinLimits`).  Elsewhere:

* `&=` loses elements, and `^=` is right only of sets that are disjoint
  (`AndIsRight`, `XorIsRight` say when they are right);
* deleting all after a number adds one to it (`_vebtree.h:571`), which makes 0 of the
  last number of a universe that fills its type;
* `FCheckDelete` of an empty tree with the number its minimum reads as throws;
* a `VebTreeWrap` that shrinks below its minimum keeps it.

A `VebTreeWrap` that was moved from keeps its size without clusters; the move of a
`VebTreeFixed` calls a method that is not there, and the assertion on clusters
(near `:1804` and `:2858`) contradicts its branch: the model is of a build without
assertions.

### The proof

`VebTree_proofs` proves, for any width of a word, any number of words to a cluster, any type
that holds the numbers of a cluster (one it fills, too) and any sizes, that a tree stays
sound (`TreesStaySound`) and that it and a leaf implement `IndexSet` (`TreeIsASet`,
`LeafIsASet`), for a client `WithinLimits`.  There is no bound on the elements: what the
runs check with two elements in, or missing from, sixteen numbers holds of every set.

`SearchesAgree` is not inductive: an operation reads the summary and the maximum, where the
set does not have them.  The invariant is that the tree represents a set (`Rep`):

* the clusters hold every element but the minimum, each at its word and bit (`Held`);
* the summary has exactly the numbers of the clusters that are not empty (`Names`);
* the minimum and the maximum are the set's, or say that it is empty (`Extremes`);
* or else the tree was moved from and has no clusters (`Moved`).

The argument goes up in three layers.  Of words, each operation is the operation of a set
of numbers, and its searches find the least and the greatest there are (`InsertWIs` to
`BitwiseInvertWIs`); that a number is a word and a bit, in lexical order, is the only
arithmetic (`Split`, `Joined`, `Lexical`).  Of clusters, a step that puts something in one
of them keeps the summary when it inserts, or when it deletes the cluster's number where
nothing is left (`NamesAny`, `NamesNone`), and the least and the greatest are found through
the summary (`HeldMin`, `HeldMax`).  Of trees, there is one lemma for each operation
(`InsertStands` to `ShrunkRep`), which says what set the tree represents then; the loops of
`&=`, `^=` and `BitwiseInvert` over the clusters are comprehensions, whose maximum is the
maximum of the clusters' maxima.  A failing search of the summary answers with a number
too: it is told from an answer since cluster 0 follows, and the last one precedes, nothing.

Where the proof needs `WithinLimits` is where the list above says that the code fails:
`&=` (`AndIsRight`), `^=` (`XorIsRight`), cutting after the last number of a universe that
fills its type (`TypeWraps`), `FCheckDelete` of an empty tree, and shrinking below the
minimum.  `AndIsRight` and
`XorIsRight` are what the proofs of `&=` and `^=` use of the operands.

## BitVectors

`_simple_bitvec` and `FixedBV` as arrays of words, with their searches, set
operations, shifts and counting.  Lengths 4, 6 and 7 with words of 4: a full word and
a partly used one.  The client shifts right by less than a word, because `>>=` by
whole words (`fixedbv.h:291`) reads behind the array; and it takes the next bit after
one only where no other bit of the same word comes before, because
`getclearfirstset( last )` (`_simpbv.h:246`) begins at the first bit of the word.  Left out because they are wrong of every
argument: `all()` (`fixedbv.h:170`) and `decrement()` (`_simpbv.h:509`).

## LogArray: the logarithmic array

Blocks of growing size, one of them without a block of pointers.  A call yields the
set of its outcomes, since every allocation, constructor and assignment may throw;
a constructor that throws leaves a cell taken, for which the count goes negative, and
every other call must understand that.  It implements `ElementSeq`, the sequence that
`SegArray` implements too; `BlocksAreSound` says that the blocks are the ones the count
asks for, nothing is lost, and pieces that are contiguous cover the array in order.

Instances: blocks of 1 to 2, 1 to 4 and 2 to 4 elements, pointers by twos (the code:
by fours), up to 5 elements, which reach past the first growth of the pointers; two
arrays with 3 elements together.  `BlocksAreSound` allows what the code loses, and no
more: a new block of pointers when the block that follows it cannot be allocated, and
what a constructor of the array has made when an element throws.

## SharedPtr: the intrusive pointers

An object has a pointer itself, so that destroying it may destroy others.  A thread's
call is a stack of what it has yet to do; a step is one count going up or down, or one
destructor, which may throw.  `SharedPtr` implements the `SharedLifetime` of the shared
pointers; `PointersAreSound` says that counts are exact, those of releases under way
included, that no freed object is read and none destroyed twice, that no second
exception leaves a destructor that runs for a first, that nothing is forgotten when all
threads are done, and that what a call reads after clearing its target is what was there.

Instance: three objects, threads with two variables and with one; destructors and
constructors may throw.  Three objects make a chain of two releases below a third.
The client assigns no pointer that is reachable only through the target (`Careful`):
the assignment clears its target first (`shared_obj.h:61`), so `p = p` leaves nothing,
and `p = p->next` reads what was freed.  Exceptions other than `std::exception` are
not caught by `_DeleteSelf`, and the assignment of *objects* copies the count in builds
without threads; the model is of those with threads and of `std::exception`.

## GcObjects: reference-counted objects that copy on write

Handles that may be empty (`_gcp`) and that may not (`_gcr`), on objects of the four
kinds, between two threads.  Access to the element of a shared object copies it first,
in several steps.  `ObjectsAreSound`: counts are exact, what is held lives, what nobody
holds is gone, nobody goes astray.  With copy on write the handles implement
`ValueCells`: each has a value of its own.

An element with a copy of its own that throws (`_gcop_basev::copy`) ends an access where
it was, with the new object gone again.
`containers` has two handles per thread and a client's lock around the copying
(`Locked`).  `gc_copy` has none: `_DoCopy` looks at the count (`_garcoll.h:1234`),
copies, lets go and asserts that somebody else is left (`:1254`); by then nobody need
be (violated, a finding).  Elements hold no handles, so cycles, which the code does not
collect, do not arise.  `_gcr()` leaks a reference, `SetObject` takes none and
`~_gcop_basev` asserts that nobody refers to an object whose element could not be
made; the client calls none of them (`Careful`).  `_gcop_base` has no `copy()`, so
objects of the derived kinds are copied as what the base knows of them.

### The proof

`GcObjects_proofs` proves `ObjectsAreSound` and the refinement of `ValueCells`
(`CopyOnWriteIsByValue`) for any handles, threads, objects and values, under `Careful`
and `Locked`, which `gc_copy` shows to be necessary.  `GcInv` says that each count is the
number of handles on the object and of threads that have made a copy and not yet put it
in a handle (`Counts`), and of each access under way: until it lets go of what it copies,
that has another reference (`Access1`: the assertion at `_garcoll.h:1254`); the copy
is in no handle and in no other thread's hands; and what it then writes to is its alone.
Without the last, a write could change another handle's value between the look at the
count and the write.

## ReserveString

A string with its characters in a buffer, or in a `std::string` made in the bytes of
the buffer, which has short texts in itself.  `StringsAreSound`: no character is read
where there are none, and as many `std::string`s exist as the strings know of; action by action the text is what the call says
(`CallAsPromised`, under `ContainersImplement`).  Two strings, texts up to 4, a reserve
of 3, a `std::string` with 1 character in itself: empty, in the buffer, on the heap, and
on the border of each.

The client (`Cautious`) moves no short `std::string` in, since `memcpy` (`strwrsv.h:107`)
takes its characters' address along, and assigns no string its own text.  What the
model shows as it is: assignment from an lvalue that is not `const` moves, `std::move`
copies, `resize` below the reserve loses the text, an exception while a `std::string`
is made leaves garbage in the buffer.

### The proof

`ReserveString_proofs` proves `StringsAreSound` and `TextAsPromised` (the step property
`CallAsPromised`) for any strings, characters and lengths, under `Cautious`.  The assumption on
the lengths, `Inline + 1 < Reserve`, is the code's: a `std::string` and the byte of flags fit
in the buffer (`strwrsv.h:24`), and the text a `std::string` has in itself, with its zero, fits
in that.  `StringInv` strengthens `StringsAreSound` where it is not inductive: a string that
reads its own bytes could be swapped away from them, so no `std::string` may ever be short
enough to have its text in itself, and what is in a buffer is always short of the flags.
Numbers of `std::string`s are counted by one lemma for a call that changes one string and one
for a call that changes two.

## ObjSave: model files

`obj_save.h` writes a mesh, each vertex once, through a mapping that grows by blocks and
is cut to size for the indices; `obj_load.h` maps it and checks that the indices end
where the file ends.  Every system call and every allocation may fail, and the program
may stop at any step; what was written is in the file.  `SavedIsLoaded`: a file that
was finished holds the mesh, each vertex once, with the distances of the farthest
ones; one that was not, if it loads with vertices, has indices that name them.

Blocks of 3 vertices, of which the header takes one, and meshes of up to 5 indices over
3 vertices: the file grows not at all or once, and is then made longer, shorter or left
as it is.

`m_pAttribs` is set once (`obj_save.h:60`) and used after the file was mapped again
(`:162`, `:181`): with `Moves`, a mapping that may be made elsewhere, TLC finds the write
through it.  The run's mappings stay where they are, as only the rest of the file shows
anything there.  A file left unfinished before the vertices were counted loads, without
vertices and with indices, if its size happens to be that of its indices; one that
could not be mapped again after it was cut loads with indices that are all 0.

### The proof

`ObjSave_proofs` proves it for any mesh, any sizes of a vertex and of a block, and a header
that fits in the first block.  `SaveInv` says what the file holds at every step: the vertices
that are known so far, each once (as many as the set of them has elements), and each index
written so far names the vertex it was made for; in the header, the greatest of their
distances; and what is written ends within the file as long as it is mapped, because a file
that lacks the room for a vertex grows by a block, which has room for one.  `SavedModelsAreWhole`
also holds where the file moves; that the stale pointer is never used (`SavedModelsLoad`) needs
files that stay.

## JsonText, JsonScan, JsonTexts: reading text

`JsonText` states JSON's grammar as a predicate on texts and says what a text denotes,
without reference to the reader.  `JsonScan` is the reader: the input streams with their
pushed-back character, numbers, strings with escapes read through a buffer, and the
skipping of values, which is other code than the reading of them.  `JsonTexts` offers
every text of up to 7 pieces, the first 4 of them free, and `JsonIsRead` compares: what is
read or skipped is what the grammar has there, and what is not in the grammar throws.

## JsonCursor, JsonCopy, JsonWalk: walking over a document

`JsonCursor` is `JsonReadCursor`: a stack of contexts, and what moving down, up and on,
skipping and reading make of it.  The first client in `JsonCopy` does any of these in
any order.  `JsonWalk` promises a walk over the tree of the document (`WalkInTree`): by
whatever way the client gets somewhere, and whatever it left unread or half read, each
place has the type, key and value the document has there.  `JsonIsWalked` says where the
stream is all that time, and that a text the client gets through is JSON, though the
client may have skipped most of it.

Documents: seven trees up to four levels deep, with and without blanks, from a file and
from memory; and every text that is one edit (a character out, in, changed, or the rest
cut off) away from three others.

The client (`Careful`) does not go on from two levels above an aggregate that has ended: it is
skipped once more, and in `[[[1]],2]` that consumes what follows the inner array.  For
the same reason it skips no aggregate by itself, and it reads no value that was skipped,
of which nothing was kept.  Left out: `GetTimeString` and `GetUuid`, which do not read first; the inverted
assertions (`jsonstrm.h:4561` and others), the model being of a build without them.

## JsonWrite, JsonWriter, JsonCopy: writing and copying

`JsonValueLife` writes a comma, a key and a bracket when it is made, and the closing
bracket when it is destroyed, unless an exception is on its way.  `JsonWriter` opens,
writes and ends lives in any order that nesting allows, plainly and indented, and may
throw anywhere: `JsonIsWritten` says that the text is the tree the client meant, and
that a text left by an exception is nobody's document.  The other clients in `JsonCopy` run
the cursor and lives together, through `StreamReadJsonValue`, `StreamReadWriteJsonValue` and the
version that leaves elements out: the copy says the same, a document that is torn stays
torn, and every copy comes to its end (`CopyEnds`).

`WriteValueType` with a key asserts that it is in an array (`Proper`).  A life that is
moved while a child of it is open counts its children anew.  A format that leaves
printable whitespace alone leaves quotes and backslashes alone too (`:1263`), so what it
writes is read back only where there are none.

## JsonOutput: files, mappings, memory

The three output streams, with calls of the system that fail: growing a mapping
unmaps it, enlarges the file and maps it again.  `OutputsAreWhole`: a file that was
closed without a failure has all that was written, nothing written is lost by growth,
handles are closed by who opened them, once.  Blocks of 2 characters, 6 characters, two
files and one handle that is not the stream's.  The client (`AsMeant`) attaches streams
over files only, and swaps only those that own their file, because `FileObj::swap`
(`_fdobjs.h:44`) does not exchange that flag; the stream in memory is closed once,
because it keeps its text.

### The proof

`JsonOutput_proofs` proves it for blocks of any size, writes of any length and calls that
fail anywhere.  `OutputsAreWhole` speaks of files that are closed, and of the client's handle;
what it needs before that is the content of the file that is open, which differs by stream, and
that is `ContentOf`: the file of a stream over files has all that was written, a stream in
memory has it itself, and a mapping has it in front, zeros behind it, `cur` where it
ends, and the size of the file.  `StreamOwns` says which handle a stream may have and when it
has one.  A call that failed costs the file its `sound` mark, and a mapping that was lost has
no way back to `open`: without that, a write would go through a mapping that is not there.
One lemma (`ClosingKeeps`) serves the closing, the destructor and an `Open` that fails, and
one (`OneFileChanges`) the writes; that growth by whole blocks is enough (`BlocksEnough`) is
what `GrownShort`, the mutant, breaks.

## JsonObjects

A `JsoValue` is read with a filter or without, changed through references to its
elements, moved, compared, written, and streamed without being kept.
`DocumentsAgree`: the value is the document, or what the filter lets through of it, and a
key that comes twice throws; what is written is read back; the comparisons agree.  Ten
documents with and without blanks, values of up to 3 and 2 nodes.

`json_badjson` (violated) asks whether a document that is not JSON throws: a root that
is `true`, `false` or `null` is not read beyond its first letter, and nothing is read
behind a root.  The client assigns between places of which neither holds the other:
`jsonobjs.h:349` destroys the target first.  `GetEl( size() )` is off by one (`:1459`);
reading into a value that is not empty adds to it; `operator =( bool )` lacks a return.

## Utf: conversion of texts

One step is one call of `PCConvertUTF`, which gives one character; loops over it fill a
buffer, or make a string in a buffer or in the target.  `TextsConvert`: well-formed texts
come out as the same characters, only text comes out, without a replacement character
exactly the well-formed texts are accepted, with one only what is wrong is replaced, and
the target has the text or is as it was.  `StepsAdvance`: each call consumes something or
ends.  Texts have units on both sides of every bound the code compares with; rooms of
1, 4 and 6 are too small, just right and larger.

Found: a sequence cut short at the end of a text takes the characters behind it along;
a low surrogate by itself goes from UTF-16 to UTF-32 as it is (`Careful`: no such text); a
conversion that fails in a long text leaves the target resized.

## SysLog: the log manager and assertions

The manager of a thread is made by the first message, opens a file of three parts
(stream, root, array), and logs a message itself; an assertion that fails logs one too,
wherever it fails.  `todo` is the stack of what is yet to be done.  Opening, writing and
closing may fail or throw, and assertions may fail inside them and ignore, throw or
abort.

`LogIsSound`: one manager is made and one assertion reported at a time, the flag for that
comes down however the report ends, the parts of the file exist together wherever that
is asserted, and between calls the file is JSON with the last messages in it, if nothing
failed while it was written.  `AbortTellsWhy`: a program that aborts has said why, in a
file that is complete.  Three calls and two failures: a failure in a report of a failure,
and calls before and after.

Every failure of a `unique_ptr::reset()` ends the program: it is `noexcept`, and the
catches in `CloseSysLogFile` are never reached.  A message logged from a destructor on
the way of an exception leaves its entry open (`jsonstrm.h:2587`), so the file is not
JSON after that.  The manager's pointer is not cleared when the thread destroys it: the
client logs nothing afterwards (`StopsAtExit`).  Threads share nothing but the system's log
and the defaults; those are written without a lock, and a client that calls `InitSysLog`
with other threads running has a race.  Reading logs back cannot be instantiated.

### The proof

`SysLog_proofs` proves `LogIsSound` and `AbortTellsWhy` for any number of calls and of
failures, and without a hypothesis: what goes astray without `StopsAtExit` stops there.

What a thread has yet to do is a stack, and what makes the properties true is what may be
on top of what.  So `LogInv` looks at `todo` from the bottom (`Stack`), where a step leaves
everything but the top as it was:

* always: at most one report is under way, and the flag is up until it ends or has aborted
  (`Reports`); nothing that may throw is above what closes the file, except in the
  destructor of a part, out of which nothing comes (`Sheltered`, `Stopped`); a manager is
  made at the bottom and once (`Unmade`, `Making`); the order of closing (`Shape`), and
  that a part is there until its turn comes or the file is torn down to the end
  (`Remaining`, `Torn`); where a message asks for the file, nobody is closing it, or a
  report is under way (`Asks`); who is to abort has said why (`Told`);
* while nothing went wrong with the file (`~upset`): what follows what (`Orderly`), and for
  what is on top, what is open in the file and that its entries are the last messages of
  the system's log (`Stage`).

The flag is why `Reports` alone is not inductive: an abort in the middle of a report leaves it
up on purpose, and only `Sheltered` says that nothing can throw it past the abort that
takes it down.  Every step changes at most the top four of the stack; one lemma for each
such change (`Pop`, `Put1` to `Put4`) and kind of thing put there says what is left of
each part, and every action cites the ones it needs.

## Runs

| Run | Expected | Shows |
|---|---|---|
| `threads`, `lifetime` | pass | the shared and weak pointers |
| `buffers` | pass | arrays, buffers, readers, files: sequences, windows, and atomic calls |
| `containers` | pass | trees, bit vectors, arrays, pointers, strings, collected objects, model files |
| `texts` | pass | JSON read, walked, written, copied, kept; outputs; UTF; the log |
| `assert`, `weakmove` | violated | the assertion of a release; a weak pointer that owns |
| `segarray_copythrow`, `rotating_sign`, `reader_eof` | violated | an array lost, a sign switched, a file without end |
| `json_badjson` | violated | what is not JSON is read |
| `gc_copy` | violated | an object lost between a look and a release |

`PROJECT.json` lists the findings with the lines of the code and of the comment or
assertion that says otherwise.

Views leave out the components a behaviour does not use and the last call where
nothing depends on it; action properties are still checked on every step.  Symmetry is
used of the threads and values of the file, of arrays (which have the threads' names, as
the two never meet), and of collected objects, where no definition tells them apart, and
in no run with liveness.  `containers` switches deadlock checking off since its clients stop
at their bounds; in `buffers` and `texts` what may stop has a step that changes nothing,
so that the threads on a file, and a copy that is not at its end, are checked for being
stuck.

Fairness.  `lifetime` has weak fairness of each thread's release, explained above.
`texts` has it of the steps of a copy, which is a loop of one thread that waits for
nobody.  Nothing else is fair: clients need not call anything.

## What is proved

For all values of the constants that satisfy the assumptions, with the arguments in the
sections of the components:

| Theorem | States | Under |
|---|---|---|
| `TypeCorrect`, `CountsExact`, `MemorySafe`, `OwnersKeepObject`, `SingleReleaser`, `DestructorKeepsBlock` | the invariants of `threads` | - |
| `NeverRevived` | `NoResurrection` | - |
| `WeakPointersDoNotOwn` | `WeakDoesNotLockObject` | no `WatchMove` |
| `PointersImplementLifetime` | the safety of `SharedLifetime` | no `WatchMove`, allocators that do not throw |
| `MutexGuards` | `MutexGuardsArray` | - |
| `StreamsAreTyped` | the types of `MemFile` | - |
| `StreamsSee`, `FileIsAtomic` | `StreamsSeeOneFile`, `ImplementsAtomicFile` | `Careful` |
| `ObjectsStaySound`, `HandlesAreValues` | `ObjectsAreSound`, `CopyOnWriteIsByValue` | `Careful`, `Locked` |
| `LogStaysSound`, `AbortsTellWhy` | `LogIsSound`, `AbortTellsWhy` | - |
| `StringsStaySound`, `CallsAsPromised` | `StringsAreSound`, `TextAsPromised` | `Cautious` |
| `TreesStaySound` | `TreeIsSound` | `WithinLimits` |
| `TreeIsASet`, `LeafIsASet` | that trees and leaves implement `IndexSet` | `WithinLimits` |
| `SavedModelsAreWhole` | `SavedIsLoaded`, but for the pointer into the mapping | - |
| `SavedModelsLoad` | `SavedIsLoaded` | no `Moves` |
| `OutputsStayWhole` | `OutputsAreWhole` | `AsMeant` |

The inductive invariants `IInv`, `LifeInv`, `FileInv`, `GcInv`, `LogInv`, `TreeInv`, `SaveInv`
and `OutInv` are theorems too (`Invariance`, `LifeInvariance`, `FileInvariance`,
`CountsStaySound`, `LogInvariance`, `TreeInvariance`, `SaveInvariance`, `OutputInvariance`); each was checked by TLC on small instances first, as were
`StringInv` and `LeafInv`.  A hypothesis is a choice the run that checks the property makes
too, and where it is the client's to keep, the section of the component says what happens
without it.

What stays with TLC: liveness and `ENABLED`; what is computed by recursion or by folding
over chunks, and so needs induction over data (`SegArray`, `RotatingBuffer` and
`FdReadRotating`, whose transfers are such folds; `LogArray`, `BitVectors` and `Utf`); and
whatever declares a recursive operator, as the other modules of the JSON streams and
`SharedPtr` do because the code is recursive.

## Not modelled

* What cannot be compiled, and so has no behaviour to model: `_rbtree.h` (line 33),
  `_typemap.h`, `jsonpath.h`, `updlist.h` and `utfsupp.h` stop at an `#error`, and
  `_basemap.h` derives from the first; `_mtlist.h` includes headers that do not exist;
  `_pset.h` needs structured storage and a macro without its struct; `_lcirc.h` uses
  names it does not declare.
* Wrappers of operating-system, OpenGL, Vulkan, image and JNI handles have no protocol
  of their own.  The small owning wrappers hold one flag or none; `_fdobjs.h` is part of
  `JsonOutput`.
* Formatting of text (`_strutil.h`, `icu_strutil.h`) is the C library's and ICU's.
* Traits and configuration headers are compile-time only.  `_shwkptr_abandonedimpl.h`
  and `shared_obj_failed_impl.h` are earlier attempts that nothing includes.
* The throw-safety harness (`_dbgthrw.h`) throws at chosen points; the models throw at
  every point.
* In `segarray.h`, `SegArrayView` (a range into an array it does not own),
  `FMatchString` (its lambda is ill-formed when instantiated), the rotating buffer's
  assignments (which lack their `return`) and `InitSegmentSize` on a rotating buffer
  (which leaves its base).
