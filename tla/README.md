# A TLA+ model of slangmake

slangmake compiles a Slang source file once per *permutation* of its
preprocessor axes and packs the results into one *blob*. Its incremental mode
reuses entries of the blob that is already at the output path. These modules
model the batch compiler, which decides what is reused, compiled, recorded and
written, and the threads it compiles with; the writer and reader of the blob
file; one call of the compiler; the reflection section; the directives and the
command line; and the handles of the C API. `src/` below is the root of the
repository.

## The system

| Part | Source | State | Operations | Meets |
|---|---|---|---|---|
| Batch compiler, one file | `src/src/slangmake_batch.cpp:42-288` | settings; locals of one call; the output file | `compileFile`, setters, `lastStats` | directives, compiler, blob writer and reader, source files |
| Compile phase | `slangmake_batch.cpp:188-225` | worker threads, atomic counter, `results` | start, claim, compile, join | one `Compiler` per worker |
| Directory walk | `slangmake_batch.cpp:290-315` | the Outputs so far | `compileDirectory` | `compileFile`, sequentially |
| Blob writer | `slangmake_blob.cpp:87-303` | queued entries, dependency table | `addEntry`, `finalize`, `writeToFile` | batch compiler, C API |
| Blob reader | `slangmake_blob.cpp:305-481` | a buffer, owned or borrowed | `openFile`, `at`, `find`, `dependencies` | batch compiler, C API, applications |
| Permutations | `slangmake_util.cpp:92-531` | none | `parse`, `merge`, `expand`, `key` | batch compiler, command line |
| Hashes | `slangmake_util.cpp:536-588` | none | `hashFileContents`, `hashCompileOptions` | batch compiler |
| Compiler | `slangmake_compiler.cpp` | a Slang global session | `compile` | Slang, reflection serializer |
| Reflection serializer and view | `slangmake_reflection_serialize.cpp`, `slangmake_reflection.cpp` | flat tables, interning maps | `serialize`; decoding | compiler, applications |
| C API | `slangmake_c.cpp`, `slangmake_c_compiler.cpp` | handles with cached strings, thread-local last error | wrappers of all of the above | applications |
| Command line | `main.cpp` | options | one batch call, `dump` | directives, batch compiler |

A call reads the source twice (directives, then the `[noreflection]` marker),
opens the previous blob if its target and option fingerprint match, and walks
the permutations once: an entry whose recorded dependency files still have their
recorded hashes is reused, the rest is compiled. The dependency paths of all
surviving results are then numbered into a new table, each file being hashed at
that moment, the entries are queued in permutation order, and the output file is
truncated and rewritten. The only state that outlives a call is the output file,
and the only shared memory is `results` during the compile phase.

What is hard about it:

* **Concurrency.** Workers write elements of one vector without a lock; the main
  thread waits on each of them; starting a thread or creating a `Compiler` can
  fail in the middle.
* **Staleness across calls.** A mistake in what is recorded about an entry does
  no harm in the call that makes it. It shows after another build and an edit,
  as old code in a blob that reports no failure.
* **Partial failure and crashes.** One permutation fails; an exception leaves
  the call; the process dies with the output file truncated; the disk is full.
* **Ordering.** Edits of the sources are not synchronised with a build; the
  dependency indices are handed out while their table grows; reflection objects
  form cycles, and the rows of one are written while others are added.
* **Borrowed memory.** The C API hands out pointers into handles and caches that
  are filled on first use; the compiler hands Slang pointers into vectors that
  are still growing.

What makes each part correct:

* *Compile phase*: no two threads share a result; a normal end means no result
  is missing; it always ends.
* *One file*: whatever was reused, the outcome is that of a build from scratch;
  what is recorded can never justify a wrong reuse later; unaffected
  permutations are not recompiled; a failed build does not touch the blob.
* *Blob*: what is read back is what was queued, whatever was shared, aligned or
  compressed; a damaged file is refused or read without inventing data.
* *Permutations*: expansion is the product of the axes, keys are injective,
  directives in comments are neither lost nor invented.
* *Hashes*: equal fingerprints mean equal options.
* *C API*: cached strings follow their objects; errors stay on their thread.
* *Compiler*: Slang sees the strings it was meant to see, each type parameter
  gets its own argument, and no failure is taken for a success; what is passed
  over in silence is known.
* *Reflection*: every offset, count pair names the rows that were meant, and
  what is decoded is what Slang reflected.
* *Command line*: an output belongs to one source, and exit code 0 means that
  everything was built, whether or not the disk took all of it.

## Modules

| Module | Models | Uses |
|---|---|---|
| `ParallelFor` | what the compile phase promises | |
| `WorkerPool` | the compile phase, thread by thread | refines `ParallelFor` |
| `WorkerPoolProofs` | proofs about it | extends `WorkerPool` |
| `MCWorkerPool` | five permutations, two of them reused | extends `WorkerPool` |
| `BuildInputs` | files, options, results and the functions between them | |
| `CleanBuild` | what `compileFile` promises: a build without a cache | extends `BuildInputs` |
| `BatchCompiler` | `compileFile`, called again and again for one output file | extends `BuildInputs`, refines `CleanBuild` |
| `BatchCompilerProofs` | proofs about it, and that it implements a clean build | extends `BatchCompiler` |
| `MCBatchCompiler` | a source with one axis and a header, in several versions | extends `BatchCompiler` |
| `BlobFormat` | `BlobWriter` and what `BlobReader` finds in its file | instantiates `BlobViews` |
| `BlobViews` | what a reader makes of a file cut short | used by `BatchCompiler` and `BlobFormat` |
| `BlobFormatProofs` | proofs about it | extends `BlobFormat` |
| `MCBlobFormat` | up to three entries and two dependencies | extends `BlobFormat` |
| `CompileSteps` | one call of `Compiler::compile` | |
| `OptionsHash` | the fingerprint of options, beside their session | extends `CompileSteps` |
| `CompileStepsProofs` | proofs about both | extends `OptionsHash` |
| `MCCompileSteps` | arguments, type parameters, include paths and defines in every order | extends `OptionsHash` |
| `ReflectionSerializer` | the recursion that fills the reflection tables | extends `Loops` |
| `Loops` | the loop that pushes back what it does not pass over | |
| `ReflectionView` | what is decoded from them | extends `ReflectionSerializer` |
| `ReflectionProofs` | proofs about the serializer | extends `ReflectionView` |
| `ReflectionViewProofs` | proofs about complete rows and the view | extends `ReflectionProofs` |
| `MCReflection` | cyclic programs with a block, generics and declarations | extends `ReflectionView` |
| `Directives` | directives, value lists, merging, expansion and keys | extends `Loops` |
| `CommandLine` | `main` and `compileDirectory` | extends `Directives` |
| `CommandLineProofs` | proofs about it | extends `CommandLine` |
| `MCCommandLine` | short texts, short lists, small trees | extends `CommandLine` |
| `CApi` | handles, caches, errors and borrowed pointers, by thread | |
| `CApiProofs` | proofs about it | extends `CApi` |
| `MCCApi` | two threads and three handles | extends `CApi` |

### WorkerPool

`main`, `spawned` and `joined` are the position of the calling thread, `at[t]`
and `k[t]` that of worker `t`, `nextIdx` the atomic counter, `results` the
vector that all of them write. One action is one step of one thread: claiming is
a single atomic instruction in the code, and compiling is one action because the
only shared effect of `compile` is the store of its result. `SpawnFails` and
`ConstructFails` are the two exceptions; the first ends in an exception or in
`std::terminate`, depending on whether a joinable thread exists, the second
always in `std::terminate`.

### BatchCompiler

The variables are the locals of `compileFile`, under their names where they have
one; `disk` is what `BlobReader::openFile` would make of the output file, `None`
if nothing. `pc` says which part of the function is next. One action is one
iteration of a loop or one stretch of code between two accesses to the file
system, so that an edit of a source can fall between any two reads (when
`RacingEdits` lets it). Reading one file is atomic, and so is one call of the
compiler. Entries are kept in `results` with their dependency paths, which are
`entryDepPaths` in the code. Indices start at 1.

The compile phase appears as `CompileOne`, in any order: `WorkerPool` implements
`ParallelFor`, whose action `Do` this is. `Throw` stands for `ParallelFor`'s
failure and for an output path that cannot be created or opened. `Kill` may
happen anywhere. `OpenTruncates`, then `WriteAll` or `WriteShort`, is
`writeToFile`; `WriteShort` returns normally, since the code does not look at
the stream.

`TornViews` is what the reader makes of a file that was cut short: a compressed
payload does not decompress; an uncompressed one is accepted as soon as header
and records are complete, and then parts that lie behind the end read as empty.
Sections are written in the order entries, dependency table, index pool, so
there are two families of such views, defined in `BlobViews`. An entry of which
only the code or only the reflection survives counts as having lost both. That
there are no other views is the property `CutsAreViews` of `BlobFormat`.

Two constants describe the environment. `RacingEdits` lets sources change during
a call. `TornWrites` lets the reader accept a truncated file; without it a
truncated file is one that is not readable, as when it is compressed or was cut
before the end of the records.

### BuildInputs

Text, bytecode and hashes are abstract. The functions between them are constant
operators with four assumptions:

* `InputAssumption`: they have the expected types.
* `IdentityAssumption`: `Permutation::key` is injective on the permutations in
  play, and the 64-bit hashes of the option sets and of the file contents in
  play do not collide or, for contents, become 0.
* `SlangAssumption`: a successful compilation depends on the options, the
  permutation and the files it reports as read. A file that is created later and
  would shadow one of them is outside this assumption.
* `NoneAssumption`: the mark for "no result" or "no answer" is not itself one.

The fingerprint leaves `inputFile` out, as `hashCompileOptions` does.

### BlobFormat

`finalize` works twice: a layout pass computes offsets (`cursor`, `records`,
`slots`, `running`, `hdr`), then a second pass appends the bytes to `out` and
never looks at those offsets. That the two agree is what the format rests on.
Each loop iteration of either pass is an action; `pc` and `i` say which.

A byte string is an abstract value with a size, and `out` is a set of strings,
dependency rows and index words, each at the offset where it was appended.
Reading a span gives the string that was appended there with that length, and
`Garbage` if there is none. Padding is thus modelled by the offsets it leads to.
Offsets and sizes are stored through `U32`, that is modulo `Wrap`. Whether a
payload is shared goes by an abstract `Digest`, so that different payloads may
collide. Compression keeps the header and replaces the rest by `PackedSize`
bytes, none if there were none.

`Grow` lets any part of the file reach the disk and `Close` may come at any
time. A reader may look at any moment, so the operators for `rebind`, `at` and
`dependencies` take the number of bytes that are there. `Destroy` starts the
next writer. `finalize` is `const`, so calling it again on the same writer
starts from the same state.

`BlobAssumption` asks that sizes are natural numbers, that only the empty string
has size 0, and that `Wrap` is a multiple of 8, as 2^32 is.

### CompileSteps

`pc` is the next step of `compile`, one action per step, and every early return
leads to `done` with the result as it is then. Slang's calls succeed or fail
(`SlangFails`); what it reads through a pointer is the subject of the model. A
vector that grows beyond what was reserved moves its elements (`Buffer`), and a
pointer to the characters of a `Short` string, which lie inside the element, is
left behind: `TakenAsPushed` gives `Garbage` for it. The module found by the
session is part of `job`, so that the checks on its type parameters have
something to look at.

`compile` passes over some things in silence, and so does the model. An entry
point that Slang fails to return is left out when none is asked for by name
(`failing`), a dependency without a path always (`pathless`); a profile Slang
does not know compiles as "unknown" (`ProfileOf`), and a language version that
`std::stoi` does not take is dropped (`VersionOf`). `Profiles` and `Stoi` say
which profiles and versions these are. `JobsAssumption` gives the arguments
their types and says that Slang declares a type parameter once.

### OptionsHash

`Fingerprint` is the sequence of what `hashCompileOptions` mixes into the hash.
A string is mixed with its length and so is one element. Options of a fixed size
come in fixed places before the lists, and two of them stand for all; the bind
shifts at the end are left out. A collision of the 64-bit hash itself is not
considered. `StringsAssumption` lists the strings in play in their order, each
once.

### ReflectionSerializer and ReflectionView

`prog` is the graph that Slang reflects, a function from object names to
records. An `addX` function is the list of the calls it makes, in their order;
`stack` holds the ones in progress. `index` is all of the interning maps,
`table` the tables of objects, `pool` everything else that is appended to.
`file` is the section after both writing passes. Strings are values and an
offset of a string its position; what a row copies from Slang without looking at
another object is left out. Attributes are appended one at a time
(`AddAttribute`), and then the row gets the slice (`SetAttributes`).

The layout pass counts in 64 bits (`Cur`), but the header holds 32 (`Off`,
modulo `Wrap`), and the writing pass fills up to the header's offset (`At`). For
a section of 4 GiB or more the two differ, and the code refuses none.
`WrapAssumption` says only that the header itself is shorter.

`ReflectionAssumption` says what Slang's own types say: which kinds of object a
pointer of each class can reach, that the null pointer is no object, and that
there is one root.

`ReflectionView` reads the section back: `TableSpan` is `tableSpan`, and the
decoded entry points, parameters and declarations are built as the view builds
them. An entry without reflection has a section of no bytes; the constructor of
the view believes a header that is there and whose size is within the bytes. Two
assumptions are about the programs: a declaration is the child of one other at
most and the module's of none (`DeclAssumption`), and there are no more objects
and strings than 32-bit indices below `kInvalidIndex` (`IndexAssumption`).

### Directives and CommandLine

`Directives` is the text processing, over sequences of symbols. The fixed start
of a directive, such as `[permutation] A={`, is one symbol, and so is
`[noreflection]`; all else is a character at a time, since comments, brackets
and quotes are what the scanners can get wrong. Characters that no scanner looks
for are interchangeable. `MarkersAssumption` says that the start of a directive
is no blank.

`CommandLine` runs one command line: the options are refused or translated, the
tree is walked in any order, each source is merged with the options, refused,
failed, written, or ends the process with an exception. `cmd` is everything from
outside: options, tree with texts, and outputs of earlier builds. `compileFile`
is here what its callers can tell of it; `BatchCompiler` has its steps. As
there, a write that comes up short is not noticed (`whole`).
`InvocationAssumption` says that a tree maps paths to files, that a single input
is the only file looked at, and that the axes of the command line have a kind, a
name and a list of characters.

### CApi

`heap` maps the addresses in use to objects. An object has a kind, a value that
changes when it is edited, a cache with its flag (`built`), the object it was
made from (`base`) and the one whose memory it borrows (`mem`), and tells
whether the client has it (`held`). A reader that borrows has its entries in the
client's bytes, except when these are compressed: then it expands them into
memory of its own (`readerExpanded`), and a reflection view on an entry ends
before the reader, not only before the bytes. The functions that create handles
differ in what they read, in when the handle exists relative to the call that
may throw, and in what happens to the error message on a bad argument:
`Constructors` lists these cases and each action is for all of them. Filling a
cache is two actions, so that another thread can come between; a race makes what
is in that cache unknown (`raced`). `err` tells whose message a thread would get
and `last` how its last reporting call ended.

The client of the model obeys what the header asks of it: it uses handles it
has, does not destroy or edit one that a call in progress is using, and ends
what borrows before what it borrows from.

## Runs

| Run | Expectation | Bounds | Distinct states |
|---|---|---|---|
| `pool` | passes | 5 permutations, 3 to compile, 1, 2 or 3 workers | 5820 |
| `batch` | passes | 1 source in 5 versions, 1 header in 3, 7 kinds of call, up to 2 permutations | 25608 |
| `blob` | passes | 3 entries of 7 kinds, 2 dependencies, 3 codecs, offsets modulo 448 | 370088 |
| `reflection` | passes | 389 programs of 23 objects, cyclic, up to 2 entry points, offsets modulo 2840 | 84278 |
| `c_api` | passes | 2 threads, 3 handles, values 1 and 2; threads and handles symmetric | 1273489 |
| `command_line` | passes | texts of up to 4 pieces, lists of up to 4 characters, trees of 4 entries | 116234 |
| `compile_steps` | passes | up to 3 type arguments, parameters and include paths, 147 sets of options | 21561 |
| `racing_edits` | `DiskSound` fails | the same files, 2 kinds of call, edits at any time | |
| `torn_write` | `UnknownDepsNotReused` fails | the same, readable truncated files | |
| `two_inputs` | `SlotsFresh` fails | two sources, one output file | |
| `sub_objects` | `SubObjectSliceExact` fails | as `reflection` | |
| `include_options` | `IncludeOptionsIntact` fails | as `compile_steps` | |

`pool` needs more work items than the two workers of one of its cases and as
many as the three of another, and slots that are not their positions: that gives
a worker that claims twice, one that finds nothing, and results the phase must
leave alone. Job arguments 0, 2 and 4 reach the clamp, the parallel branch below
the limit and the limit itself.

`batch` has no bound on the number of builds, edits and failures: the state
space is finite because a call's locals end with it. Two permutations of which
one reads the header are enough for a partly reusable blob, a shared and an
unshared row of the dependency table, and an entry whose *second* dependency
changes. The versions of the source reach a plain build, the reflection opt-out,
duplicate axes, a permutation that does not compile and a missing file; the
calls differ from the usual one in target, flags, reflection, override,
incremental mode and keep-going, one at a time.

`blob` needs three entries so that a third can share with a first across a
second whose payload has the same hash but other bytes. Payloads and keys with
their NUL end both at multiples of 8 and beside them. Two large payloads take a
blob past `Wrap`, one does not. Files are cut at the ends of pieces and one byte
before them (`CutPoints`): the reader only ever compares the end of the file
with the ends of pieces, so other cuts behave like these.

`reflection` has a struct that reaches itself through a pointer, objects that
are first met in different places depending on the program, a parameter block
below the global scope, a layout that is first met in the middle of another's
sub-object loop, null objects in every list that may hold them, and a program
without a layout. One string is so long that in some programs a section begins
past `Wrap`, in others only the end of the file is past it, and in most neither.
The serializer has no other input, and no behaviour depends on a count beyond
"none, one, several".

`c_api` needs three handles for a buffer, a reader on it and a view on the
reader, and two threads for a race on a cache and for errors of different
threads. Two values tell a cached key from that of an edited handle.

`command_line` has three families. Four pieces are enough for a block comment
that opens in a line comment and closes on the next line before a directive.
Four characters are enough for each bracket opened and closed out of order
around a comma, and for an escaped quote. The trees have two sources of one name
in two directories, a header, and a directory called `x.slang`, beside an output
from before the build that has a source and one that has none.

`compile_steps` needs three include paths, as the vector moves at the second and
third, and three parameters for orders other than forward and back. Two paths
and two defines over the same strings are enough for the lists to be taken for
one another. Units have no, one or two entry points, of which Slang fails to
return any, and dependencies with and without a path; a profile and a version
that mean something stand beside one that does not.

The last two stop when the program ends, so they do not check for deadlock.

What the properties say:

* `TypeOK`: types; for `BatchCompiler` also that dependency indices stay inside
  the table, for `BlobFormat` that stored offsets fit into 32 bits, for `CApi`
  that a cache marked as built has been filled.
* `NoSharedSlot`, `DoneMeansComplete`, `CounterBounded`: see above. `Returns`:
  the phase ends. `ImplementsParallelFor`: it is a parallel for.
* `SlotsFresh`: every result of a call, reused or compiled, is what compiling
  now would give.
* `DiskSound`: every entry of the output file is the compilation of its
  permutation on *any* files that match the recorded hashes. This is the
  property that has to survive from one call to the next.
* `DepTableExact`: the dependency table is the union of the entries' paths.
* `NoNeedlessCompile`: a permutation with a usable entry is compiled only if one
  of the files that entry read has changed.
* `ImplementsCleanBuild`: with the cache and the dependency table hidden, calls
  are builds from scratch, and a failed call leaves the old blob or none.

* `RoundTrip`: a complete file is read back as it was queued, with two
  exceptions: from 4 GiB on offsets wrap, and LZ4 does not decompress a payload
  of no bytes. The second can be reached: with `--keep-going --compress lz4`,
  when every permutation fails, the written file cannot be opened again.
* `CutsAreViews`: a file cut anywhere is refused, complete, or one of the views
  of `BlobViews`: no bytes of one section are ever taken for another.
* `Aligned`: what readers cast to structs and arrays is aligned.
* `PayloadsShared`: equal payloads are stored once, unless hashes collide.

* `SessionStringsIntact`: Slang reads the search paths and macros it was given.
* `SpecializationExact`: each type parameter gets the argument of its name.
* `OnlySkipsAreSilent`: a failure anywhere leaves no code, no reflection and no
  success. A compile in which nothing failed is a success with the entry point
  that was named or some of the defined ones, and what it misses is only what is
  listed above under `CompileSteps`.

* `FingerprintDecides`: options with one fingerprint make one session, so that
  an entry of an earlier run may be reused. There are two exceptions. The lists
  are mixed without their lengths: `-I A -I 0` has the fingerprint of `-D A=0`.
  And defines are sorted: `-D A=0 -D A=1` has the fingerprint of the opposite
  order.

* `NoReentry`: the recursion never adds an object that is already being added,
  so it ends on cyclic programs.
* `RowsFaithful`: every index and slice of a row, the entry points' rows and the
  contents of attributes included, is that of the object Slang has there; no two
  objects share a row, and entry points and hashed strings are in their order.
  Which binding ranges and sub-objects a layout's slices hold is the subject of
  the next three.
* `BindingSlicesExact`: a layout's binding ranges and descriptor sets are its
  own.
* `SubObjectSliceUnlessIntruded`: the same for its sub-objects, unless the slice
  of another layout begins inside its own. That they are its own without
  exception is `SubObjectSliceExact`, which fails.
* `SectionsPlaced`: a section is at its offset in the header exactly if it
  begins below 2^32, is aligned there and does not run into the next one; the
  header's size is that of the file exactly if the file is shorter than 2^32
  bytes.
* `EntryPointsDecoded`, `GlobalsDecoded`, `DeclTreeDecoded`: what the view
  decodes is what Slang reflected, as long as the section is shorter than 2^32
  bytes (`Fits`).

* `CommentsRespected`: directives and `[noreflection]` are found in line
  comments on their own line, wherever block comments are. Texts in which a line
  comment holds a `/*` are excepted: the stripper runs over the whole text
  before it knows about lines, and takes everything to the next `*/`, directives
  included.
* `ListsAgree`: a list that the command line accepts means the same as a
  directive, and each value can be given alone.
* `KeysNameCombinations`: as many keys as combinations. A value with `=` in it
  can forge a key and is excepted.
* `ExitZeroMeansBuilt`: exit code 0 means that this run wrote every source's
  blob, with all permutations, to its place. A blob that the disk took only in
  part is the one exception: nobody looks at the stream.
* `OutputsMirrorSources`: no source writes another's output, and one that was
  not reached, was refused or failed leaves its own alone.

* `ReadsExact`: a key or dependency path is that of what the handle holds now.
* `WarmCacheNotWritten`: only the first use of a cache writes to it, so sharing
  a handle is safe after one call.
* `ErrorIsOwn`: `sm_last_error` belongs to this thread's last reporting call.
* `PointersLive`: a client that destroys in the order above holds no dangling
  pointer.
* `HandlesAccounted`: only a constructor that throws leaves an object that
  nobody can destroy.

The five violations are disagreements between the code and its documentation:

* `racing_edits`. Dependencies are hashed after everything has been compiled
  (`slangmake_batch.cpp:243`). A file saved in between is recorded with its new
  hash beside code from its old text, and no later build notices.
* `torn_write`. An entry without dependencies passes the comparison and is
  reused, where `slangmake.hpp:591` says it does not take part in reuse. A
  truncated, uncompressed blob has such entries, possibly with empty code.
* `two_inputs`. The previous blob is matched by target and fingerprint, which
  leave out the source: `slangmake a.slang -o x.bin`, then `slangmake b.slang -o
  x.bin`, keeps a's code for the keys they share.
* `sub_objects`. `addTypeLayout` takes the start of the sub-object slice
  (`slangmake_reflection_serialize.cpp:355`) before a loop that appends to the
  table and recurses. A layout with sub-objects of its own that is first met
  there puts its rows between, and the slice that `docs/reflection.md:137-145`
  describes as the layout's has another's rows in it.
* `include_options`. `buildOptionEntries` pushes include paths into a vector it
  has not reserved and keeps pointers to their characters. With two or more
  `-I`, of which an earlier one is a short string, Slang reads freed memory.

Other disagreements were met and have no run of their own:

* `-e, --entry` is called repeatable (`README.md:99`, `main.cpp:200`), but only
  the first value is used (`main.cpp:294`).
* `--keep-going` is described as "Don't abort on first permutation failure"
  (`README.md:116`). Without it the permutations after a failed one are compiled
  all the same, and their results are dropped: it costs time and changes no
  outcome (`ImplementsCleanBuild`).
* Without `-e` the default is "every defined" entry point (`main.cpp:200`), but
  one that Slang fails to return is left out in silence.
* `slangmake.h:31` refers to `sm_last_error` after a constructor returned NULL.
  A constructor that is refused for a NULL argument sets no message, and the one
  of an earlier call is still there (`ErrorIsOwn` leaves such calls out).

A constructor of the C API that allocates its handle before a call that throws
returns NULL and loses the object; `HandlesAccounted` says that nothing else
does.

## Fairness

Only `WorkerPool` has a liveness property. It assumes weak fairness of each
worker and of the calling thread: the operating system schedules started
threads, and `compile` returns. Nothing is assumed about which worker claims
what, and the failures are not fair. `BatchCompiler` and `CleanBuild` state no
fairness: a build may be abandoned at any point. Neither does `BlobFormat`,
where a writer may stop half-way through a file. The sequential modules have
nothing to wait for, and a client of `CApi` may stop calling.

## Proofs

TLAPS checks the following for all values of the constants that satisfy the
assumptions.

`WorkerPoolProofs`: `TypeCorrect`, `NoSharedSlotHolds`,
`DoneMeansCompleteHolds`, `CounterBoundedHolds`, and `Refinement`: initial
states and steps of the pool are those of the parallel for. `NoSharedSlot` is
not inductive by itself: that a worker's claim is fresh follows from where the
counter is. The invariant `IInv` adds that positions below the counter are
compiled or held by exactly one worker and those from the counter on are
untouched (`Handout`, `Holding`), and that a worker leaves only when the counter
has passed the list (`Lifecycle`), which makes the end of the join loop the end
of the work. `CounterBounded` needs that every worker that left took the counter
past the list by one, a fact about the cardinality of a set (`Overshoot`).

`BatchCompilerProofs`: `TypeCorrect` holds in every environment. `ReuseIsFresh`
(`SlotsFresh`) and `CacheStaysSound` (`DiskSound`) hold without racing edits and
readable truncated files, with one source: the three conditions are the three
first violations above, so none of them can be dropped. The two properties
depend on each other. A reused result is right because its entry is sound and
the hashes of its dependencies compare equal (`KeptIsFresh`); a new entry is
sound because its result is right and the table pairs that result's paths with
the hashes of the files it came from (`RecordedSound`). `FInv` is the
conjunction that carries this through the call: the remembered hashes are those
of the files (`SeenFresh`), the previous blob has these options and is sound
(`PrevSound`), the table is fresh (`TableFresh`), the indices name the paths in
order and completely (`IndicesNamePaths`, `AllNumbered`), and the queued entries
are surviving results (`EntriesRecorded`). TLC checked `TInv`, `FInv` and `IInv`
on the instances above before they were proved.

Two theorems are about economy. `TableIsExact` (`DepTableExact`) holds whatever
is edited during a call, as long as truncated files are unreadable. `TableInv`
says that paths enter the table once (`PathsOnce`), that each row was entered
for a surviving result (`RowsUsed`) and that all of them have been entered when
the file is written. `OnlyNeededCompiles` (`NoNeedlessCompile`) needs in
addition that no file changes during a call: then the hash that the comparison
remembers is that of the file (`SeenFresh`), so a difference is a change. It
does not need the output file to have one source.

The last theorem of this module, `SeenFromOutside` (`ImplementsCleanBuild`), is
the refinement: what is seen of each step of `BatchCompiler` is a step of
`CleanBuild` or none. It holds in the environment of `SlotsFresh`, whose theorem
gives that results are those of a build from scratch. What is missing is that
nothing is lost or reordered on the way: every permutation has a result before
the record loop begins, and that loop lists the surviving and the failed ones in
their order (`ListedBefore`). `CleanBuild` says "in order" as the enumeration of
a set of indices (`InOrder`), of which there is exactly one (`OwnEnumeration`,
by cardinality). An aborted call is matched by the failure found first, because
nothing failed before it.

`BlobFormatProofs`: `TypeCorrect`, `RoundTripHolds` and `AlignedHolds`, for any
number of entries and dependencies, any sizes, any collisions, and any `Wrap`
that is a multiple of 8. The argument for `RoundTrip` follows the two passes.
During the layout pass the stored offsets form a chain, each starting where the
one before it ended, up to alignment (`LayoutRight`). During the second pass the
output ends exactly where the chain says the next piece begins (`EmitRight`), so
that everything appended so far is where its record points (`Emitted`), pieces
do not overlap, and therefore a span names one piece only (`Unmixed`). When
`finalize` returns, this becomes a statement about the file (`FileRight`), which
together with the bounds checks of the reader gives `RoundTrip` (`SpanSeen`,
`EntrySeen`, `ReadBack`). Wrapping enters only through the condition that the
whole blob is smaller than `Wrap`: then no `U32` changes anything. `Aligned`
needs no such condition, because wrapping at a multiple of 8 preserves alignment
(`CastAligned`). TLC checked `RInv`, the conjunction, on the instance above
before it was proved.

`PayloadsAreShared` is in this module too. The code looks an entry's payload up
in a hash bucket whose first member is the earliest entry with that hash;
without collisions that is the earliest with these bytes (`FirstExists`, by
well-foundedness of subsets of a finite set), so all records with one payload
have its offset (`Shared`).

The last theorem of this module is `CutsOnlyLose` (`CutsAreViews`). A reader
that has the first N bytes shows a piece exactly when its end is at most N
(`EntrySeen`, `DependenciesSeen`), so what counts is the order of the pieces.
`OInv` keeps it during the second pass and in the file: an entry ends before the
next one's key, the entries before the dependency table, the paths before the
rows that point at them, the rows before the index lists, and those follow each
other (`EmitOrdered`, `FileOrdered`). A cut in the pool therefore loses the
lists from some entry on (`CutInPool`). A cut before it leaves the first n keys
(`LastKey`). A payload is stored behind the key of the first entry that has it
(`OwnerExists`), so the payloads of the first n - 1 entries are left, those of
entry n up to its place, and of the later ones those that are shared with these
(`InSight`, `CutBeforePool`); that equal payloads have one offset is `Shared`
again. TLC checked `OInv` on the instance above before it was proved.

`CApiProofs`: the six invariants of `CApi`. `CInv` joins `ReadsExact` and
`WarmCacheNotWritten` to what makes them inductive: two threads that fill one
cache have been noticed (`Fillers`), and a cache that was filled alone holds the
present value (`CacheRight`). For `PointersLive`, `Borrows` says that an object
borrows from the one it was made from only, or has memory of its own, and the
client's order of destruction protects the former.

`CompileStepsProofs`: `FailuresAnswered` (`OnlySkipsAreSilent`): up to the last
two steps the result is empty, from the load on it has the dependencies that
have a path, and from the next step on the entry points that were returned, at
least one (`StepInv`). `SessionIntact` (`SessionStringsIntact`): a vector with
room for all its elements never moves (`ReservedIsIntact`). `SpecializedAsAsked`
(`SpecializationExact`): the argument of a parameter is found by its name. The
names of both lists are the same set, and neither list has one twice, so the
lists are equally long and no parameter goes without (`AsManyParams`).
`FingerprintIsEnough` (`FingerprintDecides`): equal fingerprints and as many
include paths cut the mixed sequence at the same places (`FingerprintParts`,
`CutTwice`); what is left between the two sessions is the order of the defines,
which the sort has forgotten, and it does not matter when no name is defined
twice (`SameSorted`, `SameMacros`).

`ReflectionProofs`: four of the properties of `ReflectionSerializer`, for
programs of any size and any cycles.

* The actions are about twenty, but to the stack they do one of four things: the
  running `addX` completes a step (`Taken`), is handed an index without a
  recursion (`Passed`), calls another (`Entered`), or returns (`Left`). Every
  action is shown to be one of these, with an effect on row and pools, and the
  invariants are then proved once for each of the four.
* `Shape` says what the state looks like: each frame waits for the one above it,
  an object is in its map before anything it refers to is added, and so each is
  on the stack once. From the last follows `NeverReenters` (`NoReentry`).
* `Progress` says that what a completed step has left in a row or frame is still
  right: indices never change and pools only grow (`FrameDone`, `RowDone`). When
  the stack is empty all steps are completed.
* `LayoutsInv` is about the binding tables, of which every layout takes the
  start before it fills them. Above a layout that writes a binding range there
  are only types, variables and generics (`PlainAbove`), so that nobody else
  appends to these tables: `BindingSlicesAreOwn` (`BindingSlicesExact`). For
  sub-objects there is no such barrier, and the invariant says instead that the
  slice is exact or that a layout entered later has its own start inside it
  (`Intruded`): `SubObjectSlicesOverlap` (`SubObjectSliceUnlessIntruded`).
* `SectionsAgree` (`SectionsPlaced`): the two passes are recursive functions on
  the sections. That such functions exist and follow their equations is proved
  by induction on intervals of numbers (`IntervalInduction`, `Recursion`),
  written out because the library's induction takes an operator. Offsets only
  grow, so the sections that begin below `Wrap` are the first ones; up to there
  no offset wraps and the passes agree, and from the first that wraps on the
  second pass is ahead of every offset for good.

TLC checked `LayoutsInv` on the instance above before it was proved.

`ReflectionViewProofs`: `RowsStandForObjects` (`RowsFaithful`),
`EntryPointsComeBack` (`EntryPointsDecoded`), `GlobalsComeBack`
(`GlobalsDecoded`) and `DeclTreeComesBack` (`DeclTreeDecoded`): the tables hold
what Slang said of the program, and a reader of the section gets it back, for
programs of any size. `Shape` and `Progress` say what is in the rows; what they
leave open is which rows there are and what is behind them, and this is the
invariant `ViewInv`.

* The attributes a frame has added so far are the last ones of their table and
  in order, with their names and arguments (`GotAttrs`), so the slice the row
  gets is that of its own attributes (`AttrsStored`). That holds because nothing
  recurses while attributes are added.
* Entry points have no map, and no row until they are complete. The frame of
  `serialize` tells by its step how many it has dealt with, and the table is
  exactly the rows of those that are not null, in their order (`EntryRows`). The
  hashed strings are counted in the same way (`Hashes`).
* Every declaration's row names its parent (`ParentIs`) and the module's is the
  first (`ModuleFirst`): a declaration is entered from its parent or from
  `serialize`, and `addDecl` hands down the index of its caller. This needs that
  Slang's declarations are a tree (`DeclAssumption`); with two parents, a
  declaration would name the one that was met first.
* A completed row of any kind has all of its columns (`RowsFull`); a frame that
  returns has taken each of its steps. With the pools that gives what each kind
  of row stands for (`RowStands`, `RowsAre`), and `RowsStandForObjects`.
* Every row belongs to an object and no string is in the pool twice
  (`RowsOwned`, `Distinct`). The tables are therefore no longer than the program
  has objects and strings, and no index of a row is `kInvalidIndex` by accident
  (`RowsFit`, `StringsFit`). The code counts on there being fewer than 2^32 - 1
  of each, which is `IndexAssumption`.
* The file that is written has all of this (`FileIs`), and if it is shorter than
  `Wrap` each table is where its offset says, by `SectionsAgree`.

From there on no steps are left to consider: reading a string, an index, a slice
of words or of attributes gives what the row stands for (`StringRead`,
`IndexRead`, `WordsRead`, `AttrRead`), hence a parameter, a list of parameters
and an entry point (`ParamRead`, `ParamsRead`, `EntryRead`). The loops that pass
over null pointers are the function `PushBacks`; its equations are proved as
those of the two passes are (`PushBacksNext`). TLC checked `ViewInv` on the
instance above before it was proved.

`CommandLineProofs`: `OutputsStayInPlace` and `ZeroMeansBuilt`, for any tree and
texts. Each source is ahead of the walk or has an outcome (`Progress`), a source
without failures has its blob, complete unless it was cut short (`Delivered`),
and blobs are where their sources are (`Mirrored`). That a later source does not
replace an earlier one's blob follows from the extension: all sources have the
same, and the output path keeps the rest (`OutPathsDiffer`).

`OneListOneAxis` (`ListsAgree`), for lists of any length and any characters: an
accepted option is the same axis when it is written as a directive, and each of
its values can be given alone. It is about the scanner, not about steps, and
`CInv` serves only to say that the command line is one of `Invocations`.

* The scan of a list is a recursive function on its positions. That there is
  one, and what it is at each position, is proved by induction up to the length
  of the text (`ScanExists`, `ScanFromFacts`, by `IntervalInduction`).
* The state after a stretch of text depends only on the state before it and on
  its characters (`ScansAgree`); outside quotes, a state in which all brackets
  are closed is the initial one (`FlatIsStart`); blanks leave it as it is, and
  do not close a quote (`PlainRun`).
* The directive's line has the characters of the option, three positions further
  on. Hence it has the same states, and its last brace is the first bracket that
  closes nothing (`ListEnd`), so the list that is parsed is the option's
  (`OptionAsDirective`).
* A value is a stretch between two cuts without the blanks at its ends. At both
  of its ends the scanner is in its initial state and no cut lies between
  (`ValueStretch`), so scanned alone it is whole and has no cut (`ValueAlone`).

Only model-checked:

* `Returns`: liveness under fairness is out of the prover's reach.
* `KeysNameCombinations`: `Expand` sorts bindings with `SortSeq`, which the
  provers know nothing of, and counting the combinations takes a fold over the
  axes beside an induction on the key.
* `CommentsRespected`: `Lines`, `ParseDirectives` and the reference definition
  `OwnLineComments` are built with `SetToSortSeq` and `FlattenSeq`, whose
  definitions rest on `SortSeq` and on recursion.

## Not modelled

* The bytes of source text, bytecode and reflection, and the vendored codecs
  (LZ4, zstd): compression appears only as "a truncated payload is refused", and
  LZ4's limit of 2 GiB not at all.
* Files of another format or version, and files damaged by anything but being
  cut: the readers are modelled on what the writers produce.
* Copies of a `BlobReader` and their share in its buffer.
* Collisions of the 64-bit hashes, and bind shifts in the option fingerprint: in
  `BatchCompiler` different options have different fingerprints
  (`IdentityAssumption`).
* Two processes that build the same output file at once.
* The Slang compiler behind `Compiler::compile`: its calls are free to succeed
  or fail.
* Options that are copied as numbers, conversions between enumerations and
  constant tables, CLI11's parsing, and the plain fields of reflection rows.
* Console output, verbosity, and the wording of diagnostics.
* CMake, CI and the test fixtures.

## Plan

What is left, in order of importance:

1. The copies and moves of a `BlobReader`, which owns or borrows its bytes.
2. `CommentsRespected` and `KeysNameCombinations` as theorems: `Lines`, `Expand`
   and `ParseDirectives` would have to be loops, as `ParseValueList` is.
