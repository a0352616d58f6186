---------------------------- MODULE BatchCompiler ----------------------------
(***************************************************************************)
(* BatchCompiler::compileFile (src/src/slangmake_batch.cpp:42-288), called *)
(* again and again for one output file while the sources are edited: which *)
(* entries of the previous blob it reuses, what it compiles, what it       *)
(* records about the files each entry depends on, and how the output file  *)
(* changes, exceptions, crashes and short writes included.                 *)
(*                                                                         *)
(* The threads of the compile phase are in WorkerPool; here the phase is   *)
(* the parallel for that WorkerPool implements.  Indices start at 1.       *)
(***************************************************************************)
EXTENDS BuildInputs

CONSTANTS
    RacingEdits,  \* source files may change while a call is running
    TornWrites    \* BlobReader may accept an output file that was cut short

ASSUME EnvironmentAssumption == RacingEdits \in BOOLEAN /\ TornWrites \in BOOLEAN

VARIABLES
    files,     \* path -> content
    disk,      \* what BlobReader::openFile makes of outPath, or None
    pc,        \* where compileFile is
    call,      \* its Input and the settings of the BatchCompiler
    perms,     \* the expanded permutations
    opts,      \* the CompileOptions after the [noreflection] check
    prev,      \* prevReader: the blob entries are reused from, or None
    seen,      \* prevDepCurrentHashes, Unhashed where not filled in
    cursor,    \* index of the loop over perms that is running
    reused,    \* the indices with reused[i]
    toCompile, \* the indices still to be compiled
    results,   \* Compiler::Result per permutation, None before it is set
    indices,   \* entryDepIndices
    depVec,    \* the dependency table under construction
    entries,   \* the BlobWriter's entries
    out        \* the Output, with the counters of lastStats()

working == <<perms, opts, prev, seen, cursor, reused, toCompile, results,
             indices, depVec, entries>>
vars == <<files, disk, pc, call, working, out>>

Unhashed == -1

DepInfos == [path : Paths, hash : Nat]
Keys     == {Key(p) : p \in Perms}
Entries  == [key : Keys, code : Codes, deps : Seq(Nat)]
Hashes   == {OptionsHash(t, f, r) : t \in Targets, f \in Flags, r \in BOOLEAN}
Blobs    == [target : Targets, optionsHash : Hashes, entries : Seq(Entries),
             deps : Seq(DepInfos)]
Outputs  == [compiled : Seq(Perms), failures : Seq(Perms \cup {None}),
             fresh : Nat, reused : Nat, blob : Blobs \cup {None}]

NoOutput == [compiled |-> <<>>, failures |-> <<>>, fresh |-> 0, reused |-> 0,
             blob |-> None]

Init ==
    /\ files \in FileStates
    /\ disk = None
    /\ pc = "idle" /\ call = None /\ out = NoOutput
    /\ perms = <<>> /\ opts = None /\ prev = None /\ seen = <<>>
    /\ cursor = 1 /\ reused = {} /\ toCompile = {} /\ results = <<>>
    /\ indices = <<>> /\ depVec = <<>> /\ entries = <<>>

-----------------------------------------------------------------------------
(* Reading the source and the previous blob.                               *)

\* compileFile(in, outPath) is called: Output out; m_stats = {}.
Call(c) ==
    /\ pc = "idle"
    /\ pc' = "parse" /\ call' = c /\ out' = NoOutput
    /\ UNCHANGED <<files, disk, working>>

\* The axes of the merged directives are not distinct: nothing is written.
RejectDuplicateAxes ==
    /\ pc = "parse"
    /\ Script(files[call.source], call.override).dup
    /\ out' = [out EXCEPT !.failures = <<None>>]
    /\ pc' = "returned"
    /\ UNCHANGED <<files, disk, call, working>>

\* PermutationParser::parseFile, mergePermutationDefines, expand.
ParseSource ==
    /\ pc = "parse"
    /\ ~Script(files[call.source], call.override).dup
    /\ perms' = Script(files[call.source], call.override).perms
    /\ results' = [i \in DOMAIN perms' |-> None]
    /\ indices' = [i \in DOMAIN perms' |-> <<>>]
    /\ pc' = "options"
    /\ UNCHANGED <<files, disk, call, opts, prev, seen, cursor, reused,
                   toCompile, depVec, entries, out>>

\* fileHasNoReflection reads the source a second time.
FixOptions ==
    /\ pc = "options"
    /\ opts' = EffectiveOptions(call, files[call.source])
    /\ pc' = "load"
    /\ UNCHANGED <<files, disk, call, perms, prev, seen, cursor, reused,
                   toCompile, results, indices, depVec, entries, out>>

\* The conditions on the previous blob.
Usable ==
    /\ call.incremental
    /\ disk # None
    /\ disk.target = opts.target
    /\ disk.optionsHash = Fingerprint(opts)

LoadPrevious ==
    /\ pc = "load"
    /\ prev' = IF Usable THEN disk ELSE None
    /\ seen' = IF Usable THEN [d \in DOMAIN disk.deps |-> Unhashed] ELSE <<>>
    /\ pc' = "reuse"
    /\ UNCHANGED <<files, disk, call, perms, opts, cursor, reused, toCompile,
                   results, indices, depVec, entries, out>>

-----------------------------------------------------------------------------
(* The reuse decision: one pass over perms.                                *)

\* currentHashOfPrevDep
CurrentHash(d) ==
    IF seen[d] # Unhashed THEN seen[d] ELSE HashFileContents(files, prev.deps[d].path)

DepMatches(d) == d \in DOMAIN prev.deps /\ CurrentHash(d) = prev.deps[d].hash

\* Mutant: only the first dependency is compared.
FirstDepOk(e) == e.deps = <<>> \/ DepMatches(e.deps[1])

\* Mutant: the comparison is not restricted to the entry's own dependencies.
AllDepsOk(e) == \A d \in DOMAIN prev.deps : DepMatches(d)

\* An entry with no dependencies passes.
DepsOk(e) == \A j \in DOMAIN e.deps : DepMatches(e.deps[j])

\* The comparison stops at the first mismatch; what it looked at is hashed
\* and remembered.
HashedBy(e) == {e.deps[j] : j \in {j \in DOMAIN e.deps :
                   \A h \in 1 .. j - 1 : DepMatches(e.deps[h])}}

SeenAfter(e) ==
    [d \in DOMAIN seen |-> IF d \in HashedBy(e) THEN CurrentHash(d) ELSE seen[d]]

\* reuseKeyToIdx: the first entry with a key wins.
IsCandidate(b, n, perm) ==
    /\ n \in DOMAIN b.entries
    /\ b.entries[n].key = Key(perm)
    /\ \A h \in 1 .. n - 1 : b.entries[h].key # Key(perm)

\* Mutant: the entry's dependency paths are not carried over.
KeptResultWithoutDeps(e) == [success |-> TRUE, code |-> e.code, deps |-> <<>>]

\* The result of an entry that is kept, with its dependency paths.
KeptResult(e) ==
    [success |-> TRUE, code |-> e.code,
     deps |-> [j \in DOMAIN e.deps |-> prev.deps[e.deps[j]].path]]

\* perms[cursor] has an entry whose dependencies are unchanged.
Reuse ==
    /\ pc = "reuse" /\ cursor \in DOMAIN perms
    /\ prev # None
    /\ \E n \in DOMAIN prev.entries :
          /\ IsCandidate(prev, n, perms[cursor])
          /\ DepsOk(prev.entries[n])
          /\ results' = [results EXCEPT ![cursor] = KeptResult(prev.entries[n])]
          /\ seen' = SeenAfter(prev.entries[n])
    /\ reused' = reused \cup {cursor}
    /\ cursor' = cursor + 1
    /\ UNCHANGED <<files, disk, pc, call, perms, opts, prev, toCompile,
                   indices, depVec, entries, out>>

\* It has an entry, but a dependency changed.
QueueStale ==
    /\ pc = "reuse" /\ cursor \in DOMAIN perms
    /\ prev # None
    /\ \E n \in DOMAIN prev.entries :
          /\ IsCandidate(prev, n, perms[cursor])
          /\ ~DepsOk(prev.entries[n])
          /\ seen' = SeenAfter(prev.entries[n])
    /\ toCompile' = toCompile \cup {cursor}
    /\ cursor' = cursor + 1
    /\ UNCHANGED <<files, disk, pc, call, perms, opts, prev, reused, results,
                   indices, depVec, entries, out>>

\* It has no entry.
QueueNew ==
    /\ pc = "reuse" /\ cursor \in DOMAIN perms
    /\ prev # None => \A n \in DOMAIN prev.entries :
                         prev.entries[n].key # Key(perms[cursor])
    /\ toCompile' = toCompile \cup {cursor}
    /\ cursor' = cursor + 1
    /\ UNCHANGED <<files, disk, pc, call, perms, opts, prev, seen, reused,
                   results, indices, depVec, entries, out>>

ReuseDone ==
    /\ pc = "reuse" /\ cursor \notin DOMAIN perms
    /\ pc' = "compile" /\ cursor' = 1
    /\ UNCHANGED <<files, disk, call, perms, opts, prev, seen, reused, toCompile,
                   results, indices, depVec, entries, out>>

-----------------------------------------------------------------------------
(* The compile phase.  keepGoing is not consulted: every queued            *)
(* permutation is compiled, whether or not another one failed.             *)

CompileOne(i) ==
    /\ pc = "compile"
    /\ i \in toCompile
    /\ results' = [results EXCEPT ![i] = Slang(opts, perms[i], files)]
    /\ toCompile' = toCompile \ {i}
    /\ UNCHANGED <<files, disk, pc, call, perms, opts, prev, seen, cursor,
                   reused, indices, depVec, entries, out>>

CompileDone ==
    /\ pc = "compile"
    /\ toCompile = {}
    /\ pc' = "deps"
    /\ UNCHANGED <<files, disk, call, working, out>>

-----------------------------------------------------------------------------
(* Numbering the dependencies of the surviving entries.                    *)

Surviving(i) == results[i] # None /\ results[i].success

\* The next path of permutation `cursor` to be numbered.
NextDep == results[cursor].deps[Len(indices[cursor]) + 1]

Numbering ==
    /\ pc = "deps" /\ cursor \in DOMAIN perms
    /\ Surviving(cursor)
    /\ Len(indices[cursor]) < Len(results[cursor].deps)

\* internDep, path already in the table.
InternKnown ==
    /\ Numbering
    /\ \E d \in DOMAIN depVec :
          /\ depVec[d].path = NextDep
          /\ indices' = [indices EXCEPT ![cursor] = Append(@, d)]
    /\ UNCHANGED <<files, disk, pc, call, perms, opts, prev, seen, cursor,
                   reused, toCompile, results, depVec, entries, out>>

\* Mutant: the size of the table is taken after the push_back.
InternAfterPush ==
    /\ Numbering
    /\ \A d \in DOMAIN depVec : depVec[d].path # NextDep
    /\ depVec' = Append(depVec, [path |-> NextDep,
                                 hash |-> HashFileContents(files, NextDep)])
    /\ indices' = [indices EXCEPT ![cursor] = Append(@, Len(depVec) + 2)]
    /\ UNCHANGED <<files, disk, pc, call, perms, opts, prev, seen, cursor,
                   reused, toCompile, results, entries, out>>

\* Mutant: pathToIdx is not consulted.
InternAgain ==
    /\ Numbering
    /\ depVec' = Append(depVec, [path |-> NextDep,
                                 hash |-> HashFileContents(files, NextDep)])
    /\ indices' = [indices EXCEPT ![cursor] = Append(@, Len(depVec) + 1)]
    /\ UNCHANGED <<files, disk, pc, call, perms, opts, prev, seen, cursor,
                   reused, toCompile, results, entries, out>>

\* internDep, a new path: the file is hashed now, not when it was compiled.
InternNew ==
    /\ Numbering
    /\ \A d \in DOMAIN depVec : depVec[d].path # NextDep
    /\ depVec' = Append(depVec, [path |-> NextDep,
                                 hash |-> HashFileContents(files, NextDep)])
    /\ indices' = [indices EXCEPT ![cursor] = Append(@, Len(depVec) + 1)]
    /\ UNCHANGED <<files, disk, pc, call, perms, opts, prev, seen, cursor,
                   reused, toCompile, results, entries, out>>

\* The next permutation; failed ones have no dependencies.
InternSlotDone ==
    /\ pc = "deps" /\ cursor \in DOMAIN perms
    /\ Surviving(cursor) => Len(indices[cursor]) = Len(results[cursor].deps)
    /\ cursor' = cursor + 1
    /\ UNCHANGED <<files, disk, pc, call, perms, opts, prev, seen, reused,
                   toCompile, results, indices, depVec, entries, out>>

InternDone ==
    /\ pc = "deps" /\ cursor \notin DOMAIN perms
    /\ pc' = "record" /\ cursor' = 1
    /\ UNCHANGED <<files, disk, call, perms, opts, prev, seen, reused, toCompile,
                   results, indices, depVec, entries, out>>

-----------------------------------------------------------------------------
(* Collecting entries and failures, in the order of perms.                 *)

\* What writer.finalize() serialises with the given dependency table.
Finalized(table) ==
    [target |-> call.target, optionsHash |-> Fingerprint(opts),
     entries |-> entries, deps |-> table]

RecordEntry ==
    /\ pc = "record" /\ cursor \in DOMAIN perms
    /\ Surviving(cursor)
    /\ entries' = Append(entries, [key |-> Key(perms[cursor]),
                                   code |-> results[cursor].code,
                                   deps |-> indices[cursor]])
    /\ out' = [out EXCEPT !.compiled = Append(@, perms[cursor]),
                          !.fresh = IF cursor \in reused THEN @ ELSE @ + 1,
                          !.reused = IF cursor \in reused THEN @ + 1 ELSE @]
    /\ cursor' = cursor + 1
    /\ UNCHANGED <<files, disk, pc, call, perms, opts, prev, seen, reused,
                   toCompile, results, indices, depVec>>

RecordFailure ==
    /\ pc = "record" /\ cursor \in DOMAIN perms
    /\ ~Surviving(cursor)
    /\ call.keepGoing
    /\ out' = [out EXCEPT !.failures = Append(@, perms[cursor])]
    /\ cursor' = cursor + 1
    /\ UNCHANGED <<files, disk, pc, call, perms, opts, prev, seen, reused,
                   toCompile, results, indices, depVec, entries>>

\* Mutant: the early return writes what it has.
StopAndWrite ==
    /\ pc = "record" /\ cursor \in DOMAIN perms
    /\ ~Surviving(cursor)
    /\ ~call.keepGoing
    /\ out' = [out EXCEPT !.failures = Append(@, perms[cursor]),
                          !.blob = Finalized(<<>>)]
    /\ pc' = "open"
    /\ UNCHANGED <<files, disk, call, working>>

\* Without keepGoing the first failure ends the call: the returned blob was
\* finalized before setDependencies, and the output file is not touched.
StopAtFailure ==
    /\ pc = "record" /\ cursor \in DOMAIN perms
    /\ ~Surviving(cursor)
    /\ ~call.keepGoing
    /\ out' = [out EXCEPT !.failures = Append(@, perms[cursor]),
                          !.blob = Finalized(<<>>)]
    /\ pc' = "returned"
    /\ UNCHANGED <<files, disk, call, working>>

Finish ==
    /\ pc = "record" /\ cursor \notin DOMAIN perms
    /\ out' = [out EXCEPT !.blob = Finalized(depVec)]
    /\ pc' = "open"
    /\ UNCHANGED <<files, disk, call, working>>

-----------------------------------------------------------------------------
(* BlobWriter::writeToFile.                                                *)

\* std::ofstream f(path): the file is truncated.
OpenTruncates ==
    /\ pc = "open"
    /\ disk' = None
    /\ pc' = "write"
    /\ UNCHANGED <<files, call, working, out>>

WriteAll ==
    /\ pc = "write"
    /\ disk' = out.blob
    /\ pc' = "returned"
    /\ UNCHANGED <<files, call, working, out>>

\* Code and reflection are one value here, so they are stored as one part.
Undivided(c) == {c}
Views == INSTANCE BlobViews WITH EmptyKey <- Key(DefaultPerm), Parts <- Undivided

\* What a partly written b reads as: nothing, or one of the ways an
\* uncompressed blob can be cut behind its records.
TornViews(b) ==
    {None} \cup IF TornWrites /\ ~call.compress THEN Views!Cuts(b) ELSE {}

\* f.write falls short; the stream's state is not looked at and the call
\* returns as if the blob were in place.
WriteShort ==
    /\ pc = "write"
    /\ disk' \in TornViews(out.blob)
    /\ pc' = "returned"
    /\ UNCHANGED <<files, call, working, out>>

-----------------------------------------------------------------------------
(* The ways a call ends.                                                   *)

Forget ==
    /\ pc' = "idle" /\ call' = None /\ out' = NoOutput
    /\ perms' = <<>> /\ opts' = None /\ prev' = None /\ seen' = <<>>
    /\ cursor' = 1 /\ reused' = {} /\ toCompile' = {} /\ results' = <<>>
    /\ indices' = <<>> /\ depVec' = <<>> /\ entries' = <<>>
    /\ UNCHANGED files

\* The caller has taken the Output.
Collect == pc = "returned" /\ Forget /\ UNCHANGED disk

\* An exception leaves compileFile: no thread or Compiler for the compile
\* phase (ParallelFor's Fail), or no output directory or file.
Throw == pc \in {"compile", "open"} /\ Forget /\ UNCHANGED disk

\* The process dies.
Kill ==
    /\ pc # "idle"
    /\ Forget
    /\ IF pc = "write" THEN disk' \in TornViews(out.blob) ELSE UNCHANGED disk

\* Somebody saves, deletes or restores a source file.
Edit(path) ==
    /\ pc = "idle" \/ RacingEdits
    /\ \E c \in Versions[path] : files' = [files EXCEPT ![path] = c]
    /\ UNCHANGED <<disk, pc, call, working, out>>

-----------------------------------------------------------------------------

Prepare == RejectDuplicateAxes \/ ParseSource \/ FixOptions \/ LoadPrevious
Decide  == Reuse \/ QueueStale \/ QueueNew \/ ReuseDone
Compile == (\E i \in DOMAIN perms : CompileOne(i)) \/ CompileDone
Number  == InternKnown \/ InternNew \/ InternSlotDone \/ InternDone
Record  == RecordEntry \/ RecordFailure \/ StopAtFailure \/ Finish
Write   == OpenTruncates \/ WriteAll \/ WriteShort

Next ==
    \/ \E c \in Calls : Call(c)
    \/ Prepare \/ Decide \/ Compile \/ Number \/ Record \/ Write
    \/ Collect \/ Throw \/ Kill
    \/ \E path \in Paths : Edit(path)

Spec == Init /\ [][Next]_vars

-----------------------------------------------------------------------------
(* Properties.                                                             *)

\* The types of the variables.  Dependency indices stay inside the table
\* that is being built (internDep, slangmake_batch.cpp:237-246).
TypeOK ==
    /\ files \in FileStates
    /\ disk \in Blobs \cup {None}
    /\ pc \in {"idle", "parse", "options", "load", "reuse", "compile", "deps",
               "record", "open", "write", "returned"}
    /\ call \in Calls \cup {None}
    /\ perms \in Seq(Perms)
    /\ opts \in Options \cup {None}
    /\ prev \in Blobs \cup {None}
    /\ seen \in Seq(Nat \cup {Unhashed})
    /\ cursor \in 1 .. Len(perms) + 1
    /\ reused \subseteq DOMAIN perms
    /\ toCompile \subseteq DOMAIN perms
    /\ results \in [DOMAIN perms -> Results \cup {None}]
    /\ depVec \in Seq(DepInfos)
    /\ indices \in [DOMAIN perms -> Seq(DOMAIN depVec)]
    /\ entries \in Seq(Entries)
    /\ out \in Outputs

\* Whatever a permutation's result came from, the previous blob or the
\* compiler, it is what compiling it now would give (the reuse decision,
\* slangmake_batch.cpp:150-183).
SlotsFresh ==
    \A i \in DOMAIN results :
        results[i] # None => results[i] = Slang(opts, perms[i], files)

\* The dependency paths of entry e of blob b.
DepPaths(b, e) == [j \in DOMAIN e.deps |-> b.deps[e.deps[j]].path]

\* The files in fs are what entry e of b was recorded with.
Unchanged(b, e, fs) ==
    \A j \in DOMAIN e.deps :
        HashFileContents(fs, b.deps[e.deps[j]].path) = b.deps[e.deps[j]].hash

\* e is the compilation of its permutation on any files that match e's
\* dependencies, under any options with b's target and fingerprint.
Sound(b, e) ==
    \A o \in Options, p \in Perms, fs \in FileStates :
        /\ o.target = b.target /\ Fingerprint(o) = b.optionsHash
        /\ Key(p) = e.key
        /\ Unchanged(b, e, fs)
        => Slang(o, p, fs) = [success |-> TRUE, code |-> e.code, deps |-> DepPaths(b, e)]

\* The output file never holds an entry that a later call, finding the
\* dependencies unchanged, would be wrong to reuse: across calls, edits,
\* exceptions and crashes, the recorded hashes belong to the recorded code
\* (slangmake_batch.cpp:228-258).
DiskSound == disk # None => \A n \in DOMAIN disk.entries : Sound(disk, disk.entries[n])

\* The dependency table of the output file is the union of its entries'
\* dependencies (the comment at slangmake_batch.cpp:232): no path twice, no
\* index outside, no row that no entry uses.
DepTableExact ==
    disk # None =>
        /\ \A c, d \in DOMAIN disk.deps : disk.deps[c].path = disk.deps[d].path => c = d
        /\ \A n \in DOMAIN disk.entries : \A j \in DOMAIN disk.entries[n].deps :
              disk.entries[n].deps[j] \in DOMAIN disk.deps
        /\ \A d \in DOMAIN disk.deps : \E n \in DOMAIN disk.entries :
              \E j \in DOMAIN disk.entries[n].deps : disk.entries[n].deps[j] = d

\* A permutation goes to the compiler only if the output file has no usable
\* entry for it or one of the files that entry itself read has changed
\* (README.md:366-369): an edit elsewhere invalidates nothing.
NoNeedlessCompile ==
    pc \in {"reuse", "compile"} /\ Usable =>
        \A i \in toCompile : \A n \in DOMAIN disk.entries :
            IsCandidate(disk, n, perms[i]) => ~Unchanged(disk, disk.entries[n], files)

\* An entry whose dependencies are unknown is not reused (the comment on
\* BlobWriter::addEntry, include/slangmake.hpp:591-592).
UnknownDepsNotReused ==
    \A i \in reused : \A n \in DOMAIN prev.entries :
        IsCandidate(prev, n, perms[i]) => prev.entries[n].deps # <<>>

\* Seen from outside, a call is a build from scratch.
Clean ==
    INSTANCE CleanBuild WITH
        store  <- IF disk = None THEN None
                  ELSE [target |-> disk.target, optionsHash |-> disk.optionsHash,
                        entries |-> [n \in DOMAIN disk.entries |->
                            [key |-> disk.entries[n].key, code |-> disk.entries[n].code]]],
        answer <- IF pc = "returned"
                  THEN [compiled |-> out.compiled, failures |-> out.failures]
                  ELSE None

\* A caller cannot tell compileFile from a build without a cache: the Output
\* and the code in the output file are those of a build from scratch on the
\* files of that moment, and a call that fails or dies leaves the old blob
\* or none.
ImplementsCleanBuild == Clean!Spec
=============================================================================
