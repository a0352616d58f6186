------------------------ MODULE BatchCompilerProofs ------------------------
(***************************************************************************)
(* TLAPS proofs about BatchCompiler, for any files, options, permutations  *)
(* and compiler that satisfy the assumptions of BuildInputs.               *)
(***************************************************************************)
EXTENDS BatchCompiler, FiniteSetTheorems, TLAPS

WithOptions == {"load", "reuse", "compile", "deps", "record", "open", "write"}

\* Which values the locals of compileFile have where.
Locals ==
    /\ pc # "idle" => call \in Calls
    /\ pc \in {"idle", "parse"} => perms = <<>>
    /\ pc \in WithOptions => opts \in Options /\ opts.target = call.target
    /\ pc \in {"open", "write"} => out.blob \in Blobs
    /\ prev # None => DOMAIN seen = DOMAIN prev.deps

TInv == TypeOK /\ Locals

-----------------------------------------------------------------------------
(* The operators the model is built from.                                  *)

\* A content hash is a number that is 0 exactly for a missing file, and on a
\* path it determines the content.
LEMMA HashFacts ==
    ASSUME NEW fs \in FileStates, NEW gs \in FileStates, NEW path \in Paths
    PROVE  /\ HashFileContents(fs, path) \in Nat
           /\ HashFileContents(fs, path) = HashFileContents(gs, path)
                 => fs[path] = gs[path]
<1>1. fs[path] \in Contents \cup {Absent} /\ gs[path] \in Contents \cup {Absent}
  BY DEF FileStates, MaybeContent
<1>2. \A c \in Contents : ContentHash(c) \in Nat /\ ContentHash(c) # 0
  BY IdentityAssumption
<1>3. \A c, d \in Contents : ContentHash(c) = ContentHash(d) => c = d
  BY IdentityAssumption
<1> QED
  BY <1>1, <1>2, <1>3 DEF HashFileContents

\* inputFile is not in the fingerprint, but with one source, options with
\* one fingerprint and one target are the same.
LEMMA FingerprintFacts ==
    ASSUME NEW o \in Options, NEW p \in Options
    PROVE  /\ Fingerprint(o) \in Hashes
           /\ Fingerprint(o) = Fingerprint(p) => o.flags = p.flags /\ o.refl = p.refl
<1>1. o.target \in Targets /\ o.flags \in Flags /\ o.refl \in BOOLEAN
  BY DEF Options
<1>2. p.target \in Targets /\ p.flags \in Flags /\ p.refl \in BOOLEAN
  BY DEF Options
<1>3. Fingerprint(o) \in Hashes
  BY <1>1 DEF Fingerprint, Hashes
<1> QED
  BY <1>1, <1>2, <1>3, IdentityAssumption DEF Fingerprint

\* The compiler returns a Result.
LEMMA SlangTyped ==
    ASSUME NEW o \in Options, NEW p \in Perms, NEW fs \in FileStates
    PROVE  Slang(o, p, fs) \in Results
BY SlangAssumption

\* What a call reads from its source has the expected types.
LEMMA CallTyped ==
    ASSUME NEW c \in Calls, NEW fs \in FileStates
    PROVE  /\ c \in CallRecords
           /\ Script(fs[c.source], c.override).perms \in Seq(Perms)
           /\ EffectiveOptions(c, fs[c.source]) \in Options
           /\ EffectiveOptions(c, fs[c.source]).target = c.target
<1>1. c \in CallRecords
  BY InputAssumption
<1>2. /\ c.source \in Sources /\ c.source \in Paths /\ c.target \in Targets
      /\ c.flags \in Flags /\ c.refl \in BOOLEAN /\ c.override \in Overrides
  BY <1>1, InputAssumption DEF CallRecords
<1>3. fs[c.source] \in MaybeContent
  BY <1>2 DEF FileStates
<1>4. Script(fs[c.source], c.override).perms \in Seq(Perms)
  BY <1>2, <1>3, InputAssumption
<1>5. EffectiveOptions(c, fs[c.source]) \in Options
  BY <1>2, <1>3, InputAssumption DEF EffectiveOptions, Options
<1>6. EffectiveOptions(c, fs[c.source]).target = c.target
  BY DEF EffectiveOptions
<1> QED
  BY <1>1, <1>4, <1>5, <1>6

\* Saving a file leaves a possible state of the files.
LEMMA EditTyped ==
    ASSUME NEW fs \in FileStates, NEW path \in Paths, NEW c \in Versions[path]
    PROVE  [fs EXCEPT ![path] = c] \in FileStates
BY InputAssumption DEF FileStates

\* A blob that was cut short still reads as a blob.
LEMMA TornTyped ==
    ASSUME NEW b \in Blobs, NEW v \in TornViews(b)
    PROVE  v \in Blobs \cup {None}
<1>0. /\ b.target \in Targets /\ b.optionsHash \in Hashes
      /\ b.entries \in Seq(Entries) /\ b.deps \in Seq(DepInfos)
      /\ b = [target |-> b.target, optionsHash |-> b.optionsHash,
              entries |-> b.entries, deps |-> b.deps]
  BY DEF Blobs
<1>1. ASSUME NEW i \in DOMAIN b.entries
      PROVE  /\ b.entries[i].key \in Keys
             /\ b.entries[i].code \in Codes
             /\ b.entries[i] \in Entries
             /\ [b.entries[i] EXCEPT !.deps = <<>>] \in Entries
  <2>1. b.entries[i] \in Entries
    BY <1>0
  <2>2. <<>> \in Seq(Nat)
    OBVIOUS
  <2> QED
    BY <2>1, <2>2 DEF Entries
<1>2. <<>> \in Seq(Nat) /\ <<>> \in Seq(DepInfos)
  OBVIOUS
<1>3. EmptyCode \in Codes /\ Key(DefaultPerm) \in Keys
  BY InputAssumption DEF Keys
<1>4. ASSUME NEW n, NEW kept
      PROVE  Views!CutPayload(b, n, kept) \in Blobs
  <2> DEFINE there == kept \cup (UNION {Undivided(b.entries[h].code) : h \in 1 .. n - 1})
             E(i) == [key |-> IF i <= n THEN b.entries[i].key ELSE Key(DefaultPerm),
                      code |-> IF Undivided(b.entries[i].code) \subseteq there
                               THEN b.entries[i].code ELSE EmptyCode,
                      deps |-> <<>>]
             es == [i \in DOMAIN b.entries |-> E(i)]
  <2> HIDE DEF there
  <2>1. \A i \in DOMAIN b.entries : E(i) \in Entries
    BY <1>1, <1>2, <1>3 DEF Entries
  <2>2. DOMAIN b.entries = 1 .. Len(b.entries) /\ Len(b.entries) \in Nat
    BY <1>0
  <2> HIDE DEF E
  <2>3. es \in Seq(Entries)
    BY <2>1, <2>2
  <2>4. Views!CutPayload(b, n, kept) = [b EXCEPT !.entries = es, !.deps = <<>>]
    BY DEF Views!CutPayload, E, there
  <2> HIDE DEF es
  <2> QED
    BY <2>3, <2>4, <1>0, <1>2 DEF Blobs
<1>5. ASSUME NEW n \in DOMAIN b.entries
      PROVE  Views!CutPool(b, n) \in Blobs
  <2> DEFINE E(i) == IF i < n THEN b.entries[i] ELSE [b.entries[i] EXCEPT !.deps = <<>>]
             es == [i \in DOMAIN b.entries |-> E(i)]
  <2>1. \A i \in DOMAIN b.entries : E(i) \in Entries
    BY <1>1
  <2>2. DOMAIN b.entries = 1 .. Len(b.entries) /\ Len(b.entries) \in Nat
    BY <1>0
  <2> HIDE DEF E
  <2>3. es \in Seq(Entries)
    BY <2>1, <2>2
  <2>4. Views!CutPool(b, n) = [b EXCEPT !.entries = es]
    BY DEF Views!CutPool, E
  <2> HIDE DEF es
  <2> QED
    BY <2>3, <2>4, <1>0 DEF Blobs
<1>6. v = None \/ v \in Views!Cuts(b)
  BY DEF TornViews
<1>7. ASSUME v \in Views!Cuts(b) PROVE v \in Blobs
  <2> DEFINE Kept(n) == SUBSET Undivided(b.entries[n].code)
             Behind(n) == {Views!CutPayload(b, n, kept) : kept \in Kept(n)}
             Inside == UNION {Behind(n) : n \in DOMAIN b.entries}
             InPool == {Views!CutPool(b, n) : n \in DOMAIN b.entries}
  <2>1. v \in {Views!CutPayload(b, 0, {})} \cup Inside \cup InPool
    BY <1>7 DEF Views!Cuts
  <2>2. v \in Inside => v \in Blobs
    <3>1. ASSUME NEW n \in DOMAIN b.entries, v \in Behind(n) PROVE v \in Blobs
      <4>1. PICK kept \in Kept(n) : v = Views!CutPayload(b, n, kept)
        BY <3>1, Zenon
      <4> QED
        BY <4>1, <1>4
    <3> HIDE DEF Behind
    <3> QED
      BY <3>1, Zenon
  <2>3. v \in InPool => v \in Blobs
    BY <1>5, Zenon
  <2> QED
    BY <1>4, <2>1, <2>2, <2>3
<1> QED
  BY <1>6, <1>7

-----------------------------------------------------------------------------
(* Type correctness.                                                       *)

LEMMA TypeInit == ASSUME Init PROVE TInv
<1>1. NoOutput \in Outputs
  BY DEF NoOutput, Outputs
<1>2. DOMAIN perms = {}
  BY DEF Init
<1>3. /\ results \in [DOMAIN perms -> Results \cup {None}]
      /\ indices \in [DOMAIN perms -> Seq(DOMAIN depVec)]
  BY <1>2 DEF Init
<1>4. TypeOK
  BY <1>1, <1>2, <1>3 DEF Init, TypeOK
<1>5. Locals
  BY DEF Init, Locals, WithOptions
<1> QED
  BY <1>4, <1>5 DEF TInv

LEMMA CallType == ASSUME TInv, NEW c \in Calls, Call(c) PROVE TInv'
BY DEF TInv, TypeOK, Locals, Call, working, NoOutput, Outputs, WithOptions

LEMMA PrepareType == ASSUME TInv, Prepare PROVE TInv'
<1> USE DEF TInv
<1>1. CASE RejectDuplicateAxes
  <2>1. <<None>> \in Seq(Perms \cup {None})
    OBVIOUS
  <2>2. out' \in Outputs
    BY <2>1, <1>1 DEF TypeOK, RejectDuplicateAxes, Outputs
  <2> QED
    BY <2>2, <1>1 DEF TypeOK, Locals, RejectDuplicateAxes, working, WithOptions
<1>2. CASE ParseSource
  <2>1. call \in Calls /\ files \in FileStates
    BY <1>2 DEF TypeOK, Locals, ParseSource
  <2>2. perms' \in Seq(Perms)
    BY <2>1, <1>2, CallTyped DEF ParseSource
  <2>3. /\ results' \in [DOMAIN perms' -> Results \cup {None}]
        /\ indices' \in [DOMAIN perms' -> Seq(DOMAIN depVec')]
    BY <1>2 DEF ParseSource
  <2>4. /\ perms = <<>> /\ cursor = 1 /\ reused = {} /\ toCompile = {}
    BY <1>2 DEF TypeOK, Locals, ParseSource
  <2>5. Len(perms') \in Nat
    BY <2>2
  <2> QED
    BY <2>2, <2>3, <2>4, <2>5, <1>2 DEF TypeOK, Locals, ParseSource, WithOptions
<1>3. CASE FixOptions
  <2>1. call \in Calls /\ files \in FileStates
    BY <1>3 DEF TypeOK, Locals, FixOptions
  <2>2. opts' \in Options /\ opts'.target = call.target
    BY <2>1, <1>3, CallTyped DEF FixOptions
  <2> QED
    BY <2>2, <1>3 DEF TypeOK, Locals, FixOptions, WithOptions
<1>4. CASE LoadPrevious
  <2>1. prev' \in Blobs \cup {None}
    BY <1>4 DEF TypeOK, LoadPrevious
  <2>2. seen' \in Seq(Nat \cup {Unhashed}) /\ (prev' # None => DOMAIN seen' = DOMAIN prev'.deps)
    <3>1. CASE ~Usable
      BY <3>1, <1>4 DEF LoadPrevious
    <3>2. CASE Usable
      <4>1. disk \in Blobs
        BY <3>2 DEF TypeOK, Usable
      <4>2. disk.deps \in Seq(DepInfos)
        BY <4>1 DEF Blobs
      <4> QED
        BY <4>2, <3>2, <1>4 DEF LoadPrevious
    <3> QED
      BY <3>1, <3>2
  <2> QED
    BY <2>1, <2>2, <1>4 DEF TypeOK, Locals, LoadPrevious, WithOptions
<1> QED
  BY <1>1, <1>2, <1>3, <1>4 DEF Prepare

\* Remembering hashes keeps one slot per row of the previous table.
LEMMA SeenTyped ==
    ASSUME TInv, prev # None, NEW e \in Entries
    PROVE  /\ SeenAfter(e) \in Seq(Nat \cup {Unhashed})
           /\ DOMAIN SeenAfter(e) = DOMAIN seen
<1>1. prev \in Blobs /\ seen \in Seq(Nat \cup {Unhashed}) /\ files \in FileStates
  BY DEF TInv, TypeOK
<1>2. prev.deps \in Seq(DepInfos) /\ DOMAIN seen = DOMAIN prev.deps
  BY <1>1 DEF TInv, Locals, Blobs
<1>3. ASSUME NEW d \in DOMAIN seen
      PROVE  CurrentHash(d) \in Nat \cup {Unhashed}
  <2>0. prev.deps[d] \in DepInfos
    BY <1>2
  <2>1. prev.deps[d].path \in Paths
    BY <2>0 DEF DepInfos
  <2>2. HashFileContents(files, prev.deps[d].path) \in Nat
    BY <2>1, <1>1, HashFacts
  <2> QED
    BY <2>2, <1>1 DEF CurrentHash
<1>4. DOMAIN seen = 1 .. Len(seen) /\ Len(seen) \in Nat
  BY <1>1
<1> QED
  BY <1>1, <1>3, <1>4 DEF SeenAfter

\* An entry that is kept becomes a Result.
LEMMA KeptTyped ==
    ASSUME TInv, prev # None, NEW e \in Entries, DepsOk(e)
    PROVE  KeptResult(e) \in Results
<1>1. prev.deps \in Seq(DepInfos)
  BY DEF TInv, TypeOK, Blobs
<1>2. e.code \in Codes /\ e.deps \in Seq(Nat)
  BY DEF Entries
<1>3. ASSUME NEW j \in DOMAIN e.deps
      PROVE  prev.deps[e.deps[j]].path \in Paths
  <2>1. e.deps[j] \in DOMAIN prev.deps
    BY <1>3 DEF DepsOk, DepMatches
  <2>2. prev.deps[e.deps[j]] \in DepInfos
    BY <1>1, <2>1
  <2> QED
    BY <2>2 DEF DepInfos
<1>4. DOMAIN e.deps = 1 .. Len(e.deps) /\ Len(e.deps) \in Nat
  BY <1>2
<1>5. [j \in DOMAIN e.deps |-> prev.deps[e.deps[j]].path] \in Seq(Paths)
  BY <1>3, <1>4
<1> QED
  BY <1>2, <1>5 DEF KeptResult, Results

LEMMA DecideType == ASSUME TInv, Decide PROVE TInv'
<1> USE DEF TInv
<1>1. cursor \in 1 .. Len(perms) + 1 /\ Len(perms) \in Nat /\ DOMAIN perms = 1 .. Len(perms)
  BY DEF TypeOK
<1>2. ASSUME prev # None, NEW n \in DOMAIN prev.entries
      PROVE  prev.entries[n] \in Entries
  <2>1. prev.entries \in Seq(Entries)
    BY <1>2 DEF TypeOK, Blobs
  <2> QED
    BY <1>2, <2>1
<1>3. CASE Reuse
  <2>1. PICK n \in DOMAIN prev.entries :
           /\ DepsOk(prev.entries[n])
           /\ results' = [results EXCEPT ![cursor] = KeptResult(prev.entries[n])]
           /\ seen' = SeenAfter(prev.entries[n])
    BY <1>3 DEF Reuse
  <2>2. prev # None /\ cursor \in DOMAIN perms
    BY <1>3 DEF Reuse
  <2>3. KeptResult(prev.entries[n]) \in Results
    BY <2>1, <2>2, <1>2, KeptTyped
  <2>4. results' \in [DOMAIN perms -> Results \cup {None}]
    BY <2>1, <2>2, <2>3 DEF TypeOK
  <2>5. seen' \in Seq(Nat \cup {Unhashed}) /\ DOMAIN seen' = DOMAIN seen
    BY <2>1, <2>2, <1>2, SeenTyped
  <2>6. TypeOK'
    BY <1>1, <2>2, <2>4, <2>5, <1>3 DEF TypeOK, Reuse
  <2>7. Locals'
    BY <2>5, <1>3 DEF Locals, Reuse, WithOptions
  <2> QED
    BY <2>6, <2>7
<1>4. CASE QueueStale
  <2>1. PICK n \in DOMAIN prev.entries : seen' = SeenAfter(prev.entries[n])
    BY <1>4 DEF QueueStale
  <2>2. prev # None /\ cursor \in DOMAIN perms
    BY <1>4 DEF QueueStale
  <2>3. seen' \in Seq(Nat \cup {Unhashed}) /\ DOMAIN seen' = DOMAIN seen
    BY <2>1, <2>2, <1>2, SeenTyped
  <2>4. TypeOK'
    BY SMTT(60), <1>1, <2>2, <2>3, <1>4 DEF TypeOK, QueueStale
  <2>5. Locals'
    BY <2>3, <1>4 DEF Locals, QueueStale, WithOptions
  <2> QED
    BY <2>4, <2>5
<1>5. CASE QueueNew
  BY SMTT(60), <1>1, <1>5 DEF TypeOK, Locals, QueueNew, WithOptions
<1>6. CASE ReuseDone
  BY <1>1, <1>6 DEF TypeOK, Locals, ReuseDone, WithOptions
<1> QED
  BY <1>3, <1>4, <1>5, <1>6 DEF Decide

LEMMA CompileType == ASSUME TInv, Compile PROVE TInv'
<1> USE DEF TInv
<1>1. CASE CompileDone
  BY <1>1 DEF TypeOK, Locals, CompileDone, working, WithOptions
<1>2. ASSUME NEW i \in DOMAIN perms, CompileOne(i)
      PROVE  TInv'
  <2>0. perms \in Seq(Perms) /\ files \in FileStates
    BY DEF TypeOK
  <2>1. opts \in Options /\ perms[i] \in Perms /\ files \in FileStates
    BY <1>2, <2>0 DEF Locals, CompileOne, WithOptions
  <2>2. Slang(opts, perms[i], files) \in Results
    BY <2>1, SlangTyped
  <2>3. results' \in [DOMAIN perms -> Results \cup {None}]
    BY <1>2, <2>2 DEF TypeOK, CompileOne
  <2> QED
    BY <1>2, <2>3 DEF TypeOK, Locals, CompileOne, WithOptions
<1> QED
  BY <1>1, <1>2 DEF Compile

\* The path that is numbered next.
LEMMA NextDepTyped ==
    ASSUME TInv, Numbering
    PROVE  /\ NextDep \in Paths
           /\ HashFileContents(files, NextDep) \in Nat
<1>1. cursor \in DOMAIN perms /\ results[cursor] \in Results /\ indices[cursor] \in Seq(DOMAIN depVec)
  BY DEF TInv, TypeOK, Numbering, Surviving
<1>2. results[cursor].deps \in Seq(Paths)
  BY <1>1 DEF Results
<1>3. Len(indices[cursor]) + 1 \in DOMAIN results[cursor].deps
  BY <1>1, <1>2 DEF Numbering
<1>4. NextDep \in Paths
  BY <1>2, <1>3 DEF NextDep
<1> QED
  BY <1>4, HashFacts DEF TInv, TypeOK

LEMMA NumberType == ASSUME TInv, Number PROVE TInv'
<1> USE DEF TInv
<1>1. cursor \in 1 .. Len(perms) + 1 /\ Len(perms) \in Nat /\ DOMAIN perms = 1 .. Len(perms)
  BY DEF TypeOK
<1>2. depVec \in Seq(DepInfos) /\ DOMAIN depVec = 1 .. Len(depVec) /\ Len(depVec) \in Nat
  BY DEF TypeOK
<1>3. CASE InternKnown
  <2>1. PICK d \in DOMAIN depVec : indices' = [indices EXCEPT ![cursor] = Append(@, d)]
    BY <1>3 DEF InternKnown
  <2>2. indices' \in [DOMAIN perms -> Seq(DOMAIN depVec)]
    BY <2>1, <1>3 DEF TypeOK, InternKnown, Numbering
  <2> QED
    BY <2>2, <1>3 DEF TypeOK, Locals, InternKnown, WithOptions
<1>4. CASE InternNew
  <2>1. NextDep \in Paths /\ HashFileContents(files, NextDep) \in Nat
    BY <1>4, NextDepTyped DEF InternNew
  <2>2. [path |-> NextDep, hash |-> HashFileContents(files, NextDep)] \in DepInfos
    BY <2>1 DEF DepInfos
  <2>3. depVec' \in Seq(DepInfos) /\ Len(depVec') = Len(depVec) + 1
    BY <2>2, <1>2, <1>4 DEF InternNew
  <2>4. DOMAIN depVec' = 1 .. Len(depVec) + 1
    BY <2>3
  <2>5. \A s \in Seq(DOMAIN depVec) : s \in Seq(DOMAIN depVec')
    BY <1>2, <2>4
  <2>6. \A i \in DOMAIN perms : indices[i] \in Seq(DOMAIN depVec')
    BY <2>5 DEF TypeOK
  <2>7. Append(indices[cursor], Len(depVec) + 1) \in Seq(DOMAIN depVec')
    BY <2>4, <2>6, <1>2, <1>4 DEF InternNew, Numbering
  <2>8. indices' \in [DOMAIN perms -> Seq(DOMAIN depVec')]
    BY <2>6, <2>7, <1>4 DEF TypeOK, InternNew
  <2> QED
    BY <2>3, <2>8, <1>4 DEF TypeOK, Locals, InternNew, WithOptions
<1>5. CASE InternSlotDone
  BY SMTT(60), <1>1, <1>5 DEF TypeOK, Locals, InternSlotDone, WithOptions
<1>6. CASE InternDone
  BY <1>1, <1>6 DEF TypeOK, Locals, InternDone, WithOptions
<1> QED
  BY <1>3, <1>4, <1>5, <1>6 DEF Number

\* What finalize serialises is a blob.
LEMMA FinalizedTyped ==
    ASSUME TInv, pc = "record", NEW table \in Seq(DepInfos)
    PROVE  Finalized(table) \in Blobs
<1>1. call \in CallRecords /\ opts \in Options /\ entries \in Seq(Entries)
  BY CallTyped DEF TInv, TypeOK, Locals, WithOptions
<1>2. call.target \in Targets
  BY <1>1 DEF CallRecords
<1>3. Fingerprint(opts) \in Hashes
  BY <1>1, FingerprintFacts
<1> QED
  BY <1>1, <1>2, <1>3 DEF Finalized, Blobs

LEMMA RecordType == ASSUME TInv, Record PROVE TInv'
<1> USE DEF TInv
<1>1. cursor \in 1 .. Len(perms) + 1 /\ Len(perms) \in Nat /\ DOMAIN perms = 1 .. Len(perms)
  BY DEF TypeOK
<1>2. /\ out.compiled \in Seq(Perms) /\ out.failures \in Seq(Perms \cup {None})
      /\ out.fresh \in Nat /\ out.reused \in Nat /\ out.blob \in Blobs \cup {None}
  BY DEF TypeOK, Outputs
<1>3. ASSUME cursor \in DOMAIN perms
      PROVE  /\ perms[cursor] \in Perms
             /\ Append(out.compiled, perms[cursor]) \in Seq(Perms)
             /\ Append(out.failures, perms[cursor]) \in Seq(Perms \cup {None})
  <2>1. perms[cursor] \in Perms
    BY <1>3 DEF TypeOK
  <2> QED
    BY <2>1, <1>2
<1>4. CASE RecordEntry
  <2>1. results[cursor] \in Results /\ indices[cursor] \in Seq(DOMAIN depVec)
    BY <1>4 DEF TypeOK, RecordEntry, Surviving
  <2>2. Key(perms[cursor]) \in Keys /\ results[cursor].code \in Codes
    BY <2>1, <1>3, <1>4 DEF RecordEntry, Keys, Results
  <2>3. DOMAIN depVec \subseteq Nat
    BY DEF TypeOK
  <2>4. indices[cursor] \in Seq(Nat)
    BY <2>1, <2>3
  <2>5. entries' \in Seq(Entries)
    BY <2>2, <2>4, <1>4 DEF TypeOK, RecordEntry, Entries
  <2>6. out' \in Outputs
    <3> DEFINE c  == Append(out.compiled, perms[cursor])
               fr == IF cursor \in reused THEN out.fresh ELSE out.fresh + 1
               re == IF cursor \in reused THEN out.reused + 1 ELSE out.reused
    <3>1. c \in Seq(Perms) /\ fr \in Nat /\ re \in Nat
      BY <1>2, <1>3, <1>4 DEF RecordEntry
    <3>2. out' = [out EXCEPT !.compiled = c, !.fresh = fr, !.reused = re]
      BY <1>4 DEF RecordEntry
    <3> HIDE DEF c, fr, re
    <3> QED
      BY <3>1, <3>2 DEF TypeOK, Outputs
  <2> QED
    BY SMTT(60), <1>1, <2>5, <2>6, <1>4 DEF TypeOK, Locals, RecordEntry, WithOptions
<1>5. CASE RecordFailure
  <2>1. out' \in Outputs
    <3> DEFINE f == Append(out.failures, perms[cursor])
    <3>1. f \in Seq(Perms \cup {None})
      BY <1>3, <1>5 DEF RecordFailure
    <3>2. out' = [out EXCEPT !.failures = f]
      BY <1>5 DEF RecordFailure
    <3> HIDE DEF f
    <3> QED
      BY <3>1, <3>2 DEF TypeOK, Outputs
  <2> QED
    BY SMTT(60), <1>1, <2>1, <1>5 DEF TypeOK, Locals, RecordFailure, WithOptions
<1>6. CASE StopAtFailure
  <2>0. <<>> \in Seq(DepInfos) /\ pc = "record"
    BY <1>6 DEF StopAtFailure
  <2>1. Finalized(<<>>) \in Blobs
    BY <2>0, FinalizedTyped
  <2>2. out' \in Outputs
    <3> DEFINE f == Append(out.failures, perms[cursor])
               b == Finalized(<<>>)
    <3>1. f \in Seq(Perms \cup {None}) /\ b \in Blobs
      BY <1>3, <1>6, <2>1 DEF StopAtFailure
    <3>2. out' = [out EXCEPT !.failures = f, !.blob = b]
      BY <1>6 DEF StopAtFailure
    <3> HIDE DEF f, b
    <3> QED
      BY <3>1, <3>2 DEF TypeOK, Outputs
  <2> QED
    BY <2>2, <1>6 DEF TypeOK, Locals, StopAtFailure, working, WithOptions
<1>7. CASE Finish
  <2>1. Finalized(depVec) \in Blobs
    BY <1>7, FinalizedTyped DEF Finish, TypeOK
  <2>2. out' \in Outputs /\ out'.blob \in Blobs
    BY <1>2, <1>7, <2>1 DEF Finish, Outputs, TypeOK
  <2> QED
    BY <2>2, <1>7 DEF TypeOK, Locals, Finish, working, WithOptions
<1> QED
  BY <1>4, <1>5, <1>6, <1>7 DEF Record

LEMMA WriteType == ASSUME TInv, Write PROVE TInv'
<1> USE DEF TInv
<1>1. CASE OpenTruncates
  BY <1>1 DEF TypeOK, Locals, OpenTruncates, working, WithOptions
<1>2. CASE WriteAll
  BY <1>2 DEF TypeOK, Locals, WriteAll, working, WithOptions
<1>3. CASE WriteShort
  <2>1. disk' \in Blobs \cup {None}
    BY <1>3, TornTyped DEF Locals, WriteShort
  <2> QED
    BY <2>1, <1>3 DEF TypeOK, Locals, WriteShort, working, WithOptions
<1> QED
  BY <1>1, <1>2, <1>3 DEF Write

LEMMA EndType == ASSUME TInv, Collect \/ Throw \/ Kill PROVE TInv'
<1> USE DEF TInv
<1>1. Forget
  BY DEF Collect, Throw, Kill
<1>2. disk' \in Blobs \cup {None}
  BY TornTyped DEF TypeOK, Locals, Collect, Throw, Kill
<1>3. NoOutput \in Outputs
  BY DEF NoOutput, Outputs
<1> QED
  BY <1>1, <1>2, <1>3 DEF TypeOK, Locals, Forget, WithOptions

LEMMA EditType == ASSUME TInv, NEW path \in Paths, Edit(path) PROVE TInv'
<1>0. PICK c \in Versions[path] : files' = [files EXCEPT ![path] = c]
  BY DEF Edit
<1>1. files' \in FileStates
  BY <1>0, EditTyped DEF TInv, TypeOK
<1> QED
  BY <1>1 DEF TInv, TypeOK, Locals, Edit, working, WithOptions

LEMMA TypeStep == ASSUME TInv, [Next]_vars PROVE TInv'
<1>1. CASE UNCHANGED vars
  BY <1>1 DEF TInv, TypeOK, Locals, vars, working, WithOptions
<1>2. CASE Next
  BY <1>2, CallType, PrepareType, DecideType, CompileType, NumberType,
     RecordType, WriteType, EndType, EditType DEF Next
<1> QED
  BY <1>1, <1>2

\* Every variable of compileFile keeps its type and every dependency index
\* stays inside the table, with or without racing edits and torn writes.
THEOREM TypeCorrect == Spec => []TypeOK
<1>1. Spec => []TInv
  BY TypeInit, TypeStep, PTL DEF Spec
<1>2. TInv => TypeOK
  BY DEF TInv
<1> QED
  BY <1>1, <1>2, PTL

-----------------------------------------------------------------------------
(* Soundness of reuse.  The argument: a reused result is right because the *)
(* entry is sound and its dependencies compare equal; a compiled one is    *)
(* right by definition; the table pairs the paths of the results with the  *)
(* hashes of the files they were compiled from, as long as those files do  *)
(* not change in between; so the entries written next are sound again.     *)

\* The environment in which reuse is claimed to be right: no edit during a
\* call, no readable truncated blob, and one source per output file.
OneSource == \A s, t \in Sources : s = t

\* Before the reuse pass there are no results and no previous blob.
Early ==
    /\ pc \in {"idle", "parse", "options", "load"} =>
          /\ prev = None /\ seen = <<>>
          /\ \A i \in DOMAIN perms : results[i] = None
    /\ pc \in {"idle", "parse", "options", "load", "reuse", "compile"} =>
          /\ depVec = <<>>
          /\ \A i \in DOMAIN perms : indices[i] = <<>>
    /\ pc \in {"idle", "parse", "options", "load", "reuse", "compile", "deps"} =>
          entries = <<>>
    /\ pc = "compile" => cursor = 1

\* The remembered hashes are those of the files.
SeenFresh ==
    \A d \in DOMAIN seen : seen[d] # Unhashed =>
        seen[d] = HashFileContents(files, prev.deps[d].path)

\* The previous blob was built with these options, and soundly.
PrevSound ==
    prev # None =>
        /\ prev.target = opts.target /\ prev.optionsHash = Fingerprint(opts)
        /\ \A n \in DOMAIN prev.entries : Sound(prev, prev.entries[n])

\* The table under construction holds the hashes of the files.
TableFresh ==
    \A d \in DOMAIN depVec : depVec[d].hash = HashFileContents(files, depVec[d].path)

\* The indices of a result name its dependency paths, in order.
IndicesNamePaths ==
    \A i \in DOMAIN perms : Surviving(i) =>
        \A j \in DOMAIN indices[i] :
            /\ j \in DOMAIN results[i].deps
            /\ depVec[indices[i][j]].path = results[i].deps[j]

\* No dependency path is left without an index.
AllNumbered ==
    /\ pc = "deps" => \A i \in DOMAIN perms : i < cursor /\ Surviving(i) =>
                          Len(indices[i]) = Len(results[i].deps)
    /\ pc = "record" => \A i \in DOMAIN perms : Surviving(i) =>
                          Len(indices[i]) = Len(results[i].deps)

\* The writer's entries are surviving results.
EntriesRecorded ==
    \A n \in DOMAIN entries : \E i \in DOMAIN perms :
        /\ Surviving(i)
        /\ entries[n] = [key |-> Key(perms[i]), code |-> results[i].code,
                         deps |-> indices[i]]

\* The blob about to be written is sound.
OutSound ==
    pc \in {"open", "write"} =>
        \A n \in DOMAIN out.blob.entries : Sound(out.blob, out.blob.entries[n])

FInv ==
    /\ Early /\ SeenFresh /\ PrevSound /\ TableFresh /\ IndicesNamePaths
    /\ AllNumbered /\ EntriesRecorded /\ OutSound /\ SlotsFresh /\ DiskSound

-----------------------------------------------------------------------------

LEMMA FreshInit == ASSUME Init PROVE FInv
BY DEF Init, FInv, Early, SeenFresh, PrevSound, TableFresh, IndicesNamePaths,
   AllNumbered, EntriesRecorded, OutSound, SlotsFresh, DiskSound

LEMMA FreshCall == ASSUME TInv, FInv, NEW c \in Calls, Call(c) PROVE FInv'
BY DEF FInv, Early, SeenFresh, PrevSound, TableFresh, IndicesNamePaths,
   AllNumbered, EntriesRecorded, OutSound, SlotsFresh, DiskSound, Surviving,
   Call, working

LEMMA FreshPrepare == ASSUME TInv, FInv, Prepare PROVE FInv'
<1> USE DEF FInv, Early, SeenFresh, PrevSound, TableFresh, IndicesNamePaths,
        AllNumbered, EntriesRecorded, OutSound, SlotsFresh, DiskSound
<1>1. CASE RejectDuplicateAxes
  BY SMTT(60), <1>1 DEF RejectDuplicateAxes, working, Surviving
<1>2. CASE ParseSource
  BY ZenonT(60), <1>2 DEF ParseSource, Surviving
<1>3. CASE FixOptions
  <2>1. perms \in Seq(Perms) /\ results \in [DOMAIN perms -> Results \cup {None}]
    BY DEF TInv, TypeOK
  <2> QED
    BY <1>3, <2>1 DEF FixOptions, Surviving
<1>4. CASE LoadPrevious
  BY <1>4 DEF LoadPrevious, Surviving, Usable
<1> QED
  BY <1>1, <1>2, <1>3, <1>4 DEF Prepare

\* Looking a hash up or computing it makes no difference.
LEMMA CurrentHashFresh ==
    ASSUME SeenFresh, NEW d \in DOMAIN seen
    PROVE  CurrentHash(d) = HashFileContents(files, prev.deps[d].path)
BY DEF SeenFresh, CurrentHash

\* So remembering more of them keeps them fresh.
LEMMA SeenAfterFresh ==
    ASSUME SeenFresh, NEW e, NEW d \in DOMAIN seen, SeenAfter(e)[d] # Unhashed
    PROVE  SeenAfter(e)[d] = HashFileContents(files, prev.deps[d].path)
BY CurrentHashFresh DEF SeenFresh, SeenAfter

\* An entry whose dependencies compare equal holds what the compiler would
\* return.
LEMMA KeptIsFresh ==
    ASSUME TInv, FInv, pc = "reuse", prev # None, cursor \in DOMAIN perms,
           NEW n \in DOMAIN prev.entries,
           IsCandidate(prev, n, perms[cursor]), DepsOk(prev.entries[n])
    PROVE  KeptResult(prev.entries[n]) = Slang(opts, perms[cursor], files)
<1> DEFINE e == prev.entries[n]
<1>1. /\ opts \in Options /\ perms[cursor] \in Perms /\ files \in FileStates
      /\ DOMAIN seen = DOMAIN prev.deps
  <2>1. perms \in Seq(Perms)
    BY DEF TInv, TypeOK
  <2> QED
    BY <2>1 DEF TInv, TypeOK, Locals, WithOptions
<1>2. Sound(prev, e) /\ opts.target = prev.target /\ Fingerprint(opts) = prev.optionsHash
  BY DEF FInv, PrevSound
<1>3. Unchanged(prev, e, files)
  <2> SUFFICES ASSUME NEW j \in DOMAIN e.deps
               PROVE  HashFileContents(files, prev.deps[e.deps[j]].path)
                         = prev.deps[e.deps[j]].hash
    BY DEF Unchanged
  <2>1. e.deps[j] \in DOMAIN prev.deps /\ CurrentHash(e.deps[j]) = prev.deps[e.deps[j]].hash
    BY DEF DepsOk, DepMatches
  <2> QED
    BY SMTT(60), <2>1, <1>1, CurrentHashFresh DEF FInv
<1>4. Key(perms[cursor]) = e.key
  BY DEF IsCandidate
<1>5. Slang(opts, perms[cursor], files)
         = [success |-> TRUE, code |-> e.code, deps |-> DepPaths(prev, e)]
  BY <1>1, <1>2, <1>3, <1>4 DEF Sound
<1> QED
  BY <1>5 DEF KeptResult, DepPaths

LEMMA FreshDecide == ASSUME TInv, FInv, Decide PROVE FInv'
<1> USE DEF FInv, Early, PrevSound, TableFresh, AllNumbered,
        EntriesRecorded, OutSound, DiskSound
<1>0. /\ results \in [DOMAIN perms -> Results \cup {None}]
      /\ (prev # None => DOMAIN seen = DOMAIN prev.deps)
  BY DEF TInv, TypeOK, Locals
<1>1. CASE Reuse
  <2>1. PICK n \in DOMAIN prev.entries :
           /\ IsCandidate(prev, n, perms[cursor]) /\ DepsOk(prev.entries[n])
           /\ results' = [results EXCEPT ![cursor] = KeptResult(prev.entries[n])]
           /\ seen' = SeenAfter(prev.entries[n])
    BY <1>1 DEF Reuse
  <2>2. pc = "reuse" /\ prev # None /\ cursor \in DOMAIN perms
    BY <1>1 DEF Reuse
  <2>3. SeenFresh'
    <3>1. DOMAIN seen' = DOMAIN seen
      BY <2>1 DEF SeenAfter
    <3> QED
      BY <3>1, <2>1, <1>1, SeenAfterFresh DEF Reuse, SeenFresh
  <2>4. results'[cursor] = Slang(opts, perms[cursor], files)
    BY <2>1, <2>2, <1>0, KeptIsFresh
  <2>5. SlotsFresh'
    BY <2>1, <2>4, <1>0, <1>1 DEF SlotsFresh, Reuse
  <2>6. IndicesNamePaths'
    BY <2>1, <2>2, <1>1, <1>0 DEF IndicesNamePaths, Reuse
  <2> QED
    BY <2>3, <2>5, <2>6, <2>2, <1>1 DEF Reuse
<1>2. CASE QueueStale
  <2>1. PICK n \in DOMAIN prev.entries : seen' = SeenAfter(prev.entries[n])
    BY <1>2 DEF QueueStale
  <2>2. DOMAIN seen' = DOMAIN seen
    BY <2>1 DEF SeenAfter
  <2>3. SeenFresh'
    BY <2>1, <2>2, <1>2, SeenAfterFresh DEF QueueStale, SeenFresh
  <2> QED
    BY <2>3, <1>2 DEF QueueStale, SlotsFresh, IndicesNamePaths, Surviving
<1>3. CASE QueueNew
  BY <1>3 DEF QueueNew, SeenFresh, SlotsFresh, IndicesNamePaths, Surviving
<1>4. CASE ReuseDone
  BY <1>4 DEF ReuseDone, SeenFresh, SlotsFresh, IndicesNamePaths, Surviving
<1> QED
  BY <1>1, <1>2, <1>3, <1>4 DEF Decide

LEMMA FreshCompile == ASSUME TInv, FInv, Compile PROVE FInv'
<1> USE DEF FInv, Early, SeenFresh, PrevSound, TableFresh, IndicesNamePaths,
        AllNumbered, EntriesRecorded, OutSound, DiskSound
<1>1. CASE CompileDone
  <2>2. cursor = 1 /\ \A i \in DOMAIN perms : i \in Nat \ {0}
    BY <1>1 DEF CompileDone, TInv, TypeOK
  <2> QED
    BY <1>1, <2>2 DEF CompileDone, working, SlotsFresh, Surviving
<1>2. ASSUME NEW i \in DOMAIN perms, CompileOne(i)
      PROVE  FInv'
  <2>1. results \in [DOMAIN perms -> Results \cup {None}]
    BY DEF TInv, TypeOK
  <2>2. SlotsFresh'
    BY <1>2, <2>1 DEF SlotsFresh, CompileOne
  <2> QED
    BY <1>2, <2>2 DEF CompileOne
<1> QED
  BY <1>1, <1>2 DEF Compile

LEMMA FreshNumber == ASSUME TInv, FInv, Number PROVE FInv'
<1> USE DEF FInv, Early, PrevSound, EntriesRecorded, OutSound, DiskSound
<1>1. /\ perms \in Seq(Perms) /\ DOMAIN perms = 1 .. Len(perms) /\ Len(perms) \in Nat
      /\ cursor \in 1 .. Len(perms) + 1
      /\ results \in [DOMAIN perms -> Results \cup {None}]
      /\ indices \in [DOMAIN perms -> Seq(DOMAIN depVec)]
      /\ depVec \in Seq(DepInfos)
  BY DEF TInv, TypeOK
<1>2. ASSUME NEW i \in DOMAIN perms
      PROVE  /\ indices[i] \in Seq(DOMAIN depVec)
             /\ DOMAIN indices[i] = 1 .. Len(indices[i]) /\ Len(indices[i]) \in Nat
             /\ \A j \in DOMAIN indices[i] : indices[i][j] \in DOMAIN depVec
  <2>1. indices[i] \in Seq(DOMAIN depVec)
    BY <1>1
  <2> QED
    BY <2>1
<1>3. ASSUME NEW i \in DOMAIN perms, Surviving(i)
      PROVE  DOMAIN results[i].deps = 1 .. Len(results[i].deps) /\ Len(results[i].deps) \in Nat
  <2>1. results[i].deps \in Seq(Paths)
    BY <1>1, <1>3 DEF Surviving, Results
  <2> QED
    BY <2>1
<1>4. CASE InternKnown
  <2>1. PICK d \in DOMAIN depVec : /\ depVec[d].path = NextDep
                                  /\ indices' = [indices EXCEPT ![cursor] = Append(@, d)]
    BY <1>4 DEF InternKnown
  <2>2. /\ cursor \in DOMAIN perms /\ Surviving(cursor) /\ pc = "deps"
        /\ Len(indices[cursor]) < Len(results[cursor].deps)
    BY <1>4 DEF InternKnown, Numbering
  <2>3. /\ indices'[cursor] = Append(indices[cursor], d)
        /\ \A i \in DOMAIN perms : i # cursor => indices'[i] = indices[i]
    BY <2>1, <2>2, <1>1
  <2>4. IndicesNamePaths'
    <3>0. perms' = perms /\ results' = results /\ depVec' = depVec
      BY <1>4 DEF InternKnown
    <3> SUFFICES ASSUME NEW i \in DOMAIN perms, Surviving(i), NEW j \in DOMAIN indices'[i]
                 PROVE  /\ j \in DOMAIN results[i].deps
                        /\ depVec[indices'[i][j]].path = results[i].deps[j]
      BY <3>0 DEF IndicesNamePaths, Surviving
    <3>1. CASE i # cursor \/ j \in DOMAIN indices[i]
      <4>1. j \in DOMAIN indices[i] /\ indices'[i][j] = indices[i][j]
        <5>1. CASE i # cursor
          BY <5>1, <2>3
        <5>2. CASE i = cursor
          BY <5>2, <3>1, <2>2, <2>3, <1>2
        <5> QED
          BY <5>1, <5>2
      <4> QED
        BY <4>1 DEF IndicesNamePaths
    <3>2. CASE i = cursor /\ j \notin DOMAIN indices[i]
      <4>1. j = Len(indices[cursor]) + 1 /\ indices'[cursor][j] = d
        BY <3>2, <2>3, <1>2
      <4> QED
        BY <4>1, <3>2, <2>1, <2>2, <1>2, <1>3 DEF NextDep
    <3> QED
      BY <3>1, <3>2
  <2>5. AllNumbered'
    BY SMTT(60), <2>2, <2>3, <1>1, <1>4 DEF InternKnown, AllNumbered, Surviving
  <2> QED
    BY <2>2, <2>4, <2>5, <1>4 DEF InternKnown, SeenFresh, TableFresh, SlotsFresh, Surviving
<1>5. CASE InternNew
  <2> DEFINE row == [path |-> NextDep, hash |-> HashFileContents(files, NextDep)]
  <2>1. /\ depVec' = Append(depVec, row)
        /\ indices' = [indices EXCEPT ![cursor] = Append(@, Len(depVec) + 1)]
    BY <1>5 DEF InternNew
  <2>2. /\ cursor \in DOMAIN perms /\ Surviving(cursor) /\ pc = "deps"
        /\ Len(indices[cursor]) < Len(results[cursor].deps)
    BY <1>5 DEF InternNew, Numbering
  <2>3. /\ indices'[cursor] = Append(indices[cursor], Len(depVec) + 1)
        /\ \A i \in DOMAIN perms : i # cursor => indices'[i] = indices[i]
    BY <2>1, <2>2, <1>1
  <2>4. /\ DOMAIN depVec' = 1 .. Len(depVec) + 1
        /\ Len(depVec) \in Nat /\ DOMAIN depVec = 1 .. Len(depVec)
        /\ depVec'[Len(depVec) + 1].path = NextDep
        /\ depVec'[Len(depVec) + 1].hash = HashFileContents(files, NextDep)
        /\ \A d \in DOMAIN depVec : depVec'[d] = depVec[d]
    BY <2>1, <1>1
  <2>5. TableFresh'
    BY <2>4, <1>5 DEF InternNew, TableFresh
  <2>6. IndicesNamePaths'
    <3>0. perms' = perms /\ results' = results
      BY <1>5 DEF InternNew
    <3> SUFFICES ASSUME NEW i \in DOMAIN perms, Surviving(i), NEW j \in DOMAIN indices'[i]
                 PROVE  /\ j \in DOMAIN results[i].deps
                        /\ depVec'[indices'[i][j]].path = results[i].deps[j]
      BY <3>0 DEF IndicesNamePaths, Surviving
    <3>1. CASE i # cursor \/ j \in DOMAIN indices[i]
      <4>1. j \in DOMAIN indices[i] /\ indices'[i][j] = indices[i][j]
        <5>1. CASE i # cursor
          BY <5>1, <2>3
        <5>2. CASE i = cursor
          BY <5>2, <3>1, <2>2, <2>3, <1>2
        <5> QED
          BY <5>1, <5>2
      <4>2. indices[i][j] \in DOMAIN depVec
        BY <4>1, <1>2
      <4> QED
        BY <4>1, <4>2, <2>4 DEF IndicesNamePaths
    <3>2. CASE i = cursor /\ j \notin DOMAIN indices[i]
      <4>1. j = Len(indices[cursor]) + 1 /\ indices'[cursor][j] = Len(depVec) + 1
        BY <3>2, <2>3, <1>2
      <4> QED
        BY <4>1, <3>2, <2>4, <2>2, <1>2, <1>3 DEF NextDep
    <3> QED
      BY <3>1, <3>2
  <2>7. AllNumbered'
    BY SMTT(60), <2>2, <2>3, <1>1, <1>5 DEF InternNew, AllNumbered, Surviving
  <2> QED
    BY <2>2, <2>5, <2>6, <2>7, <1>5 DEF InternNew, SeenFresh, SlotsFresh, Surviving
<1>6. CASE InternSlotDone
  <2>1. AllNumbered'
    BY <1>1, <1>6 DEF InternSlotDone, AllNumbered, Surviving
  <2> QED
    BY <2>1, <1>6 DEF InternSlotDone, SeenFresh, TableFresh, IndicesNamePaths,
                      SlotsFresh, Surviving
<1>7. CASE InternDone
  <2>1. AllNumbered'
    BY <1>1, <1>7 DEF InternDone, AllNumbered, Surviving
  <2> QED
    BY <2>1, <1>7 DEF InternDone, SeenFresh, TableFresh, IndicesNamePaths,
                      SlotsFresh, Surviving
<1> QED
  BY <1>4, <1>5, <1>6, <1>7 DEF Number

\* The heart of the matter: an entry made from a surviving result, with the
\* finished table beside it, is sound.
LEMMA RecordedSound ==
    ASSUME TInv, FInv, OneSource, pc = "record", NEW n \in DOMAIN entries
    PROVE  Sound(Finalized(depVec), entries[n])
<1> DEFINE b == Finalized(depVec)
           e == entries[n]
<1>1. PICK i \in DOMAIN perms :
         /\ Surviving(i)
         /\ e = [key |-> Key(perms[i]), code |-> results[i].code, deps |-> indices[i]]
  BY DEF FInv, EntriesRecorded
<1>2. /\ perms \in Seq(Perms) /\ files \in FileStates /\ opts \in Options
      /\ opts.target = call.target /\ depVec \in Seq(DepInfos)
      /\ results[i] \in Results /\ indices[i] \in Seq(DOMAIN depVec)
      /\ i \in DOMAIN results
  BY <1>1 DEF TInv, TypeOK, Locals, WithOptions, Surviving
<1>3. perms[i] \in Perms /\ results[i] = Slang(opts, perms[i], files) /\ results[i].success
  BY <1>1, <1>2 DEF FInv, SlotsFresh, Surviving
<1>4. DOMAIN indices[i] = DOMAIN results[i].deps
  <2>1. Len(indices[i]) = Len(results[i].deps)
    BY <1>1 DEF FInv, AllNumbered
  <2>2. results[i].deps \in Seq(Paths)
    BY <1>2 DEF Results
  <2> QED
    BY <2>1, <2>2, <1>2
<1>5. \A j \in DOMAIN indices[i] :
         /\ depVec[indices[i][j]].path = results[i].deps[j]
         /\ depVec[indices[i][j]].hash = HashFileContents(files, results[i].deps[j])
         /\ results[i].deps[j] \in Paths
  <2> SUFFICES ASSUME NEW j \in DOMAIN indices[i]
               PROVE  /\ depVec[indices[i][j]].path = results[i].deps[j]
                      /\ depVec[indices[i][j]].hash = HashFileContents(files, results[i].deps[j])
                      /\ results[i].deps[j] \in Paths
    OBVIOUS
  <2>1. indices[i][j] \in DOMAIN depVec
    BY <1>2
  <2>2. depVec[indices[i][j]].path = results[i].deps[j]
    BY <1>1 DEF FInv, IndicesNamePaths
  <2>3. depVec[indices[i][j]] \in DepInfos
    BY <2>1, <1>2
  <2>4. depVec[indices[i][j]].path \in Paths
    BY <2>3 DEF DepInfos
  <2> QED
    BY <2>1, <2>2, <2>4 DEF FInv, TableFresh
<1>6. /\ b.target = call.target /\ b.optionsHash = Fingerprint(opts) /\ b.deps = depVec
      /\ e.key = Key(perms[i]) /\ e.code = results[i].code /\ e.deps = indices[i]
  BY <1>1 DEF Finalized
<1>7. DepPaths(b, e) = results[i].deps
  <2>1. results[i].deps \in Seq(Paths)
    BY <1>2 DEF Results
  <2>2. DepPaths(b, e) = [j \in DOMAIN results[i].deps |-> results[i].deps[j]]
    BY <1>4, <1>5, <1>6 DEF DepPaths
  <2> QED
    BY <2>1, <2>2
<1>8. SUFFICES ASSUME NEW o \in Options, NEW p \in Perms, NEW fs \in FileStates,
                      o.target = b.target, Fingerprint(o) = b.optionsHash,
                      Key(p) = e.key, Unchanged(b, e, fs)
               PROVE  Slang(o, p, fs)
                         = [success |-> TRUE, code |-> e.code, deps |-> DepPaths(b, e)]
  BY DEF Sound
<1>9. p = perms[i]
  BY <1>3, <1>6, <1>8, IdentityAssumption
<1>10. o = opts
  <2>1. o.flags = opts.flags /\ o.refl = opts.refl /\ o.target = opts.target
    BY <1>2, <1>6, <1>8, FingerprintFacts
  <2>2. o.input = opts.input
    BY <1>2 DEF Options, OneSource
  <2> QED
    BY SMTT(60), <2>1, <2>2, <1>2 DEF Options
<1>11. \A j \in DOMAIN results[i].deps : fs[results[i].deps[j]] = files[results[i].deps[j]]
  <2> SUFFICES ASSUME NEW j \in DOMAIN results[i].deps
               PROVE  fs[results[i].deps[j]] = files[results[i].deps[j]]
    OBVIOUS
  <2>1. HashFileContents(fs, results[i].deps[j]) = HashFileContents(files, results[i].deps[j])
    BY <1>4, <1>5, <1>6, <1>8 DEF Unchanged
  <2> QED
    BY <2>1, <1>2, <1>4, <1>5, HashFacts
<1>12. Slang(opts, perms[i], fs) = results[i]
  BY SMTT(60), <1>2, <1>3, <1>11, SlangAssumption
<1>13. results[i] = [success |-> TRUE, code |-> results[i].code, deps |-> results[i].deps]
  BY <1>2, <1>3 DEF Results
<1> QED
  BY <1>6, <1>7, <1>9, <1>10, <1>12, <1>13

LEMMA FreshRecord == ASSUME TInv, FInv, OneSource, Record PROVE FInv'
<1> USE DEF FInv, Early, SeenFresh, PrevSound, TableFresh, IndicesNamePaths,
        OutSound, SlotsFresh, DiskSound
<1>1. CASE RecordEntry
  <2>1. entries \in Seq(Entries)
    BY DEF TInv, TypeOK
  <2>2. EntriesRecorded'
    <3> DEFINE new == [key |-> Key(perms[cursor]), code |-> results[cursor].code,
                       deps |-> indices[cursor]]
    <3>1. entries' = Append(entries, new) /\ cursor \in DOMAIN perms /\ Surviving(cursor)
      BY <1>1 DEF RecordEntry
    <3>2. \A n \in DOMAIN entries' : \/ n \in DOMAIN entries /\ entries'[n] = entries[n]
                                    \/ entries'[n] = new
      BY <3>1, <2>1
    <3> QED
      BY SMTT(60), <3>1, <3>2, <1>1 DEF RecordEntry, EntriesRecorded, Surviving
  <2> QED
    BY <2>2, <1>1 DEF RecordEntry, AllNumbered, Surviving
<1>2. CASE RecordFailure
  BY <1>2 DEF RecordFailure, AllNumbered, EntriesRecorded, Surviving
<1>3. CASE StopAtFailure
  BY <1>3 DEF StopAtFailure, working, AllNumbered, EntriesRecorded, Surviving
<1>4. CASE Finish
  <2>1. out'.blob = Finalized(depVec) /\ Finalized(depVec).entries = entries /\ pc = "record"
    BY <1>4 DEF Finish, Finalized, TInv, TypeOK, Outputs
  <2>2. \A n \in DOMAIN out'.blob.entries : Sound(out'.blob, out'.blob.entries[n])
    BY <2>1, RecordedSound
  <2> QED
    BY <2>2, <1>4 DEF Finish, working, AllNumbered, EntriesRecorded, Surviving
<1> QED
  BY <1>1, <1>2, <1>3, <1>4 DEF Record

\* A blob that was cut short is not readable here.
LEMMA TornIsLost ==
    ASSUME ~TornWrites, NEW b, NEW v \in TornViews(b)
    PROVE  v = None
BY DEF TornViews

LEMMA FreshWrite == ASSUME TInv, FInv, ~TornWrites, Write PROVE FInv'
<1> USE DEF FInv, Early, SeenFresh, PrevSound, TableFresh, IndicesNamePaths,
        AllNumbered, EntriesRecorded, OutSound, SlotsFresh, DiskSound, Surviving
<1>1. CASE OpenTruncates
  BY <1>1 DEF OpenTruncates, working
<1>2. CASE WriteAll
  BY <1>2 DEF WriteAll, working
<1>3. CASE WriteShort
  <2>1. disk' = None
    BY <1>3, TornIsLost DEF WriteShort
  <2> QED
    BY <2>1, <1>3 DEF WriteShort, working
<1> QED
  BY <1>1, <1>2, <1>3 DEF Write

LEMMA FreshEnd == ASSUME TInv, FInv, ~TornWrites, Collect \/ Throw \/ Kill PROVE FInv'
<1>1. Forget
  BY DEF Collect, Throw, Kill
<1>2. disk' = disk \/ disk' = None
  BY TornIsLost DEF Collect, Throw, Kill
<1> QED
  BY <1>1, <1>2 DEF Forget, FInv, Early, SeenFresh, PrevSound, TableFresh,
     IndicesNamePaths, AllNumbered, EntriesRecorded, OutSound, SlotsFresh,
     DiskSound, Surviving

LEMMA FreshEdit ==
    ASSUME TInv, FInv, ~RacingEdits, NEW path \in Paths, Edit(path)
    PROVE  FInv'
<1>1. pc = "idle" /\ perms = <<>>
  BY DEF Edit, TInv, Locals
<1>2. results \in [DOMAIN perms -> Results \cup {None}]
  BY DEF TInv, TypeOK
<1> QED
  BY <1>1, <1>2 DEF Edit, working, FInv, Early, SeenFresh, PrevSound, TableFresh,
     IndicesNamePaths, AllNumbered, EntriesRecorded, OutSound, SlotsFresh,
     DiskSound, Surviving

LEMMA FreshStep ==
    ASSUME TInv, FInv, OneSource, ~RacingEdits, ~TornWrites, [Next]_vars
    PROVE  FInv'
<1>1. CASE UNCHANGED vars
  BY <1>1 DEF vars, working, FInv, Early, SeenFresh, PrevSound, TableFresh,
     IndicesNamePaths, AllNumbered, EntriesRecorded, OutSound, SlotsFresh,
     DiskSound, Surviving
<1>2. CASE Next
  BY <1>2, FreshCall, FreshPrepare, FreshDecide, FreshCompile, FreshNumber,
     FreshRecord, FreshWrite, FreshEnd, FreshEdit DEF Next
<1> QED
  BY <1>1, <1>2

\* FInv holds throughout, in the environment named above.
LEMMA FreshAlways ==
    ASSUME OneSource, ~RacingEdits, ~TornWrites
    PROVE  Spec => []FInv
<1>1. Init => TInv /\ FInv
  BY TypeInit, FreshInit
<1>2. TInv /\ FInv /\ [Next]_vars => TInv' /\ FInv'
  BY TypeStep, FreshStep
<1> QED
  BY <1>1, <1>2, PTL DEF Spec

\* Whatever mix of reuse and compilation a call uses, each permutation's
\* result is what compiling it now would give: for every set of files,
\* options, permutations and every compiler, when no file changes during a
\* call, a truncated blob is not readable and the output file has one source.
THEOREM ReuseIsFresh ==
    ASSUME OneSource, ~RacingEdits, ~TornWrites
    PROVE  Spec => []SlotsFresh
<1>1. FInv => SlotsFresh
  BY DEF FInv
<1> QED
  BY <1>1, FreshAlways, PTL

\* In the same environment, across calls, edits, exceptions and crashes, the
\* output file never holds an entry that would be wrong to reuse.
THEOREM CacheStaysSound ==
    ASSUME OneSource, ~RacingEdits, ~TornWrites
    PROVE  Spec => []DiskSound
<1>1. FInv => DiskSound
  BY DEF FInv
<1> QED
  BY <1>1, FreshAlways, PTL

-----------------------------------------------------------------------------
(* The dependency table that is written, and what is compiled again.       *)

\* The table of b is the union of what its entries depend on.
Exact(b) ==
    /\ \A c, d \in DOMAIN b.deps : b.deps[c].path = b.deps[d].path => c = d
    /\ \A n \in DOMAIN b.entries : \A j \in DOMAIN b.entries[n].deps :
          b.entries[n].deps[j] \in DOMAIN b.deps
    /\ \A d \in DOMAIN b.deps : \E n \in DOMAIN b.entries :
          \E j \in DOMAIN b.entries[n].deps : b.entries[n].deps[j] = d

\* The table under construction has no path twice.
PathsOnce == \A c, d \in DOMAIN depVec : depVec[c].path = depVec[d].path => c = d

\* Each row was made for a result that will be an entry.
RowsUsed ==
    \A d \in DOMAIN depVec : \E i \in DOMAIN perms :
        Surviving(i) /\ \E j \in DOMAIN indices[i] : indices[i][j] = d

\* The surviving results that were passed are entries.
AllRecorded ==
    pc = "record" =>
        \A i \in DOMAIN perms : i < cursor /\ Surviving(i) =>
            \E n \in DOMAIN entries : entries[n].deps = indices[i]

OutExact == pc \in {"open", "write"} => Exact(out.blob)

TableInv ==
    /\ Early /\ EntriesRecorded /\ PathsOnce /\ RowsUsed /\ AllRecorded /\ OutExact
    /\ DepTableExact

-----------------------------------------------------------------------------

LEMMA TableInit == ASSUME Init PROVE TableInv
BY DEF Init, TableInv, Early, EntriesRecorded, PathsOnce, RowsUsed, AllRecorded,
   OutExact, DepTableExact

LEMMA TableCall == ASSUME TInv, TableInv, NEW c \in Calls, Call(c) PROVE TableInv'
BY DEF TableInv, Early, EntriesRecorded, PathsOnce, RowsUsed, AllRecorded, OutExact,
   DepTableExact, Surviving, Call, working

LEMMA TablePrepare == ASSUME TInv, TableInv, Prepare PROVE TableInv'
<1> USE DEF TableInv, Early, EntriesRecorded, PathsOnce, RowsUsed, AllRecorded,
        OutExact, DepTableExact
<1>1. CASE RejectDuplicateAxes
  BY SMTT(60), <1>1 DEF RejectDuplicateAxes, working, Surviving
<1>2. CASE ParseSource
  <2>1. /\ pc = "parse" /\ pc' = "options"
        /\ \A i \in DOMAIN perms' : results'[i] = None /\ indices'[i] = <<>>
        /\ UNCHANGED <<disk, prev, seen, depVec, entries>>
    BY ZenonT(60), <1>2 DEF ParseSource
  <2> QED
    BY <2>1
<1>3. CASE FixOptions
  BY <1>3 DEF FixOptions, Surviving
<1>4. CASE LoadPrevious
  BY <1>4 DEF LoadPrevious, Surviving, Usable
<1> QED
  BY <1>1, <1>2, <1>3, <1>4 DEF Prepare

\* While results are still set the table is empty.
LEMMA TableEmpty ==
    ASSUME TableInv, Early', pc \in {"reuse", "compile"}, pc' \in {"reuse", "compile", "deps"},
           UNCHANGED <<disk, depVec, entries>>
    PROVE  TableInv'
BY DEF TableInv, Early, EntriesRecorded, PathsOnce, RowsUsed, AllRecorded, OutExact,
   DepTableExact

LEMMA TableDecide == ASSUME TInv, TableInv, Decide PROVE TableInv'
<1>1. /\ pc = "reuse" /\ pc' \in {"reuse", "compile"}
      /\ UNCHANGED <<disk, depVec, entries, indices, perms>>
      /\ pc' = "compile" => cursor' = 1
  BY DEF Decide, Reuse, QueueStale, QueueNew, ReuseDone
<1>2. Early'
  BY <1>1 DEF TableInv, Early
<1> QED
  BY <1>1, <1>2, TableEmpty

LEMMA TableCompile == ASSUME TInv, TableInv, Compile PROVE TableInv'
<1>1. /\ pc = "compile" /\ pc' \in {"compile", "deps"}
      /\ UNCHANGED <<disk, depVec, entries, indices, perms, cursor>>
  BY DEF Compile, CompileOne, CompileDone, working
<1>2. Early'
  BY <1>1 DEF TableInv, Early
<1> QED
  BY <1>1, <1>2, TableEmpty

LEMMA TableNumber == ASSUME TInv, TableInv, Number PROVE TableInv'
<1>1. /\ DOMAIN perms = 1 .. Len(perms) /\ cursor \in 1 .. Len(perms) + 1
      /\ Len(perms) \in Nat
      /\ indices \in [DOMAIN perms -> Seq(DOMAIN depVec)]
      /\ depVec \in Seq(DepInfos)
  BY DEF TInv, TypeOK
<1>2. /\ pc = "deps" /\ pc' \in {"deps", "record"}
      /\ pc' = "record" => cursor' = 1
      /\ UNCHANGED <<disk, entries, perms, results>>
  BY DEF Number, InternKnown, InternNew, InternSlotDone, InternDone, Numbering
<1>3. \A i : Surviving(i)' <=> Surviving(i)
  BY <1>2 DEF Surviving
<1>4. Early' /\ AllRecorded' /\ EntriesRecorded' /\ OutExact' /\ DepTableExact'
  <2>1. Early' /\ OutExact' /\ DepTableExact'
    BY <1>2 DEF TableInv, Early, OutExact, DepTableExact
  <2>2. EntriesRecorded'
    BY <1>2 DEF TableInv, Early, EntriesRecorded
  <2>3. AllRecorded'
    BY <1>1, <1>2 DEF AllRecorded
  <2> QED
    BY <2>1, <2>2, <2>3
<1>5. CASE InternKnown
  <2>1. PICK d \in DOMAIN depVec : indices' = [indices EXCEPT ![cursor] = Append(@, d)]
    BY <1>5 DEF InternKnown
  <2>2. UNCHANGED depVec /\ cursor \in DOMAIN perms
    BY <1>5 DEF InternKnown, Numbering
  <2>3. PathsOnce'
    BY <2>2 DEF TableInv, PathsOnce
  <2>4. \A i \in DOMAIN perms : \A j \in DOMAIN indices[i] :
           j \in DOMAIN indices'[i] /\ indices'[i][j] = indices[i][j]
    <3> SUFFICES ASSUME NEW i \in DOMAIN perms, NEW j \in DOMAIN indices[i]
                 PROVE  j \in DOMAIN indices'[i] /\ indices'[i][j] = indices[i][j]
      OBVIOUS
    <3>1. indices[i] \in Seq(DOMAIN depVec)
      BY <1>1
    <3>2. CASE i = cursor
      <4>1. indices'[i] = Append(indices[i], d)
        BY <1>1, <2>1, <2>2, <3>2
      <4> QED
        BY <3>1, <4>1
    <3>3. CASE i # cursor
      BY <1>1, <2>1, <3>3
    <3> QED
      BY <3>2, <3>3
  <2>5. RowsUsed'
    BY <1>2, <1>3, <2>2, <2>4 DEF TableInv, RowsUsed
  <2> QED
    BY <1>4, <2>3, <2>5 DEF TableInv
<1>6. CASE InternNew
  <2> DEFINE row == [path |-> NextDep, hash |-> HashFileContents(files, NextDep)]
             new == Len(depVec) + 1
  <2>1. /\ \A d \in DOMAIN depVec : depVec[d].path # NextDep
        /\ depVec' = Append(depVec, row)
        /\ indices' = [indices EXCEPT ![cursor] = Append(@, new)]
        /\ cursor \in DOMAIN perms /\ Surviving(cursor)
    BY <1>6 DEF InternNew, Numbering
  <2>2. /\ DOMAIN depVec = 1 .. Len(depVec) /\ Len(depVec) \in Nat
        /\ DOMAIN depVec' = DOMAIN depVec \cup {new} /\ depVec'[new] = row
        /\ \A d \in DOMAIN depVec : depVec'[d] = depVec[d]
    BY <1>1, <2>1
  <2>3. row.path = NextDep
    OBVIOUS
  <2> HIDE DEF row, new
  <2>4. PathsOnce'
    <3> SUFFICES ASSUME NEW c \in DOMAIN depVec', NEW d \in DOMAIN depVec',
                        depVec'[c].path = depVec'[d].path
                 PROVE  c = d
      BY DEF PathsOnce
    <3> QED
      BY <2>1, <2>2, <2>3 DEF TableInv, PathsOnce
  <2>5. \A i \in DOMAIN perms : \A j \in DOMAIN indices[i] :
           j \in DOMAIN indices'[i] /\ indices'[i][j] = indices[i][j]
    <3> SUFFICES ASSUME NEW i \in DOMAIN perms, NEW j \in DOMAIN indices[i]
                 PROVE  j \in DOMAIN indices'[i] /\ indices'[i][j] = indices[i][j]
      OBVIOUS
    <3>1. indices[i] \in Seq(DOMAIN depVec)
      BY <1>1
    <3>2. CASE i = cursor
      <4>1. indices'[i] = Append(indices[i], new)
        BY <1>1, <2>1, <3>2
      <4> QED
        BY <3>1, <4>1
    <3>3. CASE i # cursor
      BY <1>1, <2>1, <3>3
    <3> QED
      BY <3>2, <3>3
  <2>6. \E j \in DOMAIN indices'[cursor] : indices'[cursor][j] = new
    <3>1. indices[cursor] \in Seq(DOMAIN depVec)
      BY <1>1, <2>1
    <3>2. indices'[cursor] = Append(indices[cursor], new)
      BY <1>1, <2>1
    <3>3. /\ Len(indices[cursor]) + 1 \in DOMAIN indices'[cursor]
          /\ indices'[cursor][Len(indices[cursor]) + 1] = new
      BY <3>1, <3>2
    <3> QED
      BY <3>3
  <2>7. RowsUsed'
    <3> SUFFICES ASSUME NEW d \in DOMAIN depVec'
                 PROVE  \E i \in DOMAIN perms' :
                           Surviving(i)' /\ \E j \in DOMAIN indices'[i] : indices'[i][j] = d
      BY DEF RowsUsed
    <3>1. CASE d = new
      BY <1>2, <1>3, <2>1, <2>6, <3>1
    <3>2. CASE d \in DOMAIN depVec
      BY <1>2, <1>3, <2>5, <3>2 DEF TableInv, RowsUsed
    <3> QED
      BY <2>2, <3>1, <3>2
  <2> QED
    BY <1>4, <2>4, <2>7 DEF TableInv
<1>7. CASE InternSlotDone \/ InternDone
  <2>1. UNCHANGED <<depVec, indices>>
    BY <1>7 DEF InternSlotDone, InternDone
  <2>2. PathsOnce' /\ RowsUsed'
    BY <1>2, <1>3, <2>1 DEF TableInv, PathsOnce, RowsUsed
  <2> QED
    BY <1>4, <2>2 DEF TableInv
<1> QED
  BY <1>5, <1>6, <1>7 DEF Number

\* When every surviving result is an entry, the blob has exactly its table.
LEMMA FinalizedExact ==
    ASSUME TInv, TableInv, pc = "record", cursor \notin DOMAIN perms
    PROVE  Exact(Finalized(depVec))
<1>1. /\ DOMAIN perms = 1 .. Len(perms) /\ cursor \in 1 .. Len(perms) + 1
      /\ Len(perms) \in Nat
      /\ indices \in [DOMAIN perms -> Seq(DOMAIN depVec)]
  BY DEF TInv, TypeOK
<1>2. \A i \in DOMAIN perms : i < cursor
  BY <1>1
<1>3. Finalized(depVec).deps = depVec /\ Finalized(depVec).entries = entries
  BY DEF Finalized
<1>4. ASSUME NEW n \in DOMAIN entries, NEW j \in DOMAIN entries[n].deps
      PROVE  entries[n].deps[j] \in DOMAIN depVec
  <2>1. PICK i \in DOMAIN perms : entries[n].deps = indices[i]
    BY DEF TableInv, EntriesRecorded
  <2>2. indices[i] \in Seq(DOMAIN depVec)
    BY <1>1
  <2> QED
    BY <2>1, <2>2
<1>5. ASSUME NEW d \in DOMAIN depVec
      PROVE  \E n \in DOMAIN entries : \E j \in DOMAIN entries[n].deps : entries[n].deps[j] = d
  <2>1. PICK i \in DOMAIN perms :
           Surviving(i) /\ \E j \in DOMAIN indices[i] : indices[i][j] = d
    BY DEF TableInv, RowsUsed
  <2>2. PICK n \in DOMAIN entries : entries[n].deps = indices[i]
    BY <1>2, <2>1 DEF TableInv, AllRecorded
  <2> QED
    BY <2>1, <2>2
<1> QED
  BY <1>3, <1>4, <1>5 DEF Exact, TableInv, PathsOnce

LEMMA TableRecord == ASSUME TInv, TableInv, Record PROVE TableInv'
<1>1. /\ DOMAIN perms = 1 .. Len(perms) /\ cursor \in 1 .. Len(perms) + 1
      /\ Len(perms) \in Nat /\ entries \in Seq(Entries)
  BY DEF TInv, TypeOK
<1>2. /\ pc = "record" /\ pc' \in {"record", "open", "returned"}
      /\ UNCHANGED <<disk, perms, results, indices, depVec>>
  BY DEF Record, RecordEntry, RecordFailure, StopAtFailure, Finish, working
<1>3. \A i : Surviving(i)' <=> Surviving(i)
  BY <1>2 DEF Surviving
<1>4. Early' /\ PathsOnce' /\ RowsUsed' /\ DepTableExact'
  BY <1>2, <1>3 DEF TableInv, Early, PathsOnce, RowsUsed, DepTableExact
<1>5. CASE RecordEntry
  <2> DEFINE new == [key |-> Key(perms[cursor]), code |-> results[cursor].code,
                     deps |-> indices[cursor]]
  <2>1. /\ entries' = Append(entries, new) /\ cursor \in DOMAIN perms /\ Surviving(cursor)
        /\ cursor' = cursor + 1 /\ pc' = pc
    BY <1>5 DEF RecordEntry
  <2>2. /\ DOMAIN entries' = DOMAIN entries \cup {Len(entries) + 1}
        /\ entries'[Len(entries) + 1] = new
        /\ \A n \in DOMAIN entries : entries'[n] = entries[n]
    BY <1>1, <2>1
  <2>3. EntriesRecorded'
    BY SMTT(60), <1>2, <1>3, <2>1, <2>2 DEF TableInv, EntriesRecorded
  <2>4. AllRecorded'
    <3> SUFFICES ASSUME NEW i \in DOMAIN perms, i < cursor + 1, Surviving(i)
                 PROVE  \E n \in DOMAIN entries' : entries'[n].deps = indices[i]
      BY <1>2, <1>3, <2>1 DEF AllRecorded
    <3>1. CASE i = cursor
      <4>1. entries'[Len(entries) + 1].deps = indices[i]
        BY <2>2, <3>1
      <4> QED
        BY <2>2, <4>1
    <3>2. CASE i < cursor
      BY <1>2, <2>2, <3>2 DEF TableInv, AllRecorded
    <3> QED
      BY <1>1, <3>1, <3>2
  <2>5. OutExact'
    BY <1>2, <2>1 DEF OutExact
  <2> QED
    BY <1>4, <2>3, <2>4, <2>5 DEF TableInv
<1>6. CASE RecordFailure
  <2>1. /\ UNCHANGED <<pc, entries>> /\ cursor' = cursor + 1 /\ ~Surviving(cursor)
    BY <1>6 DEF RecordFailure
  <2>2. EntriesRecorded' /\ OutExact'
    BY <1>2, <1>3, <2>1 DEF TableInv, EntriesRecorded, OutExact
  <2>3. \A i \in DOMAIN perms : i < cursor + 1 /\ Surviving(i) => i < cursor
    BY <1>1, <2>1
  <2>4. AllRecorded'
    BY <1>2, <1>3, <2>1, <2>3 DEF TableInv, AllRecorded
  <2> QED
    BY <1>4, <2>2, <2>4 DEF TableInv
<1>7. CASE StopAtFailure \/ Finish
  <2>1. UNCHANGED entries /\ pc' \in {"open", "returned"}
    BY <1>7 DEF StopAtFailure, Finish, working
  <2>2. EntriesRecorded' /\ AllRecorded'
    BY <1>2, <1>3, <2>1 DEF TableInv, EntriesRecorded, AllRecorded
  <2>3. OutExact'
    <3>1. CASE StopAtFailure
      BY <3>1 DEF StopAtFailure, OutExact
    <3>2. CASE Finish
      <4>1. out'.blob = Finalized(depVec) /\ cursor \notin DOMAIN perms
        BY <3>2 DEF Finish, TInv, TypeOK, Outputs
      <4> QED
        BY <1>2, <4>1, FinalizedExact DEF OutExact, Exact
    <3> QED
      BY <1>7, <3>1, <3>2
  <2> QED
    BY <1>4, <2>2, <2>3 DEF TableInv
<1> QED
  BY <1>5, <1>6, <1>7 DEF Record

LEMMA TableWrite == ASSUME TInv, TableInv, ~TornWrites, Write PROVE TableInv'
<1>1. UNCHANGED working /\ UNCHANGED out
  BY DEF Write, OpenTruncates, WriteAll, WriteShort
<1>2. /\ pc \in {"open", "write"} /\ pc' \in {"write", "returned"}
      /\ disk' = None \/ disk' = out.blob
  BY TornIsLost DEF Write, OpenTruncates, WriteAll, WriteShort
<1>3. DepTableExact'
  BY <1>2 DEF TableInv, OutExact, Exact, DepTableExact
<1>4. Early' /\ EntriesRecorded' /\ PathsOnce' /\ RowsUsed' /\ AllRecorded' /\ OutExact'
  BY <1>1, <1>2 DEF working, TableInv, Early, EntriesRecorded, PathsOnce, RowsUsed,
     AllRecorded, OutExact, Surviving, Exact
<1> QED
  BY <1>3, <1>4 DEF TableInv

LEMMA TableEnd ==
    ASSUME TInv, TableInv, ~TornWrites, Collect \/ Throw \/ Kill
    PROVE  TableInv'
<1>1. Forget
  BY DEF Collect, Throw, Kill
<1>2. disk' = disk \/ disk' = None
  BY TornIsLost DEF Collect, Throw, Kill
<1>3. DepTableExact'
  BY SMTT(60), <1>2 DEF TableInv, DepTableExact
<1> QED
  BY <1>1, <1>3 DEF Forget, TableInv, Early, EntriesRecorded, PathsOnce, RowsUsed,
     AllRecorded, OutExact

LEMMA TableSame == ASSUME TableInv, UNCHANGED <<disk, pc, call, working, out>> PROVE TableInv'
BY DEF working, TableInv, Early, EntriesRecorded, PathsOnce, RowsUsed, AllRecorded,
   OutExact, Exact, DepTableExact, Surviving

LEMMA TableStep == ASSUME TInv, TableInv, ~TornWrites, [Next]_vars PROVE TableInv'
<1>1. CASE UNCHANGED vars
  BY <1>1, TableSame DEF vars
<1>2. ASSUME NEW path \in Paths, Edit(path)
      PROVE  TableInv'
  BY <1>2, TableSame DEF Edit
<1>3. CASE Next
  BY <1>2, <1>3, TableCall, TablePrepare, TableDecide, TableCompile, TableNumber,
     TableRecord, TableWrite, TableEnd DEF Next
<1> QED
  BY <1>1, <1>3

\* The dependency table in the output file is exactly what its entries use,
\* edits during a call included, unless a blob that was cut short can be read:
\* no path is stored twice and none that no entry depends on.
THEOREM TableIsExact ==
    ASSUME ~TornWrites
    PROVE  Spec => []DepTableExact
<1>1. Init => TInv /\ TableInv
  BY TypeInit, TableInit
<1>2. TInv /\ TableInv /\ [Next]_vars => TInv' /\ TableInv'
  BY TypeStep, TableStep
<1>3. TableInv => DepTableExact
  BY DEF TableInv
<1> QED
  BY <1>1, <1>2, <1>3, PTL DEF Spec

-----------------------------------------------------------------------------
(* What is compiled again.                                                 *)

\* The queue is filled in the reuse pass only.
QueueEmpty == pc \in {"idle", "parse", "options", "load"} => toCompile = {}

\* A usable output file is the blob that entries are reused from.
PrevIsDisk == pc \in {"reuse", "compile"} /\ Usable => prev = disk

NeedInv == SeenFresh /\ QueueEmpty /\ PrevIsDisk /\ NoNeedlessCompile

LEMMA NeedInit == ASSUME Init PROVE NeedInv
BY DEF Init, NeedInv, SeenFresh, QueueEmpty, PrevIsDisk, NoNeedlessCompile

LEMMA NeedPrepare ==
    ASSUME TInv, NeedInv, Prepare \/ (\E c \in Calls : Call(c))
    PROVE  NeedInv'
<1> USE DEF NeedInv, SeenFresh, QueueEmpty, PrevIsDisk, NoNeedlessCompile
<1>1. CASE \E c \in Calls : Call(c)
  BY <1>1 DEF Call, working
<1>2. CASE RejectDuplicateAxes
  BY <1>2 DEF RejectDuplicateAxes, working
<1>3. CASE ParseSource
  BY <1>3 DEF ParseSource
<1>4. CASE FixOptions
  BY <1>4 DEF FixOptions
<1>5. CASE LoadPrevious
  <2>1. /\ pc = "load" /\ pc' = "reuse" /\ toCompile' = {}
        /\ UNCHANGED <<files, disk, call, opts>>
    BY <1>5 DEF LoadPrevious
  <2>2. Usable' <=> Usable
    BY <2>1 DEF Usable
  <2>3. PrevIsDisk'
    BY <2>2, <1>5 DEF LoadPrevious
  <2>4. SeenFresh'
    BY SMTT(60), <1>5 DEF LoadPrevious
  <2> QED
    BY <2>1, <2>3, <2>4
<1> QED
  BY <1>1, <1>2, <1>3, <1>4, <1>5 DEF Prepare

\* A dependency that does not compare equal is one whose file has changed.
LEMMA MismatchIsChange ==
    ASSUME TInv, TableInv, SeenFresh, prev = disk, disk # None,
           NEW n \in DOMAIN disk.entries, ~DepsOk(disk.entries[n])
    PROVE  ~Unchanged(disk, disk.entries[n], files)
<1>1. PICK j \in DOMAIN disk.entries[n].deps : ~DepMatches(disk.entries[n].deps[j])
  BY DEF DepsOk
<1>2. disk.entries[n].deps[j] \in DOMAIN disk.deps
  BY <1>1 DEF TableInv, DepTableExact
<1>3. disk.entries[n].deps[j] \in DOMAIN seen
  BY <1>2 DEF TInv, Locals
<1>4. CurrentHash(disk.entries[n].deps[j])
        = HashFileContents(files, disk.deps[disk.entries[n].deps[j]].path)
  BY <1>3, CurrentHashFresh
<1> QED
  BY <1>1, <1>2, <1>4 DEF DepMatches, Unchanged

LEMMA NeedDecide == ASSUME TInv, TableInv, NeedInv, Decide PROVE NeedInv'
<1>1. /\ pc = "reuse" /\ pc' \in {"reuse", "compile"}
      /\ UNCHANGED <<files, disk, call, opts, prev, perms>>
  BY DEF Decide, Reuse, QueueStale, QueueNew, ReuseDone
<1>2. Usable' <=> Usable
  BY <1>1 DEF Usable
<1>3. QueueEmpty' /\ PrevIsDisk'
  BY <1>1, <1>2 DEF NeedInv, QueueEmpty, PrevIsDisk
<1>4. SeenFresh'
  <2>1. CASE QueueNew \/ ReuseDone
    BY <1>1, <2>1 DEF QueueNew, ReuseDone, NeedInv, SeenFresh
  <2>2. CASE Reuse \/ QueueStale
    <3>1. PICK n \in DOMAIN prev.entries : seen' = SeenAfter(prev.entries[n])
      BY <2>2 DEF Reuse, QueueStale
    <3> QED
      BY <1>1, <3>1, CurrentHashFresh DEF SeenAfter, NeedInv, SeenFresh
  <2> QED
    BY <2>1, <2>2 DEF Decide
<1>5. NoNeedlessCompile'
  <2> SUFFICES ASSUME Usable, NEW i \in toCompile', NEW n \in DOMAIN disk.entries,
                      IsCandidate(disk, n, perms[i])
               PROVE  ~Unchanged(disk, disk.entries[n], files)
    <3>1. disk' = disk /\ perms' = perms /\ files' = files /\ (Usable' => Usable)
      BY <1>1, <1>2
    <3> SUFFICES ASSUME Usable', NEW i \in toCompile', NEW n \in DOMAIN disk'.entries,
                        IsCandidate(disk', n, perms'[i])
                 PROVE  ~Unchanged(disk', disk'.entries[n], files')
      BY DEF NoNeedlessCompile
    <3>2. Usable /\ n \in DOMAIN disk.entries /\ IsCandidate(disk, n, perms[i])
      BY <3>1
    <3> QED
      BY <3>1, <3>2
  <2>1. prev = disk /\ disk # None
    BY <1>1 DEF NeedInv, PrevIsDisk, Usable
  <2>2. CASE i \in toCompile
    BY <1>1, <2>2 DEF NeedInv, NoNeedlessCompile
  <2>3. CASE i \notin toCompile
    <3>1. i = cursor /\ (QueueStale \/ QueueNew)
      BY <2>3 DEF Decide, Reuse, QueueStale, QueueNew, ReuseDone
    <3>2. ~QueueNew
      BY <2>1, <3>1 DEF QueueNew, IsCandidate
    <3>3. PICK m \in DOMAIN disk.entries :
             IsCandidate(disk, m, perms[i]) /\ ~DepsOk(disk.entries[m])
      BY <2>1, <3>1, <3>2 DEF QueueStale
    <3>4. n \in Nat \ {0} /\ m \in Nat \ {0}
      <4>1. disk.entries \in Seq(Entries)
        BY <2>1 DEF TInv, TypeOK, Blobs
      <4>2. DOMAIN disk.entries = 1 .. Len(disk.entries)
        BY <4>1
      <4>3. n \in 1 .. Len(disk.entries) /\ m \in 1 .. Len(disk.entries)
        BY <4>2, <3>3
      <4> QED
        BY <4>3
    <3>5. n = m
      <4>1. n < m => n \in 1 .. m - 1
        BY <3>4
      <4>2. m < n => m \in 1 .. n - 1
        BY SMTT(60), <3>4
      <4> QED
        BY <3>3, <3>4, <4>1, <4>2 DEF IsCandidate
    <3> QED
      BY <2>1, <3>3, <3>5, MismatchIsChange DEF NeedInv
  <2> QED
    BY SMTT(60), <2>2, <2>3
<1> QED
  BY <1>3, <1>4, <1>5 DEF NeedInv

LEMMA NeedKept ==
    ASSUME NoNeedlessCompile, UNCHANGED <<files, disk, call, opts, perms>>,
           toCompile' \subseteq toCompile,
           pc' \in {"reuse", "compile"} => pc \in {"reuse", "compile"}
    PROVE  NoNeedlessCompile'
<1>1. Usable' <=> Usable
  BY DEF Usable
<1>2. files' = files /\ disk' = disk /\ perms' = perms
  OBVIOUS
<1> SUFFICES ASSUME pc' \in {"reuse", "compile"}, Usable', NEW i \in toCompile',
                    NEW n \in DOMAIN disk'.entries, IsCandidate(disk', n, perms'[i])
             PROVE  ~Unchanged(disk', disk'.entries[n], files')
  BY DEF NoNeedlessCompile
<1>3. pc \in {"reuse", "compile"} /\ Usable /\ i \in toCompile /\ n \in DOMAIN disk.entries
  BY <1>1, <1>2
<1>4. IsCandidate(disk, n, perms[i])
  BY <1>2
<1>5. ~Unchanged(disk, disk.entries[n], files)
  BY <1>3, <1>4 DEF NoNeedlessCompile
<1> QED
  BY <1>2, <1>5

LEMMA NeedCompile == ASSUME TInv, NeedInv, Compile PROVE NeedInv'
<1>1. /\ pc = "compile" /\ pc' \in {"compile", "deps"} /\ toCompile' \subseteq toCompile
      /\ UNCHANGED <<files, disk, call, opts, prev, perms, seen>>
  BY DEF Compile, CompileOne, CompileDone, working
<1>2. Usable' <=> Usable
  BY <1>1 DEF Usable
<1>3. NoNeedlessCompile'
  BY <1>1, NeedKept DEF NeedInv
<1> QED
  BY <1>1, <1>2, <1>3 DEF NeedInv, SeenFresh, QueueEmpty, PrevIsDisk

\* Behind the compile phase nothing is queued.
LEMMA NeedLater ==
    ASSUME NeedInv, pc' \in {"deps", "record", "open", "write", "returned"},
           UNCHANGED <<files, prev, seen>>
    PROVE  NeedInv'
BY DEF NeedInv, SeenFresh, QueueEmpty, PrevIsDisk, NoNeedlessCompile

LEMMA NeedStep ==
    ASSUME TInv, TableInv, NeedInv, ~RacingEdits, [Next]_vars
    PROVE  NeedInv'
<1>1. CASE UNCHANGED vars
  <2>1. Usable' <=> Usable
    BY <1>1 DEF vars, working, Usable
  <2>2. UNCHANGED <<files, disk, pc, call, opts, perms, prev, seen, toCompile>>
    BY <1>1 DEF vars, working
  <2>3. SeenFresh'
    BY <2>2 DEF NeedInv, SeenFresh, HashFileContents
  <2>4. QueueEmpty' /\ PrevIsDisk'
    BY <2>1, <2>2 DEF NeedInv, QueueEmpty, PrevIsDisk
  <2>5. NoNeedlessCompile'
    BY <2>2, NeedKept DEF NeedInv
  <2> QED
    BY <2>3, <2>4, <2>5 DEF NeedInv
<1>2. CASE Number \/ Record \/ Write
  <2>1. /\ pc' \in {"deps", "record", "open", "write", "returned"}
        /\ UNCHANGED <<files, prev, seen>>
    BY <1>2 DEF Number, InternKnown, InternNew, InternSlotDone, InternDone, Numbering,
       Record, RecordEntry, RecordFailure, StopAtFailure, Finish,
       Write, OpenTruncates, WriteAll, WriteShort, working
  <2> QED
    BY <2>1, NeedLater
<1>3. CASE Collect \/ Throw \/ Kill
  <2>1. Forget
    BY <1>3 DEF Collect, Throw, Kill
  <2> QED
    BY <2>1 DEF Forget, NeedInv, SeenFresh, QueueEmpty, PrevIsDisk, NoNeedlessCompile
<1>4. ASSUME NEW path \in Paths, Edit(path)
      PROVE  NeedInv'
  <2>1. pc = "idle" /\ UNCHANGED <<pc, toCompile, prev, seen>>
    BY <1>4 DEF Edit, working
  <2>2. seen = <<>>
    BY <2>1 DEF TableInv, Early
  <2> QED
    BY <2>1, <2>2 DEF NeedInv, SeenFresh, QueueEmpty, PrevIsDisk, NoNeedlessCompile
<1>5. CASE Next
  BY <1>2, <1>3, <1>4, <1>5, NeedPrepare, NeedDecide, NeedCompile DEF Next
<1> QED
  BY <1>1, <1>5

\* What is compiled again needs it: the output file has no entry for it that
\* could be reused, or a file that this entry depends on has changed.
THEOREM OnlyNeededCompiles ==
    ASSUME ~RacingEdits, ~TornWrites
    PROVE  Spec => []NoNeedlessCompile
<1>1. Init => TInv /\ TableInv /\ NeedInv
  BY TypeInit, TableInit, NeedInit
<1>2. TInv /\ TableInv /\ NeedInv /\ [Next]_vars => TInv' /\ TableInv' /\ NeedInv'
  BY TypeStep, TableStep, NeedStep
<1>3. NeedInv => NoNeedlessCompile
  BY DEF NeedInv
<1> QED
  BY <1>1, <1>2, <1>3, PTL DEF Spec

-----------------------------------------------------------------------------
(* A caller sees builds from scratch (CleanBuild).  The argument: every    *)
(* result is what compiling now gives (SlotsFresh), each permutation has   *)
(* one, and the record loop lists them in order without a gap.             *)

\* The permutations before the n-th, by what became of them.
GoodBefore(n) == {i \in DOMAIN perms : i < n /\ Surviving(i)}
BadBefore(n)  == {i \in DOMAIN perms : i < n /\ ~Surviving(i)}

\* What a reader of the blob sees of entries.
Visible(es) == [n \in DOMAIN es |-> [key |-> es[n].key, code |-> es[n].code]]

\* The permutations before the n-th are in these lists, in their order.
ListedBefore(n, compiled, failures, visible) ==
    /\ \E good \in Clean!InOrder(Len(perms), GoodBefore(n)) :
          /\ compiled = [j \in DOMAIN good |-> perms[good[j]]]
          /\ visible = [j \in DOMAIN good |->
                [key |-> Key(perms[good[j]]), code |-> results[good[j]].code]]
    /\ \E bad \in Clean!InOrder(Len(perms), BadBefore(n)) :
          failures = [j \in DOMAIN bad |-> perms[bad[j]]]

\* They are in the Output.
Accounted(n) ==
    /\ ~call.keepGoing => BadBefore(n) = {}
    /\ ListedBefore(n, out.compiled, out.failures, Visible(entries))

\* The locals are what the source says now, and every permutation gets a
\* result before any is looked at.
SourceRead ==
    /\ pc \notin {"idle", "parse", "returned"} =>
          /\ ~Script(files[call.source], call.override).dup
          /\ perms = Script(files[call.source], call.override).perms
    /\ pc \in WithOptions => opts = EffectiveOptions(call, files[call.source])

AllDecided ==
    /\ pc \in {"idle", "parse", "options", "load"} => cursor = 1
    /\ pc = "reuse" => \A i \in DOMAIN perms :
          i < cursor => i \in toCompile \/ results[i] # None
    /\ pc = "compile" => \A i \in DOMAIN perms : i \in toCompile \/ results[i] # None
    /\ pc \in {"deps", "record", "open", "write"} => \A i \in DOMAIN perms : results[i] # None

OutputSoFar ==
    /\ pc \in {"idle", "parse", "options", "load", "reuse", "compile", "deps"} => out = NoOutput
    /\ pc \in {"record", "open", "write"} => Accounted(cursor)
    /\ pc \in {"open", "write"} => cursor \notin DOMAIN perms /\ out.blob = Finalized(depVec)

CInv == SourceRead /\ AllDecided /\ OutputSoFar
-----------------------------------------------------------------------------
(* Enumerations.                                                           *)

LEMMA EmptyInOrder ==
    ASSUME NEW n \in Nat
    PROVE  <<>> \in Clean!InOrder(n, {})
<1>1. <<>> \in [1..0 -> {}] /\ DOMAIN <<>> = {} /\ 0 \in 0..n
  OBVIOUS
<1>2. <<>> \in UNION {[1..m -> {}] : m \in 0..n}
  BY <1>1, Zenon
<1> QED
  BY <1>1, <1>2 DEF Clean!InOrder

LEMMA InOrderType ==
    ASSUME NEW n \in Nat, NEW S \in SUBSET Nat, NEW s \in Clean!InOrder(n, S)
    PROVE  /\ s \in Seq(S) /\ Len(s) \in 0..n /\ s \in [1..Len(s) -> S]
           /\ \A j, k \in 1..Len(s) : j < k => s[j] < s[k]
           /\ \A i \in S : \E j \in 1..Len(s) : s[j] = i
<1>1. PICK m \in 0..n : s \in [1..m -> S]
  BY Zenon DEF Clean!InOrder
<1>2. /\ \A j, k \in DOMAIN s : j < k => s[j] < s[k]
      /\ \A i \in S : \E j \in DOMAIN s : s[j] = i
  BY Zenon DEF Clean!InOrder
<1>3. s \in Seq(S) /\ Len(s) = m /\ DOMAIN s = 1..m
  BY <1>1
<1> QED
  BY <1>1, <1>2, <1>3

LEMMA IsInOrder ==
    ASSUME NEW n \in Nat, NEW S \in SUBSET Nat, NEW m \in 0..n, NEW s \in [1..m -> S],
           \A j, k \in 1..m : j < k => s[j] < s[k],
           \A i \in S : \E j \in 1..m : s[j] = i
    PROVE  s \in Clean!InOrder(n, S)
<1>1. s \in UNION {[1..l -> S] : l \in 0..n}
  BY Zenon
<1> QED
  BY <1>1, Zenon DEF Clean!InOrder

\* Enumerations are no longer than the numbers they enumerate.
LEMMA NoLonger ==
    ASSUME NEW m \in Nat, NEW n \in Nat, NEW s \in [1..n -> 1..m],
           \A j, k \in 1..n : j < k => s[j] < s[k]
    PROVE  n <= m
<1>1. \A j, k \in 1..n : s[j] = s[k] => j = k
  OBVIOUS
<1>2. s \in Injection(1..n, 1..m)
  BY <1>1 DEF Injection, IsInjective
<1>3. /\ IsFiniteSet(1..m) /\ Cardinality(1..m) = m
      /\ IsFiniteSet(1..n) /\ Cardinality(1..n) = n
  BY FS_Interval
<1> QED
  BY <1>2, <1>3, FS_Injection

\* The next larger index goes to the end.
LEMMA AppendInOrder ==
    ASSUME NEW n \in Nat, NEW m \in 1..n, NEW S \in SUBSET (1 .. m - 1),
           NEW s \in Clean!InOrder(n, S)
    PROVE  Append(s, m) \in Clean!InOrder(n, S \cup {m})
<1> DEFINE t == Append(s, m)
           l == Len(s) + 1
<1>1. /\ s \in Seq(S) /\ Len(s) \in Nat /\ s \in [1..Len(s) -> S]
      /\ \A j, k \in 1..Len(s) : j < k => s[j] < s[k]
      /\ \A i \in S : \E j \in 1..Len(s) : s[j] = i
  <2>1. S \in SUBSET Nat
    OBVIOUS
  <2> QED
    BY <2>1, InOrderType
<1>2. /\ \A j \in 1..Len(s) : t[j] = s[j]
      /\ t[l] = m /\ t \in [1..l -> S \cup {m}] /\ l \in Nat
  <2>1. s \in Seq(S \cup {m})
    BY <1>1
  <2>2. t \in Seq(S \cup {m}) /\ Len(t) = l /\ t[l] = m /\ \A j \in 1..Len(s) : t[j] = s[j]
    BY <1>1, <2>1
  <2> HIDE DEF t
  <2>3. t \in [1..Len(t) -> S \cup {m}]
    BY <2>2
  <2> QED
    BY <1>1, <2>2, <2>3
<1> HIDE DEF t
<1>3. \A j, k \in 1..l : j < k => t[j] < t[k]
  <2> SUFFICES ASSUME NEW j \in 1..l, NEW k \in 1..l, j < k
               PROVE  t[j] < t[k]
    OBVIOUS
  <2>1. j \in 1..Len(s) /\ t[j] = s[j] /\ s[j] \in S
    BY <1>1, <1>2
  <2>2. CASE k \in 1..Len(s)
    <3>1. t[k] = s[k] /\ s[j] < s[k]
      BY <1>1, <1>2, <2>1, <2>2
    <3> QED
      BY <2>1, <3>1
  <2>3. CASE k = l
    <3>1. t[k] = m /\ t[j] \in 1 .. m - 1
      BY <1>2, <2>1, <2>3
    <3> QED
      BY <3>1
  <2> QED
    BY <1>1, <2>2, <2>3
<1>4. \A i \in S \cup {m} : \E j \in 1..l : t[j] = i
  <2> TAKE i \in S \cup {m}
  <2>1. CASE i \in S
    <3>1. PICK j \in 1..Len(s) : s[j] = i
      BY <1>1, <2>1
    <3> QED
      BY <1>1, <1>2, <3>1
  <2>2. CASE i = m
    <3>1. l \in 1..l
      BY <1>1
    <3> QED
      BY <1>2, <2>2, <3>1
  <2> QED
    BY <2>1, <2>2
<1>5. S \cup {m} \in SUBSET (1..m) /\ S \cup {m} \in SUBSET Nat /\ m \in Nat
  OBVIOUS
<1>6. t \in [1..l -> 1..m]
  BY <1>2, <1>5
<1>7. l <= m
  BY <1>2, <1>3, <1>5, <1>6, NoLonger
<1>8. l \in 0..n
  BY <1>2, <1>7
<1>9. t \in Clean!InOrder(n, S \cup {m})
  BY <1>2, <1>3, <1>4, <1>5, <1>8, IsInOrder
<1> QED
  BY <1>9 DEF t

-----------------------------------------------------------------------------
(* The invariant.                                                          *)

LEMMA CleanInit == ASSUME Init PROVE CInv
BY DEF Init, CInv, SourceRead, AllDecided, OutputSoFar, WithOptions

LEMMA CleanCall == ASSUME CInv, NEW c \in Calls, Call(c) PROVE CInv'
BY DEF CInv, SourceRead, AllDecided, OutputSoFar, WithOptions, Call, working

\* Before the record loop, the Output is empty.
LEMMA CleanPrepare == ASSUME TInv, CInv, Prepare PROVE CInv'
<1>1. CASE RejectDuplicateAxes
  BY <1>1 DEF RejectDuplicateAxes, working, CInv, SourceRead, AllDecided, OutputSoFar, WithOptions
<1>2. CASE ParseSource
  BY <1>2 DEF ParseSource, CInv, SourceRead, AllDecided, OutputSoFar, WithOptions
<1>3. CASE FixOptions
  BY <1>3 DEF FixOptions, CInv, SourceRead, AllDecided, OutputSoFar, WithOptions
<1>4. CASE LoadPrevious
  <2>1. \A i \in DOMAIN perms : ~(i < 1)
    BY DEF TInv, TypeOK
  <2> QED
    BY <1>4, <2>1 DEF LoadPrevious, CInv, SourceRead, AllDecided, OutputSoFar, WithOptions
<1> QED
  BY <1>1, <1>2, <1>3, <1>4 DEF Prepare

LEMMA CleanDecide == ASSUME TInv, CInv, Decide PROVE CInv'
<1>1. /\ perms \in Seq(Perms) /\ cursor \in 1 .. Len(perms) + 1
      /\ results \in [DOMAIN perms -> Results \cup {None}]
      /\ pc = "reuse"
  BY DEF TInv, TypeOK, Decide, Reuse, QueueStale, QueueNew, ReuseDone
<1>2. \A i \in DOMAIN perms : i \in Nat /\ (i < cursor + 1 => i < cursor \/ i = cursor)
  BY <1>1
<1>3. CASE Reuse \/ QueueStale \/ QueueNew
  <2>1. /\ pc' = pc /\ UNCHANGED <<files, call, perms, opts, out>>
        /\ cursor' = cursor + 1 /\ cursor \in DOMAIN perms
    BY <1>3 DEF Reuse, QueueStale, QueueNew
  <2>2. /\ \A i \in DOMAIN perms : i # cursor => results'[i] = results[i]
        /\ toCompile \subseteq toCompile'
        /\ cursor \in toCompile' \/ results'[cursor] # None
    <3>1. CASE Reuse
      <4>1. PICK n \in DOMAIN prev.entries :
              /\ DepsOk(prev.entries[n])
              /\ results' = [results EXCEPT ![cursor] = KeptResult(prev.entries[n])]
        BY <3>1 DEF Reuse
      <4>2. results'[cursor] = KeptResult(prev.entries[n]) /\ toCompile' = toCompile
        BY <1>1, <2>1, <3>1, <4>1 DEF Reuse
      <4>3. prev # None /\ prev \in Blobs
        BY <3>1 DEF Reuse, TInv, TypeOK
      <4>4. prev.entries \in Seq(Entries)
        BY <4>3 DEF Blobs
      <4>5. prev.entries[n] \in Entries
        BY <4>4
      <4>6. results'[cursor] # None
        BY <4>1, <4>2, <4>3, <4>5, KeptTyped, NoneAssumption
      <4>7. \A i \in DOMAIN perms : i # cursor => results'[i] = results[i]
        BY <1>1, <4>1
      <4> QED
        BY <4>2, <4>6, <4>7
    <3>2. CASE QueueStale \/ QueueNew
      BY <3>2 DEF QueueStale, QueueNew
    <3> QED
      BY <1>3, <3>1, <3>2
  <2> QED
    BY <1>1, <1>2, <2>1, <2>2 DEF CInv, SourceRead, AllDecided, OutputSoFar, WithOptions
<1>4. CASE ReuseDone
  <2>1. \A i \in DOMAIN perms : i < cursor
    BY <1>1, <1>4 DEF ReuseDone
  <2> QED
    BY <1>1, <1>4, <2>1 DEF ReuseDone, CInv, SourceRead, AllDecided, OutputSoFar, WithOptions
<1> QED
  BY <1>3, <1>4 DEF Decide

LEMMA CleanCompile == ASSUME TInv, CInv, Compile PROVE CInv'
<1>1. results \in [DOMAIN perms -> Results \cup {None}]
  BY DEF TInv, TypeOK
<1>2. ASSUME NEW i \in DOMAIN perms, CompileOne(i)
      PROVE  CInv'
  <2>1. opts \in Options /\ perms[i] \in Perms /\ files \in FileStates
    <3>1. perms \in Seq(Perms) /\ opts \in Options /\ files \in FileStates
      BY <1>2 DEF CompileOne, TInv, TypeOK, Locals, WithOptions
    <3> QED
      BY <3>1
  <2>2. Slang(opts, perms[i], files) # None
    BY <2>1, SlangTyped, NoneAssumption
  <2>3. /\ results'[i] # None
        /\ \A j \in DOMAIN perms : j # i => results'[j] = results[j]
    BY <1>1, <1>2, <2>2 DEF CompileOne
  <2>4. /\ pc = "compile" /\ UNCHANGED <<files, pc, call, perms, opts, out>>
        /\ toCompile' = toCompile \ {i}
    BY <1>2 DEF CompileOne
  <2> QED
    BY <2>3, <2>4 DEF CInv, SourceRead, AllDecided, OutputSoFar, WithOptions
<1>3. CASE CompileDone
  BY <1>3 DEF CompileDone, working, CInv, SourceRead, AllDecided, OutputSoFar, WithOptions
<1> QED
  BY <1>2, <1>3 DEF Compile

\* No permutation is accounted for when the record loop starts.
LEMMA NothingAccounted ==
    ASSUME TInv, out = NoOutput, entries = <<>>
    PROVE  Accounted(1)
<1>1. perms \in Seq(Perms)
  BY DEF TInv, TypeOK
<1>2. GoodBefore(1) = {} /\ BadBefore(1) = {} /\ Len(perms) \in Nat
  BY <1>1 DEF GoodBefore, BadBefore
<1>3. <<>> \in Clean!InOrder(Len(perms), {})
  BY <1>2, EmptyInOrder
<1>4. out.compiled = <<>> /\ out.failures = <<>>
  BY DEF NoOutput
<1>5. [j \in DOMAIN <<>> |-> perms[<<>>[j]]] = <<>>
      /\ [j \in DOMAIN <<>> |-> [key |-> Key(perms[<<>>[j]]), code |-> results[<<>>[j]].code]] = <<>>
      /\ Visible(<<>>) = <<>>
  BY DEF Visible
<1> QED
  BY ZenonT(60), <1>2, <1>3, <1>4, <1>5 DEF Accounted, ListedBefore

LEMMA CleanNumber == ASSUME TInv, FInv, CInv, Number PROVE CInv'
<1>1. CASE InternKnown \/ InternNew \/ InternSlotDone
  <2>1. /\ pc = "deps" /\ UNCHANGED <<files, pc, call, perms, opts, results, out>>
    BY <1>1 DEF InternKnown, InternNew, InternSlotDone, Numbering
  <2> QED
    BY <2>1 DEF CInv, SourceRead, AllDecided, OutputSoFar, WithOptions
<1>2. CASE InternDone
  <2>1. /\ pc = "deps" /\ pc' = "record" /\ cursor' = 1
        /\ UNCHANGED <<files, call, perms, opts, results, out, entries>>
    BY <1>2 DEF InternDone
  <2>2. out = NoOutput /\ entries = <<>>
    BY <2>1 DEF CInv, OutputSoFar, FInv, Early
  <2>3. Accounted(1)
    BY <2>2, NothingAccounted
  <2>4. Accounted(1)'
    BY SMTT(60), <2>1, <2>3 DEF Accounted, ListedBefore, GoodBefore, BadBefore, Visible, Surviving, Clean!InOrder
  <2>5. OutputSoFar'
    BY <2>1, <2>4 DEF OutputSoFar
  <2> QED
    BY <2>1, <2>5 DEF CInv, SourceRead, AllDecided, OutputSoFar, WithOptions
<1> QED
  BY <1>1, <1>2 DEF Number

\* The cursor moves over a permutation that is recorded.
LEMMA MoveOver ==
    ASSUME TInv, cursor \in DOMAIN perms
    PROVE  /\ cursor \in 1 .. Len(perms) /\ Len(perms) \in Nat
           /\ GoodBefore(cursor) \in SUBSET (1 .. cursor - 1)
           /\ BadBefore(cursor) \in SUBSET (1 .. cursor - 1)
           /\ Surviving(cursor) =>
                 /\ GoodBefore(cursor + 1) = GoodBefore(cursor) \cup {cursor}
                 /\ BadBefore(cursor + 1) = BadBefore(cursor)
           /\ ~Surviving(cursor) =>
                 /\ GoodBefore(cursor + 1) = GoodBefore(cursor)
                 /\ BadBefore(cursor + 1) = BadBefore(cursor) \cup {cursor}
<1>1. perms \in Seq(Perms)
  BY DEF TInv, TypeOK
<1> QED
  BY <1>1 DEF GoodBefore, BadBefore

\* Appending one element to a list of picked ones.
LEMMA AppendPicked ==
    ASSUME NEW G, NEW s \in Seq(Nat), NEW m \in Nat
    PROVE  [j \in DOMAIN Append(s, m) |-> G[Append(s, m)[j]]]
              = Append([j \in DOMAIN s |-> G[s[j]]], G[m])
<1> DEFINE p == [j \in 1..Len(s) |-> G[s[j]]]
           q == [j \in 1 .. Len(s) + 1 |-> G[Append(s, m)[j]]]
<1>1. DOMAIN s = 1..Len(s) /\ Len(s) \in Nat /\ DOMAIN Append(s, m) = 1 .. Len(s) + 1
  OBVIOUS
<1>2. p \in Seq({G[s[j]] : j \in 1..Len(s)}) /\ Len(p) = Len(s)
  BY <1>1
<1>3. /\ Append(p, G[m])[Len(s) + 1] = G[m]
      /\ \A j \in 1..Len(s) : Append(p, G[m])[j] = p[j]
      /\ Append(p, G[m]) = [j \in 1 .. Len(s) + 1 |-> Append(p, G[m])[j]]
  BY <1>1, <1>2
<1>4. \A j \in 1 .. Len(s) + 1 : q[j] = Append(p, G[m])[j]
  BY <1>1, <1>3
<1>5. q = Append(p, G[m])
  <2> HIDE DEF q, p
  <2>1. q = [j \in 1 .. Len(s) + 1 |-> q[j]]
    BY DEF q
  <2> QED
    BY <1>3, <1>4, <2>1
<1> QED
  BY <1>1, <1>5

LEMMA Widened ==
    ASSUME NEW S, NEW T, S \subseteq T, NEW s \in Seq(S)
    PROVE  s \in Seq(T)
OBVIOUS

\* The indices before the cursor enumerate elements of perms.
LEMMA PicksArePerms ==
    ASSUME TInv, cursor \in DOMAIN perms, NEW S \in SUBSET (1 .. cursor - 1),
           NEW s \in Clean!InOrder(Len(perms), S)
    PROVE  /\ s \in Seq(Nat) /\ \A j \in DOMAIN s : s[j] \in DOMAIN perms
           /\ Append(s, cursor) \in Clean!InOrder(Len(perms), S \cup {cursor})
           /\ \A j \in DOMAIN Append(s, cursor) : Append(s, cursor)[j] \in DOMAIN perms
<1>1. /\ cursor \in 1 .. Len(perms) /\ Len(perms) \in Nat /\ DOMAIN perms = 1 .. Len(perms)
  BY DEF TInv, TypeOK
<1>2. S \in SUBSET Nat /\ S \in SUBSET (1 .. Len(perms))
  BY <1>1
<1>3. s \in Seq(S)
  BY <1>1, <1>2, InOrderType
<1>4. s \in Seq(1 .. Len(perms)) /\ s \in Seq(Nat)
  BY <1>2, <1>3, Widened
<1>5. Append(s, cursor) \in Seq(1 .. Len(perms))
  BY <1>1, <1>4
<1>6. Append(s, cursor) \in Clean!InOrder(Len(perms), S \cup {cursor})
  BY <1>1, AppendInOrder
<1> QED
  BY SMTT(60), <1>1, <1>4, <1>5, <1>6

LEMMA VisibleAppend ==
    ASSUME NEW es \in Seq(Entries), NEW e \in Entries
    PROVE  Visible(Append(es, e)) = Append(Visible(es), [key |-> e.key, code |-> e.code])
<1> DEFINE V(x) == [key |-> x.key, code |-> x.code]
<1>1. /\ DOMAIN es = 1..Len(es) /\ Len(es) \in Nat /\ DOMAIN Append(es, e) = 1 .. Len(es) + 1
      /\ Append(es, e)[Len(es) + 1] = e /\ \A j \in 1..Len(es) : Append(es, e)[j] = es[j]
  OBVIOUS
<1>2. /\ Visible(es) = [n \in 1..Len(es) |-> V(es[n])]
      /\ Visible(Append(es, e)) = [n \in 1 .. Len(es) + 1 |-> V(Append(es, e)[n])]
  BY <1>1 DEF Visible
<1> HIDE DEF V
<1>3. Visible(es) \in Seq({V(es[n]) : n \in 1..Len(es)}) /\ Len(Visible(es)) = Len(es)
  BY <1>1, <1>2
<1>4. /\ Append(Visible(es), V(e))[Len(es) + 1] = V(e)
      /\ \A j \in 1..Len(es) : Append(Visible(es), V(e))[j] = V(es[j])
      /\ Append(Visible(es), V(e)) = [n \in 1 .. Len(es) + 1 |-> Append(Visible(es), V(e))[n]]
  BY <1>1, <1>2, <1>3
<1>5. \A j \in 1 .. Len(es) + 1 : V(Append(es, e)[j]) = Append(Visible(es), V(e))[j]
  BY SMTT(60), <1>1, <1>4
<1> QED
  BY <1>2, <1>4, <1>5 DEF V

LEMMA ListEntry ==
    ASSUME TInv, cursor \in DOMAIN perms, Surviving(cursor), NEW c, NEW f, NEW v,
           ListedBefore(cursor, c, f, v)
    PROVE  ListedBefore(cursor + 1, Append(c, perms[cursor]), f,
             Append(v, [key |-> Key(perms[cursor]), code |-> results[cursor].code]))
<1> DEFINE G == [i \in DOMAIN perms |-> [key |-> Key(perms[i]), code |-> results[i].code]]
<1>1. PICK good \in Clean!InOrder(Len(perms), GoodBefore(cursor)) :
        /\ c = [j \in DOMAIN good |-> perms[good[j]]]
        /\ v = [j \in DOMAIN good |-> [key |-> Key(perms[good[j]]), code |-> results[good[j]].code]]
  BY DEF ListedBefore
<1>2. /\ GoodBefore(cursor) \in SUBSET (1 .. cursor - 1)
      /\ GoodBefore(cursor + 1) = GoodBefore(cursor) \cup {cursor}
      /\ BadBefore(cursor + 1) = BadBefore(cursor) /\ cursor \in Nat
  BY MoveOver
<1> DEFINE next == Append(good, cursor)
<1>3. /\ good \in Seq(Nat) /\ \A j \in DOMAIN good : good[j] \in DOMAIN perms
      /\ next \in Clean!InOrder(Len(perms), GoodBefore(cursor + 1))
      /\ \A j \in DOMAIN next : next[j] \in DOMAIN perms
  BY <1>2, PicksArePerms
<1>4. Append(c, perms[cursor]) = [j \in DOMAIN next |-> perms[next[j]]]
  BY <1>1, <1>2, <1>3, AppendPicked
<1>5. v = [j \in DOMAIN good |-> G[good[j]]]
  BY <1>1, <1>3
<1>6. Append(v, G[cursor]) = [j \in DOMAIN next |-> G[next[j]]]
  <2> HIDE DEF G
  <2> QED
    BY <1>2, <1>3, <1>5, AppendPicked
<1> HIDE DEF next
<1>7. Append(v, G[cursor])
        = [j \in DOMAIN next |-> [key |-> Key(perms[next[j]]), code |-> results[next[j]].code]]
  BY <1>3, <1>6
<1>8. G[cursor] = [key |-> Key(perms[cursor]), code |-> results[cursor].code]
  OBVIOUS
<1>9. \E bad \in Clean!InOrder(Len(perms), BadBefore(cursor)) :
          f = [j \in DOMAIN bad |-> perms[bad[j]]]
  BY DEF ListedBefore
<1> HIDE DEF G
<1> QED
  BY <1>2, <1>3, <1>4, <1>7, <1>8, <1>9 DEF ListedBefore

LEMMA ListFailure ==
    ASSUME TInv, cursor \in DOMAIN perms, ~Surviving(cursor), NEW c, NEW f, NEW v,
           ListedBefore(cursor, c, f, v)
    PROVE  ListedBefore(cursor + 1, c, Append(f, perms[cursor]), v)
<1>1. PICK bad \in Clean!InOrder(Len(perms), BadBefore(cursor)) :
        f = [j \in DOMAIN bad |-> perms[bad[j]]]
  BY DEF ListedBefore
<1>2. /\ BadBefore(cursor) \in SUBSET (1 .. cursor - 1)
      /\ BadBefore(cursor + 1) = BadBefore(cursor) \cup {cursor}
      /\ GoodBefore(cursor + 1) = GoodBefore(cursor) /\ cursor \in Nat
  BY MoveOver
<1> DEFINE next == Append(bad, cursor)
<1>3. /\ bad \in Seq(Nat) /\ \A j \in DOMAIN bad : bad[j] \in DOMAIN perms
      /\ next \in Clean!InOrder(Len(perms), BadBefore(cursor + 1))
  BY <1>2, PicksArePerms
<1>4. Append(f, perms[cursor]) = [j \in DOMAIN next |-> perms[next[j]]]
  BY SMTT(60), <1>1, <1>2, <1>3, AppendPicked
<1> HIDE DEF next
<1> QED
  BY <1>2, <1>3, <1>4 DEF ListedBefore

\* The permutations accounted for after a step that leaves permutations and
\* results alone.
LEMMA StillAccounted ==
    ASSUME NEW n, cursor' = n, perms' = perms, results' = results, call' = call,
           ~call.keepGoing => BadBefore(n) = {},
           ListedBefore(n, out'.compiled, out'.failures, Visible(entries)')
    PROVE  Accounted(cursor)'
<1>1. GoodBefore(cursor)' = GoodBefore(n) /\ BadBefore(cursor)' = BadBefore(n)
  BY DEF GoodBefore, BadBefore, Surviving
<1>2. /\ Clean!InOrder(Len(perms'), GoodBefore(cursor)') = Clean!InOrder(Len(perms), GoodBefore(n))
      /\ Clean!InOrder(Len(perms'), BadBefore(cursor)') = Clean!InOrder(Len(perms), BadBefore(n))
  BY <1>1, Zenon
<1>3. PICK good \in Clean!InOrder(Len(perms), GoodBefore(n)) :
        /\ out'.compiled = [j \in DOMAIN good |-> perms[good[j]]]
        /\ Visible(entries)' = [j \in DOMAIN good |->
              [key |-> Key(perms[good[j]]), code |-> results[good[j]].code]]
  BY DEF ListedBefore
<1>4. PICK bad \in Clean!InOrder(Len(perms), BadBefore(n)) :
        out'.failures = [j \in DOMAIN bad |-> perms[bad[j]]]
  BY DEF ListedBefore
<1>5. /\ \E g \in Clean!InOrder(Len(perms'), GoodBefore(cursor)') :
            /\ out'.compiled = [j \in DOMAIN g |-> perms'[g[j]]]
            /\ Visible(entries)' = [j \in DOMAIN g |->
                  [key |-> Key(perms'[g[j]]), code |-> results'[g[j]].code]]
      /\ \E f \in Clean!InOrder(Len(perms'), BadBefore(cursor)') :
            out'.failures = [j \in DOMAIN f |-> perms'[f[j]]]
  <2>1. /\ good \in Clean!InOrder(Len(perms'), GoodBefore(cursor)')
        /\ bad \in Clean!InOrder(Len(perms'), BadBefore(cursor)')
    BY <1>2, <1>3, <1>4, Zenon
  <2>2. /\ out'.compiled = [j \in DOMAIN good |-> perms'[good[j]]]
        /\ Visible(entries)' = [j \in DOMAIN good |->
              [key |-> Key(perms'[good[j]]), code |-> results'[good[j]].code]]
        /\ out'.failures = [j \in DOMAIN bad |-> perms'[bad[j]]]
    BY <1>3, <1>4
  <2> QED
    BY <2>1, <2>2, Zenon
<1>6. ListedBefore(cursor, out.compiled, out.failures, Visible(entries))'
  BY <1>5, Zenon DEF ListedBefore, Clean!InOrder
<1> QED
  BY <1>1, <1>6 DEF Accounted

LEMMA CleanRecord == ASSUME TInv, TInv', CInv, Record PROVE CInv'
<1>0. out \in Outputs /\ pc = "record" /\ Accounted(cursor)
  BY DEF TInv, TypeOK, CInv, OutputSoFar, Record, RecordEntry, RecordFailure,
         StopAtFailure, Finish
<1>1. CASE RecordEntry
  <2> DEFINE e == [key |-> Key(perms[cursor]), code |-> results[cursor].code,
                   deps |-> indices[cursor]]
             seenAs == [key |-> Key(perms[cursor]), code |-> results[cursor].code]
  <2>1. /\ cursor \in DOMAIN perms /\ Surviving(cursor)
        /\ entries' = Append(entries, e)
        /\ out'.compiled = Append(out.compiled, perms[cursor])
        /\ out'.failures = out.failures
        /\ cursor' = cursor + 1 /\ pc' = pc
        /\ UNCHANGED <<files, call, perms, opts, results>>
    BY <1>0, <1>1 DEF RecordEntry, Outputs
  <2>2. entries \in Seq(Entries) /\ e \in Entries
    <3>1. entries \in Seq(Entries) /\ entries' \in Seq(Entries)
      BY DEF TInv, TypeOK
    <3> HIDE DEF e
    <3>2. entries'[Len(entries) + 1] = e /\ Len(entries) + 1 \in DOMAIN entries'
      BY <2>1, <3>1
    <3> QED
      BY <3>1, <3>2
  <2>3. Visible(entries') = Append(Visible(entries), seenAs)
    <3>1. e.key = seenAs.key /\ e.code = seenAs.code
      OBVIOUS
    <3> HIDE DEF e
    <3> QED
      BY <2>1, <2>2, <3>1, VisibleAppend
  <2> HIDE DEF e, seenAs
  <2>4. ListedBefore(cursor, out.compiled, out.failures, Visible(entries))
    BY <1>0 DEF Accounted
  <2>5. ListedBefore(cursor + 1, out'.compiled, out'.failures, Append(Visible(entries), seenAs))
    BY <2>1, <2>4, ListEntry DEF seenAs
  <2>6. BadBefore(cursor + 1) = BadBefore(cursor)
    BY <2>1, MoveOver
  <2>7. Accounted(cursor)'
    BY <1>0, <2>1, <2>3, <2>5, <2>6, StillAccounted DEF Accounted
  <2> QED
    BY <1>0, <2>1, <2>7 DEF CInv, SourceRead, AllDecided, OutputSoFar, WithOptions
<1>2. CASE RecordFailure
  <2>1. /\ cursor \in DOMAIN perms /\ ~Surviving(cursor) /\ call.keepGoing
        /\ out'.compiled = out.compiled
        /\ out'.failures = Append(out.failures, perms[cursor])
        /\ cursor' = cursor + 1 /\ pc' = pc
        /\ UNCHANGED <<files, call, perms, opts, results, entries>>
    BY <1>0, <1>2 DEF RecordFailure, Outputs
  <2>2. ListedBefore(cursor, out.compiled, out.failures, Visible(entries))
    BY <1>0 DEF Accounted
  <2>3. ListedBefore(cursor + 1, out'.compiled, out'.failures, Visible(entries))
    BY <2>1, <2>2, ListFailure
  <2>5. Visible(entries)' = Visible(entries)
    BY <2>1 DEF Visible
  <2>4. Accounted(cursor)'
    BY <1>0, <2>1, <2>3, <2>5, StillAccounted
  <2> QED
    BY <1>0, <2>1, <2>4 DEF CInv, SourceRead, AllDecided, OutputSoFar, WithOptions
<1>3. CASE StopAtFailure
  BY <1>3 DEF StopAtFailure, working, CInv, SourceRead, AllDecided, OutputSoFar, WithOptions
<1>4. CASE Finish
  <2>1. /\ cursor \notin DOMAIN perms /\ pc' = "open"
        /\ out'.compiled = out.compiled /\ out'.failures = out.failures
        /\ out'.blob = Finalized(depVec)
        /\ UNCHANGED <<files, call, working>>
    BY <1>0, <1>4 DEF Finish, Outputs
  <2>4. Visible(entries)' = Visible(entries) /\ UNCHANGED <<perms, results, cursor>>
    BY <2>1 DEF working, Visible
  <2>2. Accounted(cursor)'
    BY <1>0, <2>1, <2>4, StillAccounted DEF Accounted
  <2>3. Finalized(depVec)' = Finalized(depVec)
    BY <2>1 DEF working, Finalized
  <2> QED
    BY <1>0, <2>1, <2>2, <2>3
    DEF working, CInv, SourceRead, AllDecided, OutputSoFar, WithOptions
<1> QED
  BY <1>1, <1>2, <1>3, <1>4 DEF Record

LEMMA CleanWrite == ASSUME CInv, Write PROVE CInv'
<1>1. CASE OpenTruncates
  <2>1. pc = "open" /\ pc' = "write" /\ UNCHANGED <<files, call, working, out>>
    BY <1>1 DEF OpenTruncates
  <2>4. /\ Visible(entries)' = Visible(entries) /\ UNCHANGED <<perms, results, cursor, call, out>>
        /\ Accounted(cursor)
    BY <2>1 DEF working, Visible, CInv, OutputSoFar
  <2>2. Accounted(cursor)'
    BY <2>4, StillAccounted DEF Accounted
  <2>3. Finalized(depVec)' = Finalized(depVec)
    BY <2>1 DEF working, Finalized
  <2> QED
    BY <2>1, <2>2, <2>3 DEF working, CInv, SourceRead, AllDecided, OutputSoFar, WithOptions
<1>2. CASE WriteAll \/ WriteShort
  BY <1>2 DEF WriteAll, WriteShort, working, CInv, SourceRead, AllDecided, OutputSoFar,
              WithOptions
<1> QED
  BY <1>1, <1>2 DEF Write

LEMMA CleanEnd == ASSUME Collect \/ Throw \/ Kill PROVE CInv'
<1>1. Forget
  BY DEF Collect, Throw, Kill
<1> QED
  BY <1>1 DEF Forget, CInv, SourceRead, AllDecided, OutputSoFar, WithOptions

LEMMA CleanEdit ==
    ASSUME CInv, ~RacingEdits, NEW path \in Paths, Edit(path)
    PROVE  CInv'
BY DEF Edit, working, CInv, SourceRead, AllDecided, OutputSoFar, WithOptions

LEMMA CleanStep ==
    ASSUME TInv, FInv, CInv, ~RacingEdits, [Next]_vars
    PROVE  CInv'
<1>1. CASE UNCHANGED vars
  <2>3. Visible(entries)' = Visible(entries) /\ UNCHANGED <<perms, results, cursor, call, out>>
    BY <1>1 DEF vars, working, Visible
  <2>1. Accounted(cursor) => Accounted(cursor)'
    BY <2>3, StillAccounted DEF Accounted
  <2>2. Finalized(depVec)' = Finalized(depVec)
    BY <1>1 DEF vars, working, Finalized
  <2> QED
    BY <1>1, <2>1, <2>2 DEF vars, working, CInv, SourceRead, AllDecided, OutputSoFar, WithOptions
<1>2. CASE Next
  <2>1. TInv'
    BY TypeStep
  <2> QED
    BY <1>2, <2>1, CleanCall, CleanPrepare, CleanDecide, CleanCompile, CleanNumber,
       CleanRecord, CleanWrite, CleanEnd, CleanEdit DEF Next
<1> QED
  BY <1>1, <1>2

-----------------------------------------------------------------------------
(* Each step is a step of CleanBuild or a stutter.                         *)

\* What the invariants say in CleanBuild's terms.
LEMMA AsScratch ==
    ASSUME TInv, FInv, CInv, pc \in {"record", "open", "write"}
    PROVE  /\ call \in Calls /\ perms = Clean!Perm(call) /\ opts = Clean!Opts(call)
           /\ ~Script(files[call.source], call.override).dup
           /\ \A i \in DOMAIN perms : results[i] = Clean!Compiled(call, i)
           /\ Clean!Failed(call) = {i \in DOMAIN perms : ~Surviving(i)}
<1>1. /\ call \in Calls /\ perms = Clean!Perm(call) /\ opts = Clean!Opts(call)
      /\ ~Script(files[call.source], call.override).dup
  <2>1. /\ call \in Calls /\ perms = Script(files[call.source], call.override).perms
        /\ ~Script(files[call.source], call.override).dup
        /\ opts = EffectiveOptions(call, files[call.source])
    BY DEF TInv, Locals, CInv, SourceRead, WithOptions
  <2> QED
    BY <2>1 DEF Clean!Perm, Clean!Opts, EffectiveOptions, Clean!EffectiveOptions
<1>2. \A i \in DOMAIN perms : results[i] # None /\ results[i] = Slang(opts, perms[i], files)
  BY DEF TInv, TypeOK, FInv, SlotsFresh, CInv, AllDecided
<1>3. \A i \in DOMAIN perms : results[i] = Clean!Compiled(call, i)
  BY <1>1, <1>2, Zenon DEF Clean!Compiled
<1>4. Clean!Failed(call) = {i \in DOMAIN perms : ~Surviving(i)}
  BY <1>1, <1>2, <1>3 DEF Clean!Failed, Surviving
<1> QED
  BY <1>1, <1>3, <1>4

\* The numbers 1 to m are their own enumeration.
LEMMA OwnEnumeration ==
    ASSUME NEW m \in Nat, NEW n \in Nat, NEW s \in Clean!InOrder(n, 1..m)
    PROVE  Len(s) = m /\ DOMAIN s = 1..m /\ \A j \in 1..m : s[j] = j
<1> DEFINE k == Len(s)
           t == [i \in 1..m |-> CHOOSE j \in 1..k : s[j] = i]
<1> HIDE DEF t
<1>1. /\ k \in Nat /\ DOMAIN s = 1..k /\ s \in [1..k -> 1..m]
      /\ \A i, j \in 1..k : i < j => s[i] < s[j]
      /\ \A i \in 1..m : \E j \in 1..k : s[j] = i
  <2>1. 1..m \in SUBSET Nat
    OBVIOUS
  <2>2. /\ s \in Seq(1..m) /\ Len(s) \in 0..n /\ s \in [1..Len(s) -> 1..m]
        /\ \A j, l \in 1..Len(s) : j < l => s[j] < s[l]
        /\ \A i \in 1..m : \E j \in 1..Len(s) : s[j] = i
    <3> DEFINE S == 1..m
    <3>1. S \in SUBSET Nat /\ s \in Clean!InOrder(n, S)
      BY <2>1
    <3> HIDE DEF S
    <3>2. /\ s \in Seq(S) /\ Len(s) \in 0..n /\ s \in [1..Len(s) -> S]
          /\ \A j, l \in 1..Len(s) : j < l => s[j] < s[l]
          /\ \A i \in S : \E j \in 1..Len(s) : s[j] = i
      BY SMTT(60), <3>1, InOrderType
    <3> QED
      BY <3>2 DEF S
  <2> QED
    BY SMTT(60), <2>2
<1> HIDE DEF k
<1>2. t \in [1..m -> 1..k] /\ \A i \in 1..m : s[t[i]] = i
  BY <1>1 DEF t
<1>3. \A i, j \in 1..m : i < j => t[i] < t[j]
  <2> SUFFICES ASSUME NEW i \in 1..m, NEW j \in 1..m, i < j PROVE t[i] < t[j]
    OBVIOUS
  <2>1. t[i] \in 1..k /\ t[j] \in 1..k /\ s[t[i]] = i /\ s[t[j]] = j
    BY <1>2
  <2>2. t[j] < t[i] => s[t[j]] < s[t[i]]
    BY <1>1, <2>1
  <2> QED
    BY SMTT(60), <1>1, <2>1, <2>2
<1>4. k <= m
  BY <1>1, NoLonger
<1>5. m <= k
  BY <1>1, <1>2, <1>3, NoLonger
<1>6. k = m
  BY <1>1, <1>4, <1>5
<1>7. \A j \in 1..m : j <= s[j]
  <2> SUFFICES ASSUME NEW j \in 1..m PROVE j <= s[j]
    OBVIOUS
  <2> DEFINE r == [i \in 1..j |-> s[i]]
  <2>1. s[j] \in Nat /\ j \in Nat /\ \A i \in 1..j : i \in 1..k
    BY <1>1, <1>6
  <2>2. \A i \in 1..j : s[i] \in 1..s[j]
    <3> TAKE i \in 1..j
    <3>0. i \in 1..k /\ j \in 1..k /\ (i < j \/ i = j)
      BY <1>6, <2>1
    <3>1. i \in 1..k /\ j \in 1..k /\ s[i] \in 1..m /\ (i < j \/ i = j)
      BY <1>1, <3>0
    <3>2. i < j => s[i] < s[j]
      BY <1>1, <3>1
    <3> QED
      BY <2>1, <3>1, <3>2
  <2>3. r \in [1..j -> 1..s[j]] /\ \A i, h \in 1..j : i < h => r[i] < r[h]
    BY <1>1, <2>1, <2>2
  <2> HIDE DEF r
  <2> QED
    BY <2>1, <2>3, NoLonger
<1>8. \A i \in 1..m : i <= t[i]
  <2> SUFFICES ASSUME NEW i \in 1..m PROVE i <= t[i]
    OBVIOUS
  <2> DEFINE r == [h \in 1..i |-> t[h]]
  <2>1. t[i] \in Nat /\ i \in Nat /\ \A h \in 1..i : h \in 1..m
    BY <1>2
  <2>2. \A h \in 1..i : t[h] \in 1..t[i]
    BY <1>2, <1>3, <2>1
  <2>3. r \in [1..i -> 1..t[i]] /\ \A h, g \in 1..i : h < g => r[h] < r[g]
    BY <1>3, <2>1, <2>2
  <2> HIDE DEF r
  <2> QED
    BY <2>1, <2>3, NoLonger
<1>9. \A j \in 1..m : s[j] = j
  <2> SUFFICES ASSUME NEW j \in 1..m PROVE s[j] <= j
    BY <1>1, <1>6, <1>7
  <2>1. s[j] \in 1..m /\ s[j] <= t[s[j]] /\ t[s[j]] \in 1..k /\ s[t[s[j]]] = s[j]
    BY <1>1, <1>2, <1>6, <1>8
  <2>2. j \in 1..k /\ (j < t[s[j]] => s[j] < s[t[s[j]]])
    BY <1>1, <1>6, <2>1
  <2>3. s[j] \in Nat /\ t[s[j]] \in Nat /\ j \in Nat
    BY SMTT(60), <1>1, <2>1
  <2> QED
    BY <2>1, <2>2, <2>3
<1> QED
  BY <1>1, <1>6, <1>9 DEF k

LEMMA EmptyEnumeration ==
    ASSUME NEW n \in Nat, NEW s \in Clean!InOrder(n, {})
    PROVE  DOMAIN s = {}
<1>1. {} \in SUBSET Nat /\ s \in [1..Len(s) -> {}] /\ Len(s) \in Nat
  <2>1. {} \in SUBSET Nat
    OBVIOUS
  <2>2. Len(s) \in 0..n /\ s \in [1..Len(s) -> {}]
    BY <2>1, InOrderType
  <2> QED
    BY <2>1, <2>2
<1> QED
  BY <1>1

\* A step that touches neither the files, the output file nor the Output of
\* a call that has returned.
LEMMA Unseen ==
    ASSUME files' = files, disk' = disk, pc # "returned", pc' # "returned"
    PROVE  UNCHANGED Clean!vars
BY DEF Clean!vars

LEMMA SeenReject ==
    ASSUME TInv, CInv, RejectDuplicateAxes
    PROVE  Clean!Reject(call)
<1>1. pc = "parse" /\ pc' = "returned" /\ out = NoOutput
  BY DEF RejectDuplicateAxes, CInv, OutputSoFar
<1>2. out'.compiled = <<>> /\ out'.failures = <<None>>
  BY <1>1 DEF RejectDuplicateAxes, NoOutput
<1> QED
  BY <1>1, <1>2 DEF RejectDuplicateAxes, Clean!Reject

LEMMA SeenAbort ==
    ASSUME TInv, FInv, CInv, StopAtFailure
    PROVE  Clean!Abort(call)
<1>1. /\ pc = "record" /\ pc' = "returned" /\ ~call.keepGoing /\ out \in Outputs
      /\ cursor \in DOMAIN perms /\ ~Surviving(cursor) /\ UNCHANGED <<files, disk>>
      /\ out'.compiled = out.compiled
      /\ out'.failures = Append(out.failures, perms[cursor])
  BY DEF StopAtFailure, TInv, TypeOK, Outputs
<1>2. BadBefore(cursor) = {} /\ ListedBefore(cursor, out.compiled, out.failures, Visible(entries))
  BY <1>1 DEF CInv, OutputSoFar, Accounted
<1>3. /\ perms \in Seq(Perms) /\ DOMAIN perms = 1 .. Len(perms) /\ Len(perms) \in Nat
      /\ cursor \in 1 .. Len(perms)
  BY <1>1 DEF TInv, TypeOK
<1>4. GoodBefore(cursor) = 1 .. cursor - 1
  BY <1>2, <1>3 DEF GoodBefore, BadBefore
<1>5. out.compiled = [i \in 1 .. cursor - 1 |-> perms[i]]
  <2>1. PICK good \in Clean!InOrder(Len(perms), 1 .. cursor - 1) :
           out.compiled = [j \in DOMAIN good |-> perms[good[j]]]
    BY <1>2, <1>4 DEF ListedBefore
  <2>2. DOMAIN good = 1 .. cursor - 1 /\ \A j \in 1 .. cursor - 1 : good[j] = j
    BY <1>3, OwnEnumeration
  <2> QED
    BY <2>1, <2>2
<1>6. out.failures = <<>>
  <2>1. PICK bad \in Clean!InOrder(Len(perms), {}) :
           out.failures = [j \in DOMAIN bad |-> perms[bad[j]]]
    BY <1>2 DEF ListedBefore
  <2>2. DOMAIN bad = {}
    BY <1>3, EmptyEnumeration
  <2> QED
    BY <2>1, <2>2
<1>7. out'.failures = <<perms[cursor]>>
  BY <1>1, <1>6
<1>8. /\ cursor \in Clean!Failed(call)
      /\ \A i \in Clean!Failed(call) : cursor <= i
  BY <1>1, <1>2, <1>3, AsScratch DEF BadBefore
<1>9. perms = Clean!Perm(call) /\ ~Script(files[call.source], call.override).dup
  BY <1>1, AsScratch
<1>10. [compiled |-> out'.compiled, failures |-> out'.failures]
         = [compiled |-> [i \in 1 .. cursor - 1 |-> Clean!Perm(call)[i]],
            failures |-> <<Clean!Perm(call)[cursor]>>]
  BY <1>1, <1>5, <1>7, <1>9
<1> QED
  BY <1>1, <1>8, <1>9, <1>10 DEF Clean!Abort

LEMMA SeenBuild ==
    ASSUME TInv, FInv, CInv, ~TornWrites, WriteAll \/ WriteShort, NEW c, c = call
    PROVE  Clean!Build(c)
<1>1. /\ pc = "write" /\ pc' = "returned" /\ UNCHANGED <<files, call, working, out>>
      /\ disk' = out.blob \/ disk' = None
  BY TornIsLost DEF WriteAll, WriteShort
<1>2. /\ Accounted(cursor) /\ cursor \notin DOMAIN perms /\ out.blob = Finalized(depVec)
  BY <1>1 DEF CInv, OutputSoFar
<1>3. /\ perms \in Seq(Perms) /\ DOMAIN perms = 1 .. Len(perms) /\ Len(perms) \in Nat
      /\ cursor \in 1 .. Len(perms) + 1
  BY DEF TInv, TypeOK
<1>4. /\ call \in Calls /\ perms = Clean!Perm(call) /\ opts = Clean!Opts(call)
      /\ ~Script(files[call.source], call.override).dup
      /\ \A i \in DOMAIN perms : results[i] = Clean!Compiled(call, i)
      /\ Clean!Failed(call) = {i \in DOMAIN perms : ~Surviving(i)}
  BY <1>1, AsScratch
<1>5. /\ BadBefore(cursor) = Clean!Failed(call)
      /\ GoodBefore(cursor) = DOMAIN perms \ Clean!Failed(call)
  BY <1>2, <1>3, <1>4 DEF GoodBefore, BadBefore
<1>6. PICK good \in Clean!InOrder(Len(perms), DOMAIN perms \ Clean!Failed(call)) :
        /\ out.compiled = [j \in DOMAIN good |-> perms[good[j]]]
        /\ Visible(entries) = [j \in DOMAIN good |->
              [key |-> Key(perms[good[j]]), code |-> results[good[j]].code]]
  BY <1>2, <1>5 DEF Accounted, ListedBefore
<1>7. PICK bad \in Clean!InOrder(Len(perms), Clean!Failed(call)) :
        out.failures = [j \in DOMAIN bad |-> perms[bad[j]]]
  BY <1>2, <1>5 DEF Accounted, ListedBefore
<1>8. out.compiled = Clean!Listed(call, good) /\ out.failures = Clean!Listed(call, bad)
  BY <1>4, <1>6, <1>7 DEF Clean!Listed
<1>9. \A j \in DOMAIN good : good[j] \in DOMAIN perms
  <2>1. DOMAIN perms \ Clean!Failed(call) \in SUBSET Nat
    BY <1>3
  <2>2. good \in [1..Len(good) -> DOMAIN perms \ Clean!Failed(call)]
    BY <1>3, <2>1, InOrderType
  <2> QED
    BY <2>2
<1>10. Visible(entries) = Clean!Entered(call, good)
  BY <1>4, <1>6, <1>9 DEF Clean!Entered
<1> DEFINE stored == IF disk' = None THEN None
                     ELSE [target |-> disk'.target, optionsHash |-> disk'.optionsHash,
                           entries |-> [n \in DOMAIN disk'.entries |->
                              [key |-> disk'.entries[n].key, code |-> disk'.entries[n].code]]]
<1>11. stored \in {Clean!CleanBlob(call, good), None}
  <2>1. CASE disk' = None
    BY <2>1
  <2>2. CASE disk' = Finalized(depVec)
    <3>1. /\ disk'.target = call.target /\ disk'.optionsHash = Fingerprint(opts)
          /\ disk'.entries = entries
      BY <2>2 DEF Finalized
    <3>2. [target |-> call.target, optionsHash |-> Fingerprint(opts), entries |-> Visible(entries)]
            = Clean!CleanBlob(call, good)
      BY <1>4, <1>10 DEF Clean!CleanBlob, Fingerprint, Clean!Fingerprint
    <3> QED
      BY <3>1, <3>2 DEF Visible
  <2> QED
    BY <1>1, <1>2, <2>1, <2>2
<1>12. call.keepGoing \/ Clean!Failed(call) = {}
  BY <1>2, <1>5 DEF Accounted
<1>13. [compiled |-> out'.compiled, failures |-> out'.failures]
         = [compiled |-> Clean!Listed(call, good), failures |-> Clean!Listed(call, bad)]
  BY <1>1, <1>8
<1>14. /\ good \in Clean!InOrder(Len(Clean!Perm(call)), DOMAIN Clean!Perm(call) \ Clean!Failed(call))
       /\ bad \in Clean!InOrder(Len(Clean!Perm(call)), Clean!Failed(call))
  BY <1>4, <1>6, <1>7
<1> QED
  BY ZenonT(60), <1>1, <1>4, <1>11, <1>12, <1>13, <1>14 DEF Clean!Build

LEMMA SeenCollect ==
    ASSUME TInv, Collect \/ (Kill /\ pc = "returned")
    PROVE  Clean!Collect
<1>1. pc = "returned" /\ pc' = "idle" /\ UNCHANGED <<files, disk>>
  BY DEF Collect, Kill, Forget
<1>2. [compiled |-> out.compiled, failures |-> out.failures] # None
  BY NoneAssumption DEF TInv, TypeOK, Outputs, Answers
<1> QED
  BY <1>1, <1>2 DEF Clean!Collect

LEMMA SeenLose ==
    ASSUME ~TornWrites, OpenTruncates \/ (Kill /\ pc = "write")
    PROVE  Clean!Lose
<1>1. pc \in {"open", "write"} /\ pc' # "returned" /\ UNCHANGED files /\ disk' = None
  BY TornIsLost DEF OpenTruncates, Kill, Forget
<1> QED
  BY <1>1 DEF Clean!Lose

LEMMA SeenStep ==
    ASSUME TInv, FInv, CInv, ~RacingEdits, ~TornWrites, [Next]_vars
    PROVE  [Clean!Next]_(Clean!vars)
<1>1. CASE UNCHANGED vars
  BY <1>1 DEF vars, working, Clean!vars
<1>2. ASSUME NEW c \in Calls, Call(c) PROVE UNCHANGED Clean!vars
  BY <1>2, Unseen DEF Call
<1>3. CASE Prepare
  <2>1. CASE RejectDuplicateAxes
    <3>1. call \in Calls
      BY <2>1 DEF RejectDuplicateAxes, TInv, Locals
    <3> QED
      BY <2>1, <3>1, SeenReject DEF Clean!Next
  <2>2. CASE ParseSource \/ FixOptions \/ LoadPrevious
    BY <2>2, Unseen DEF ParseSource, FixOptions, LoadPrevious
  <2> QED
    BY <1>3, <2>1, <2>2 DEF Prepare
<1>4. CASE Decide
  BY <1>4, Unseen DEF Decide, Reuse, QueueStale, QueueNew, ReuseDone
<1>5. CASE Compile
  BY <1>5, Unseen DEF Compile, CompileOne, CompileDone
<1>6. CASE Number
  BY <1>6, Unseen DEF Number, InternKnown, InternNew, InternSlotDone, InternDone, Numbering
<1>7. CASE Record
  <2>1. CASE StopAtFailure
    <3>1. call \in Calls
      BY <2>1 DEF StopAtFailure, TInv, Locals
    <3> QED
      BY <2>1, <3>1, SeenAbort DEF Clean!Next
  <2>2. CASE RecordEntry \/ RecordFailure \/ Finish
    BY <2>2, Unseen DEF RecordEntry, RecordFailure, Finish
  <2> QED
    BY <1>7, <2>1, <2>2 DEF Record
<1>8. CASE Write
  <2>1. CASE OpenTruncates
    BY <2>1, SeenLose DEF Clean!Next
  <2>2. CASE WriteAll \/ WriteShort
    <3>1. call \in Calls
      BY <2>2 DEF WriteAll, WriteShort, TInv, Locals
    <3>2. PICK c \in Calls : c = call
      BY <3>1
    <3>3. Clean!Build(c)
      BY <2>2, <3>2, SeenBuild
    <3> QED
      BY <3>3 DEF Clean!Next
  <2> QED
    BY <1>8, <2>1, <2>2 DEF Write
<1>9. CASE Collect
  BY <1>9, SeenCollect DEF Clean!Next
<1>10. CASE Throw
  BY <1>10, Unseen DEF Throw, Forget
<1>11. CASE Kill
  <2>1. CASE pc = "returned"
    BY <1>11, <2>1, SeenCollect DEF Clean!Next
  <2>2. CASE pc = "write"
    BY <1>11, <2>2, SeenLose DEF Clean!Next
  <2>3. CASE pc \notin {"returned", "write"}
    BY <1>11, <2>3, Unseen DEF Kill, Forget
  <2> QED
    BY <2>1, <2>2, <2>3
<1>12. ASSUME NEW path \in Paths, Edit(path) PROVE Clean!Next
  <2>1. Clean!Edit(path)
    BY <1>12 DEF Edit, Clean!Edit
  <2> QED
    BY <2>1 DEF Clean!Next
<1> QED
  BY <1>1, <1>2, <1>3, <1>4, <1>5, <1>6, <1>7, <1>8, <1>9, <1>10, <1>11, <1>12 DEF Next

\* Seen from outside, a call of compileFile is a build from scratch: for
\* every set of files, options, permutations and every compiler, when no file
\* changes during a call, a truncated blob is not readable and the output
\* file has one source, the Output and the code in the output file are those
\* of compiling every permutation now, whatever was reused, and a call that
\* fails, throws or dies leaves the old blob or none.
THEOREM SeenFromOutside ==
    ASSUME OneSource, ~RacingEdits, ~TornWrites
    PROVE  Spec => ImplementsCleanBuild
<1>1. Init => TInv /\ FInv /\ CInv /\ Clean!Init
  <2>1. Init => Clean!Init
    BY DEF Init, Clean!Init, FileStates, Clean!FileStates, MaybeContent, Clean!MaybeContent
  <2> QED
    BY <2>1, TypeInit, FreshInit, CleanInit
<1>2. TInv /\ FInv /\ CInv /\ [Next]_vars => TInv' /\ FInv' /\ CInv'
  BY TypeStep, FreshStep, CleanStep
<1>3. TInv /\ FInv /\ CInv /\ [Next]_vars => [Clean!Next]_(Clean!vars)
  BY SeenStep
<1> QED
  BY <1>1, <1>2, <1>3, PTL DEF Spec, ImplementsCleanBuild, Clean!Spec
=============================================================================
