-------------------------- MODULE CommandLineProofs --------------------------
(***************************************************************************)
(* TLAPS proofs about CommandLine, for any tree of sources with any texts, *)
(* any options, any earlier outputs and any order of the walk, and about   *)
(* the value lists of Directives, for lists of any length.                 *)
(***************************************************************************)
EXTENDS CommandLine, FiniteSetTheorems, SequenceTheorems, TLAPS

\* The source at f is compiled, not skipped.
Relevant(f) == cmd.isDirectory => IsSource(f)

Untouched == disk = [p \in cmd.old |-> Old]

Complete(f) ==
    /\ OutPath(f) \in DOMAIN disk
    /\ disk[OutPath(f)].from = f
    /\ disk[OutPath(f)].keys = ToSet(Keys(EffectiveAxes(f)))

\* The phases of main, and what they leave alone.
Phases ==
    /\ cmd \in Invocations
    /\ pc \in {"options", "paths"} => Untouched /\ outs = <<>> /\ exit = Running
    /\ pc \in {"paths", "walk"} => cmd.dump = "no"
    /\ pc = "walk" => exit = Running
    /\ pc \in {"options", "paths", "walk", "done"}
    /\ exit = 2 \/ cmd.dump # "no" => Untouched

\* During the walk and after it: every source is ahead or has an outcome, and
\* an outcome is final.
Progress ==
    /\ todo \subseteq Inputs
    /\ todo \cap DOMAIN outs = {}
    /\ DOMAIN outs \subseteq {f \in Inputs : Relevant(f)}
    /\ pc = "walk" => \A f \in Inputs : Relevant(f) => f \in todo \cup DOMAIN outs
    /\ exit = 0 /\ cmd.dump = "no" =>
         /\ \A f \in DOMAIN outs : ~outs[f]
         /\ \A f \in Inputs : Relevant(f) => f \in DOMAIN outs

\* A source without failures has had all of its permutations written.
Delivered == \A f \in DOMAIN outs : ~outs[f] => Complete(f)

Mirrored ==
    \A p \in DOMAIN disk : disk[p] # Old =>
      /\ disk[p].from \in DOMAIN outs
      /\ cmd.isDirectory => disk[p].from.dir = p.dir /\ disk[p].from.stem = p.stem
      /\ outs[disk[p].from] => cmd.keepGoing

CInv == Phases /\ Progress /\ Delivered /\ Mirrored

-----------------------------------------------------------------------------
\* Two sources of one walk do not share an output.
LEMMA OutPathsDiffer ==
    ASSUME cmd \in Invocations, NEW f \in Inputs, NEW g \in Inputs,
           Relevant(f), Relevant(g), OutPath(f) = OutPath(g)
    PROVE  f = g
<1>1. CASE cmd.isDirectory
  <2>1. f \in Paths /\ g \in Paths
    BY <1>1, InvocationAssumption DEF Inputs
  <2>2. f.ext = "slang" /\ g.ext = "slang"
    BY <1>1 DEF Relevant, IsSource
  <2>3. [f EXCEPT !.ext = "bin"] = [g EXCEPT !.ext = "bin"]
    BY <1>1 DEF OutPath
  <2>4. f.dir = g.dir /\ f.stem = g.stem
    BY <2>1, <2>3 DEF Paths
  <2> QED
    BY <2>1, <2>2, <2>4 DEF Paths
<1>2. CASE ~cmd.isDirectory
  BY <1>2 DEF Inputs
<1> QED
  BY <1>1, <1>2

\* The output of a source of a tree is where the source is.
LEMMA OutPathBeside ==
    ASSUME cmd \in Invocations, NEW f \in Inputs, cmd.isDirectory
    PROVE  OutPath(f).dir = f.dir /\ OutPath(f).stem = f.stem
<1>1. f \in Paths
  BY InvocationAssumption DEF Inputs
<1> QED
  BY <1>1 DEF OutPath, Paths

LEMMA CmdInit == Init => CInv
<1> SUFFICES ASSUME Init
             PROVE  CInv
  OBVIOUS
<1>1. /\ cmd \in Invocations /\ pc = "options" /\ todo = {} /\ outs = <<>>
      /\ Untouched /\ exit = Running /\ DOMAIN outs = {}
  BY DEF Init, Untouched
<1>2. \A p \in DOMAIN disk : disk[p] = Old
  BY <1>1 DEF Untouched
<1>3. Phases
  BY <1>1 DEF Phases, Running
<1>4. Progress
  BY <1>1 DEF Progress, Running
<1> QED
  BY <1>1, <1>2, <1>3, <1>4 DEF CInv, Delivered, Mirrored

\* Steps before the walk, and its end.
LEMMA OptionsKeep ==
    ASSUME CInv, Dump \/ RefuseOptions \/ TranslateOptions \/ RefuseOutput
    PROVE  CInv'
<1>1. /\ cmd' = cmd /\ todo' = todo /\ outs' = outs /\ disk' = disk
      /\ pc \in {"options", "paths"} /\ Untouched /\ outs = <<>> /\ DOMAIN outs = {}
  BY DEF CInv, Phases, Dump, RefuseOptions, TranslateOptions, RefuseOutput
<1>2. \/ pc' = "done" /\ exit' \in {0, 1} /\ cmd.dump # "no"
      \/ pc' = "done" /\ exit' = 2
      \/ pc' = "paths" /\ exit' = Running /\ cmd.dump = "no"
  BY DEF CInv, Phases, Dump, RefuseOptions, TranslateOptions, RefuseOutput, Exit
<1>3. Phases'
  BY <1>1, <1>2 DEF CInv, Phases, Untouched, Running
<1>4. Progress'
  <2>1. Inputs' = Inputs /\ \A f : Relevant(f)' <=> Relevant(f)
    BY <1>1 DEF Inputs, Relevant, IsSource
  <2> QED
    BY <1>1, <1>2, <2>1 DEF CInv, Progress, Running
<1>5. Delivered'
  BY <1>1 DEF Delivered
<1>6. Mirrored'
  BY <1>1 DEF CInv, Mirrored
<1> QED
  BY <1>3, <1>4, <1>5, <1>6 DEF CInv

LEMMA StartKeeps ==
    ASSUME CInv, StartWalk
    PROVE  CInv'
<1>1. /\ cmd' = cmd /\ todo' = Inputs /\ outs' = outs /\ disk' = disk /\ exit' = exit
      /\ pc = "paths" /\ pc' = "walk" /\ exit = Running /\ cmd.dump = "no"
      /\ Untouched /\ outs = <<>> /\ DOMAIN outs = {}
  BY DEF CInv, Phases, StartWalk
<1>2. Phases'
  BY <1>1 DEF CInv, Phases, Untouched
<1>3. Progress'
  <2>1. Inputs' = Inputs
    BY <1>1 DEF Inputs
  <2> QED
    BY <1>1, <2>1 DEF Progress, Running
<1>4. Delivered'
  BY <1>1 DEF Delivered
<1>5. Mirrored'
  BY <1>1 DEF CInv, Mirrored
<1> QED
  BY <1>2, <1>3, <1>4, <1>5 DEF CInv

LEMMA FinishKeeps ==
    ASSUME CInv, Finish
    PROVE  CInv'
<1>1. /\ cmd' = cmd /\ todo' = todo /\ outs' = outs /\ disk' = disk
      /\ pc = "walk" /\ pc' = "done" /\ todo = {} /\ cmd.dump = "no"
      /\ exit' = IF \E f \in DOMAIN outs : outs[f] THEN 1 ELSE 0
  BY DEF CInv, Phases, Finish, Exit
<1>2. Inputs' = Inputs /\ Untouched' = Untouched
  BY <1>1 DEF Inputs, Untouched
<1>3. \A f : Relevant(f)' <=> Relevant(f)
  BY <1>1 DEF Relevant, IsSource
<1>4. Phases'
  BY <1>1, <1>2 DEF CInv, Phases
<1>5. Progress'
  BY <1>1, <1>2, <1>3 DEF CInv, Progress
<1>6. Delivered'
  <2>1. UNCHANGED <<cmd, outs, disk, axes>>
    BY <1>1 DEF Finish
  <2> QED
    BY <2>1 DEF CInv, Delivered, Complete, OutPath, EffectiveAxes, FileAxes
<1>7. Mirrored'
  BY <1>1 DEF CInv, Mirrored
<1> QED
  BY <1>4, <1>5, <1>6, <1>7 DEF CInv

\* One directory entry is skipped, or one source gets its outcome.
LEMMA SkipKeeps ==
    ASSUME CInv, NEW f \in todo, SkipEntry(f)
    PROVE  CInv'
<1>1. /\ UNCHANGED <<cmd, pc, axes, exit, outs, disk>> /\ todo' = todo \ {f}
      /\ pc = "walk" /\ exit = Running /\ ~Relevant(f)
  BY DEF CInv, Phases, SkipEntry, Visited, Relevant
<1>2. Inputs' = Inputs /\ Untouched' = Untouched
  BY <1>1 DEF Inputs, Untouched
<1>3. \A g : Relevant(g)' <=> Relevant(g)
  BY <1>1 DEF Relevant, IsSource
<1>4. Phases'
  BY <1>1, <1>2 DEF CInv, Phases
<1>5. Progress'
  BY <1>1, <1>2, <1>3 DEF CInv, Progress, Running
<1>6. Delivered'
  BY <1>1 DEF CInv, Delivered, Complete, OutPath, EffectiveAxes, FileAxes
<1>7. Mirrored'
  BY <1>1 DEF CInv, Mirrored
<1> QED
  BY <1>4, <1>5, <1>6, <1>7 DEF CInv

LEMMA OutcomeKeeps ==
    ASSUME CInv, NEW f \in todo, Compiles(f), Visited(f), NEW failed \in BOOLEAN,
           outs' = [x \in DOMAIN outs \cup {f} |-> IF x = f THEN failed ELSE outs[x]]
    PROVE  Phases' /\ Progress'
<1>1. /\ UNCHANGED <<cmd, pc, axes, exit>> /\ todo' = todo \ {f}
      /\ pc = "walk" /\ exit = Running /\ cmd.dump = "no" /\ Relevant(f)
  BY DEF CInv, Phases, Compiles, Visited, Relevant
<1>2. Inputs' = Inputs /\ DOMAIN outs' = DOMAIN outs \cup {f}
  BY <1>1 DEF Inputs
<1>3. \A g : Relevant(g)' <=> Relevant(g)
  BY <1>1 DEF Relevant, IsSource
<1>4. Phases'
  BY <1>1 DEF CInv, Phases, Running
<1>5. Progress'
  BY <1>1, <1>2, <1>3 DEF CInv, Progress, Running
<1> QED
  BY <1>4, <1>5

LEMMA FailureKeeps ==
    ASSUME CInv, NEW f \in todo, RefuseAxes(f) \/ StopAtFailure(f)
    PROVE  CInv'
<1>1. Compiles(f) /\ Visited(f) /\ UNCHANGED <<cmd, axes, disk>>
  BY DEF RefuseAxes, StopAtFailure, Visited
<1>2. outs' = [x \in DOMAIN outs \cup {f} |-> IF x = f THEN TRUE ELSE outs[x]]
  BY DEF RefuseAxes, StopAtFailure, Fails
<1>3. Phases' /\ Progress'
  BY <1>1, <1>2, OutcomeKeeps
<1>4. f \notin DOMAIN outs
  BY DEF CInv, Progress
<1>5. Delivered'
  BY <1>1, <1>2, <1>4 DEF CInv, Delivered, Complete, OutPath, EffectiveAxes, FileAxes
<1>6. Mirrored'
  BY <1>1, <1>2, <1>4 DEF CInv, Mirrored
<1> QED
  BY <1>3, <1>5, <1>6 DEF CInv

LEMMA WriteKeeps ==
    ASSUME CInv, NEW f \in todo, NEW failed \in SUBSET DOMAIN Keys(EffectiveAxes(f)),
           NEW whole \in BOOLEAN, WriteOutput(f, failed, whole)
    PROVE  CInv'
<1> DEFINE keys == Keys(EffectiveAxes(f))
           entry == [from |-> f, keys |-> {keys[i] : i \in DOMAIN keys \ failed}, whole |-> whole]
<1>1. /\ Compiles(f) /\ Visited(f) /\ UNCHANGED <<cmd, axes>>
      /\ failed # {} => cmd.keepGoing
      /\ disk' = [p \in DOMAIN disk \cup {OutPath(f)} |->
                    IF p = OutPath(f) THEN entry ELSE disk[p]]
      /\ outs' = [x \in DOMAIN outs \cup {f} |-> IF x = f THEN failed # {} ELSE outs[x]]
  BY DEF WriteOutput, Visited
<1>2. Phases' /\ Progress'
  BY <1>1, OutcomeKeeps
<1>3. /\ f \notin DOMAIN outs /\ f \in Inputs /\ DOMAIN outs \subseteq Inputs
      /\ cmd \in Invocations /\ Relevant(f) /\ \A g \in DOMAIN outs : Relevant(g)
  BY <1>1 DEF CInv, Phases, Progress, Compiles, Relevant
<1>4. Delivered'
  <2> SUFFICES ASSUME NEW g \in DOMAIN outs', ~outs'[g]
               PROVE  Complete(g)'
    BY DEF Delivered
  <2>1. /\ OutPath(g)' = OutPath(g) /\ OutPath(f)' = OutPath(f)
        /\ EffectiveAxes(g)' = EffectiveAxes(g)
    BY <1>1 DEF OutPath, EffectiveAxes, FileAxes
  <2>2. CASE g = f
    <3>1. failed = {}
      BY <1>1, <2>2
    <3>2. entry.keys = ToSet(keys)
      BY <3>1 DEF ToSet
    <3>3. disk'[OutPath(f)] = entry /\ OutPath(f) \in DOMAIN disk'
      BY <1>1
    <3>4. entry.from = f /\ entry.keys = ToSet(keys)
      BY <3>2
    <3> QED
      BY <2>1, <2>2, <3>3, <3>4 DEF Complete
  <2>3. CASE g # f
    <3>1. g \in DOMAIN outs /\ ~outs[g]
      BY <1>1, <2>3
    <3>2. Complete(g)
      BY <3>1 DEF CInv, Delivered
    <3>3. OutPath(g) # OutPath(f)
      BY <1>3, <2>3, <3>1, OutPathsDiffer
    <3>4. OutPath(g) \in DOMAIN disk' /\ disk'[OutPath(g)] = disk[OutPath(g)]
      BY <1>1, <3>2, <3>3 DEF Complete
    <3> QED
      BY <2>1, <3>2, <3>4 DEF Complete
  <2> QED
    BY <2>2, <2>3
<1>5. Mirrored'
  <2> SUFFICES ASSUME NEW p \in DOMAIN disk', disk'[p] # Old
               PROVE  /\ disk'[p].from \in DOMAIN outs'
                      /\ cmd.isDirectory => disk'[p].from.dir = p.dir /\ disk'[p].from.stem = p.stem
                      /\ outs'[disk'[p].from] => cmd.keepGoing
    BY ZenonT(60), <1>1 DEF Mirrored
  <2>1. CASE p = OutPath(f)
    <3>1. disk'[p].from = f
      BY <1>1, <2>1
    <3>2. cmd.isDirectory => p.dir = f.dir /\ p.stem = f.stem
      BY <1>3, <2>1, OutPathBeside
    <3> QED
      BY <1>1, <3>1, <3>2
  <2>2. CASE p # OutPath(f)
    <3>1. p \in DOMAIN disk /\ disk'[p] = disk[p]
      BY <1>1, <2>2
    <3>2. /\ disk[p].from \in DOMAIN outs
          /\ cmd.isDirectory => disk[p].from.dir = p.dir /\ disk[p].from.stem = p.stem
          /\ outs[disk[p].from] => cmd.keepGoing
      BY <3>1 DEF CInv, Mirrored
    <3>3. disk[p].from # f
      BY <1>3, <3>2
    <3> QED
      BY <1>1, <3>1, <3>2, <3>3
  <2> QED
    BY <2>1, <2>2
<1> QED
  BY <1>2, <1>4, <1>5 DEF CInv

\* Nothing on disk changes when an exception ends the program.
LEMMA ThrowKeeps ==
    ASSUME CInv, NEW f \in todo, FileThrows(f)
    PROVE  CInv'
<1>1. /\ UNCHANGED <<cmd, axes, todo, outs, disk>> /\ pc = "walk" /\ cmd.dump = "no"
      /\ pc' = "done" /\ exit' = Aborted
  BY DEF CInv, Phases, FileThrows, Compiles, Exit
<1>2. Inputs' = Inputs
  BY <1>1 DEF Inputs
<1>3. \A g : Relevant(g)' <=> Relevant(g)
  BY <1>1 DEF Relevant, IsSource
<1>4. Phases'
  BY <1>1 DEF CInv, Phases, Aborted
<1>5. Progress'
  BY <1>1, <1>2, <1>3 DEF CInv, Progress, Aborted
<1>6. Delivered'
  BY <1>1 DEF CInv, Delivered, Complete, OutPath, EffectiveAxes, FileAxes
<1>7. Mirrored'
  BY <1>1 DEF CInv, Mirrored
<1> QED
  BY <1>4, <1>5, <1>6, <1>7 DEF CInv

LEMMA StutterKeeps ==
    ASSUME CInv, UNCHANGED vars
    PROVE  CInv'
<1>1. UNCHANGED <<cmd, pc, axes, todo, outs, disk, exit>>
  BY DEF vars
<1>2. Phases'
  BY <1>1 DEF CInv, Phases, Untouched
<1>3. Progress'
  BY <1>1 DEF CInv, Progress, Inputs, Relevant, IsSource
<1>4. Delivered'
  BY <1>1 DEF CInv, Delivered, Complete, OutPath, EffectiveAxes, FileAxes
<1>5. Mirrored'
  BY <1>1 DEF CInv, Mirrored
<1> QED
  BY <1>2, <1>3, <1>4, <1>5 DEF CInv

THEOREM CmdInvariant == Spec => []CInv
<1>1. CInv /\ [Next]_vars => CInv'
  <2> SUFFICES ASSUME CInv, [Next]_vars
               PROVE  CInv'
    OBVIOUS
  <2>1. CASE Dump \/ RefuseOptions \/ TranslateOptions \/ RefuseOutput
    BY <2>1, OptionsKeep
  <2>2. CASE StartWalk
    BY <2>2, StartKeeps
  <2>3. CASE Finish
    BY <2>3, FinishKeeps
  <2>4. ASSUME NEW f \in todo, SkipEntry(f)
        PROVE  CInv'
    BY <2>4, SkipKeeps
  <2>5. ASSUME NEW f \in todo, RefuseAxes(f) \/ StopAtFailure(f)
        PROVE  CInv'
    BY <2>5, FailureKeeps
  <2>6. ASSUME NEW f \in todo, FileThrows(f)
        PROVE  CInv'
    BY <2>6, ThrowKeeps
  <2>7. ASSUME NEW f \in todo, NEW failed \in SUBSET DOMAIN Keys(EffectiveAxes(f)),
               NEW whole \in BOOLEAN, WriteOutput(f, failed, whole)
        PROVE  CInv'
    BY <2>7, WriteKeeps
  <2>8. CASE UNCHANGED vars
    BY <2>8, StutterKeeps
  <2> QED
    BY <2>1, <2>2, <2>3, <2>4, <2>5, <2>6, <2>7, <2>8 DEF Next
<1> QED
  BY <1>1, CmdInit, PTL DEF Spec

-----------------------------------------------------------------------------
\* However the program ends, an output on disk is an earlier one or that of
\* the source with the same relative path, and no failed source has touched
\* its output without --keep-going (CommandLine's OutputsMirrorSources).
THEOREM OutputsStayInPlace == Spec => []OutputsMirrorSources
<1>1. CInv => OutputsMirrorSources
  <2> SUFFICES ASSUME CInv
               PROVE  OutputsMirrorSources
    OBVIOUS
  <2>1. exit = 2 \/ cmd.dump # "no" => disk = [p \in cmd.old |-> Old]
    BY DEF CInv, Phases, Untouched
  <2> QED
    BY <2>1 DEF CInv, Mirrored, OutputsMirrorSources
<1> QED
  BY <1>1, CmdInvariant, PTL

\* Exit code 0 means that every source of the tree has been compiled completely
\* and written, in whatever order the walk met them, and that nothing but a
\* write the disk cut short can be missing (CommandLine's ExitZeroMeansBuilt).
THEOREM ZeroMeansBuilt == Spec => []ExitZeroMeansBuilt
<1>1. CInv => ExitZeroMeansBuilt
  <2> SUFFICES ASSUME CInv, exit = 0, cmd.dump = "no",
                      NEW f \in DOMAIN cmd.tree, cmd.isDirectory => IsSource(f)
               PROVE  Complete(f)
    BY DEF ExitZeroMeansBuilt, Complete
  <2>1. f \in Inputs
    BY InvocationAssumption DEF CInv, Phases, Inputs
  <2>2. f \in DOMAIN outs /\ ~outs[f]
    BY <2>1 DEF CInv, Progress, Relevant
  <2> QED
    BY <2>2 DEF CInv, Delivered
<1> QED
  BY <1>1, CmdInvariant, PTL

-----------------------------------------------------------------------------
(* Functions that are defined by recursion over an interval.               *)

Least(h, S) == h \in S /\ \A g \in S : h <= g

LEMMA LeastExists ==
    ASSUME NEW n \in Nat, NEW S \in SUBSET (1 .. n), S # {}
    PROVE  \E h : Least(h, S)
<1> DEFINE N == 1 .. n
           T == {1 .. x : x \in S}
           R == StrictSubsetOrdering(N)
<1>1. IsFiniteSet(N)
  BY FS_Interval
<1>2. T \subseteq SUBSET N
  <2>1. \A x \in S : x \in 1 .. n
    OBVIOUS
  <2>2. \A x \in S : 1 .. x \subseteq 1 .. n
    BY <2>1
  <2> QED
    BY <2>2
<1>3. T \subseteq FiniteSubsetsOf(N) /\ T # {}
  <2>1. T # {}
    OBVIOUS
  <2> HIDE DEF T, N
  <2>2. \A t \in T : t \in SUBSET N
    BY <1>2
  <2>3. \A t \in T : IsFiniteSet(t)
    BY <1>1, <2>2, FS_Subset
  <2> QED
    BY <2>1, <2>2, <2>3 DEF FiniteSubsetsOf
<1>4. IsWellFoundedOn(R, FiniteSubsetsOf(N))
  BY FS_StrictSubsetOrderingWellFounded
<1> HIDE DEF R
<1>5. \E t \in T : \A y \in T : <<y, t>> \notin R
  <2> HIDE DEF T, N
  <2> QED
    BY <1>3, <1>4, WFMin
<1>6. PICK x \in S : \A y \in T : <<y, 1 .. x>> \notin R
  BY <1>5
<1>7. ASSUME NEW g \in S, g < x
      PROVE  FALSE
  <2>1. 1 .. g \in SUBSET N /\ 1 .. x \in SUBSET N
    BY <1>2
  <2>2. 1 .. g \subseteq 1 .. x /\ x \in 1 .. x /\ x \notin 1 .. g
    BY <1>7
  <2>3. <<1 .. g, 1 .. x>> \in R
    BY <2>1, <2>2 DEF R, StrictSubsetOrdering
  <2> QED
    BY <1>6, <2>3
<1>8. \A g \in S : x <= g
  BY <1>7
<1> QED
  BY <1>8 DEF Least

\* Induction up to N, for a set.
LEMMA IntervalInduction ==
    ASSUME NEW N \in Nat, NEW S, 0 \in S, \A n \in 1 .. N : n - 1 \in S => n \in S
    PROVE  \A n \in 0 .. N : n \in S
<1> DEFINE T == {k \in 1 .. N : k \notin S}
<1>1. ASSUME T # {} PROVE FALSE
  <2>1. T \in SUBSET (1 .. N)
    OBVIOUS
  <2> HIDE DEF T
  <2>2. PICK h : Least(h, T)
    BY <1>1, <2>1, LeastExists
  <2>3. h \in T /\ h \in 1 .. N /\ \A g \in T : h <= g
    BY <2>1, <2>2 DEF Least
  <2>4. h - 1 \in S
    <3>1. CASE h = 1
      BY <3>1
    <3>2. CASE h # 1
      <4>1. h - 1 \in 1 .. N /\ ~(h <= h - 1)
        BY <2>3, <3>2
      <4>2. h - 1 \notin T
        BY <2>3, <4>1
      <4> QED
        BY <4>1, <4>2 DEF T
    <3> QED
      BY <3>1, <3>2
  <2>5. h \in S
    BY <2>3, <2>4
  <2> QED
    BY <2>3, <2>5 DEF T
<1>2. \A n \in 1 .. N : n \in S
  BY <1>1
<1>3. \A n \in 0 .. N : n = 0 \/ n \in 1 .. N
  OBVIOUS
<1> QED
  BY <1>2, <1>3

-----------------------------------------------------------------------------
(* The scanner of value lists.                                             *)

ScanStates ==
    {st \in [depth : [Openers -> Nat], angle : Nat, quote : Quotes \cup {""}, escape : BOOLEAN] :
       st.escape => st.quote # ""}

LEMMA Brackets ==
    /\ Closers = {")", "]", "}"} /\ Openers = {"(", "[", "{"}
    /\ OpenerOf[")"] = "(" /\ OpenerOf["]"] = "[" /\ OpenerOf["}"] = "{"
    /\ \A c \in Closers : OpenerOf[c] \in Openers
BY DEF OpenerOf, Closers, Openers

LEMMA StartState == ScanStart \in ScanStates /\ Flat(ScanStart) /\ ScanStart.quote = ""
BY DEF ScanStart, ScanStates, Flat

\* A flat state outside quotes is the one a scan starts with.
LEMMA FlatIsStart ==
    ASSUME NEW st \in ScanStates, Flat(st), st.quote = ""
    PROVE  st = ScanStart
<1>1. st.depth = [b \in Openers |-> 0]
  BY DEF ScanStates, Flat
<1>2. st.angle = 0 /\ st.escape = FALSE
  BY DEF ScanStates, Flat
<1> QED
  BY <1>1, <1>2 DEF ScanStates, ScanStart

LEMMA ScanCharState ==
    ASSUME NEW st \in ScanStates, NEW ch, NEW nesting
    PROVE  ScanChar(st, ch, nesting) \in ScanStates
<1>1. /\ st.depth \in [Openers -> Nat] /\ st.angle \in Nat
      /\ st.quote \in Quotes \cup {""} /\ st.escape \in BOOLEAN
      /\ st.escape => st.quote # ""
      /\ st = [depth |-> st.depth, angle |-> st.angle, quote |-> st.quote, escape |-> st.escape]
  BY DEF ScanStates
<1>2. CASE st.quote # ""
  <2>1. ScanChar(st, ch, nesting) \in {st, [st EXCEPT !.escape = FALSE],
                                       [st EXCEPT !.escape = TRUE],
                                       [st EXCEPT !.escape = FALSE, !.quote = ""]}
    <3>1. ~st.escape /\ ch # "\\" /\ ch = st.quote
          => ScanChar(st, ch, nesting) = [st EXCEPT !.quote = ""]
      BY <1>2 DEF ScanChar
    <3>2. ~st.escape => [st EXCEPT !.quote = ""] = [st EXCEPT !.escape = FALSE, !.quote = ""]
      BY <1>1
    <3> QED
      BY <1>2, <3>1, <3>2 DEF ScanChar
  <2> QED
    BY ZenonT(60), <1>1, <1>2, <2>1 DEF ScanStates
<1>3. CASE st.quote = "" /\ ch \in Openers
  <2>1. ch \notin Quotes /\ ch # "<" /\ ch # ">" /\ ch \notin Closers
    BY <1>3, Brackets DEF Quotes
  <2>2. ScanChar(st, ch, nesting) = [st EXCEPT !.depth[ch] = @ + 1]
    BY <1>3, <2>1 DEF ScanChar
  <2> DEFINE d == [st.depth EXCEPT ![ch] = @ + 1]
  <2>5. st.depth \in [Openers -> Nat] /\ st.depth[ch] \in Nat
    BY <1>1, <1>3
  <2>3. d \in [Openers -> Nat]
    <3> DEFINE e == st.depth
    <3>1. e \in [Openers -> Nat] /\ e[ch] + 1 \in Nat
      <4> HIDE DEF e
      <4>1. e[ch] \in Nat
        BY <2>5 DEF e
      <4> QED
        BY <4>1, <2>5 DEF e
    <3> HIDE DEF e
    <3>2. [e EXCEPT ![ch] = @ + 1] \in [Openers -> Nat]
      BY <3>1
    <3> QED
      BY <3>2 DEF e
  <2>4. ScanChar(st, ch, nesting) = [st EXCEPT !.depth = d]
    BY <2>2
  <2> HIDE DEF d
  <2> QED
    BY <1>1, <2>3, <2>4 DEF ScanStates
<1>4. CASE st.quote = "" /\ ch \in Closers /\ st.depth[OpenerOf[ch]] > 0
  <2>1. ch \notin Quotes /\ ch # "<" /\ ch # ">" /\ ch \notin Openers
    BY <1>4, Brackets DEF Quotes
  <2>2. ScanChar(st, ch, nesting) = [st EXCEPT !.depth[OpenerOf[ch]] = @ - 1]
    BY <1>4, <2>1 DEF ScanChar
  <2> DEFINE o == OpenerOf[ch]
             d == [st.depth EXCEPT ![o] = @ - 1]
  <2>3. o \in Openers
    BY <1>4, Brackets
  <2>4. ScanChar(st, ch, nesting) = [st EXCEPT !.depth = d]
    BY <2>2
  <2>5. st.depth[o] > 0
    BY <1>4
  <2> HIDE DEF o
  <2>6. st.depth \in [Openers -> Nat] /\ st.depth[o] \in Nat
    BY <1>1, <2>3
  <2>7. d \in [Openers -> Nat]
    <3>1. st.depth[o] - 1 \in Nat
      BY <2>5, <2>6
    <3> QED
      BY <2>6, <3>1
  <2> HIDE DEF d
  <2> QED
    BY <1>1, <2>4, <2>7 DEF ScanStates
<1>5. CASE st.quote = "" /\ ch \notin Openers /\ ~(ch \in Closers /\ st.depth[OpenerOf[ch]] > 0)
  <2>1. ScanChar(st, ch, nesting) \in
          {st, [st EXCEPT !.angle = @ + 1]}
          \cup (IF st.angle > 0 THEN {[st EXCEPT !.angle = @ - 1]} ELSE {})
          \cup (IF ch \in Quotes THEN {[st EXCEPT !.quote = ch]} ELSE {})
    <3>1. [st EXCEPT !.angle = @] = st
      BY <1>1
    <3>2. CASE ch \in Quotes
      <4>1. ScanChar(st, ch, nesting) = [st EXCEPT !.quote = ch]
        BY <1>5, <3>2 DEF ScanChar, Quotes
      <4> QED
        BY <3>2, <4>1
    <3>3. CASE ch \notin Quotes
      BY <1>5, <3>1, <3>3 DEF ScanChar
    <3> QED
      BY <3>2, <3>3
  <2>2. /\ [st EXCEPT !.angle = @ + 1] \in ScanStates
        /\ st.angle > 0 => [st EXCEPT !.angle = @ - 1] \in ScanStates
    <3>1. st.angle + 1 \in Nat /\ (st.angle > 0 => st.angle - 1 \in Nat)
      <4> DEFINE a == st.angle
      <4>1. a \in Nat
        BY <1>1
      <4> HIDE DEF a
      <4>2. a + 1 \in Nat /\ (a > 0 => a - 1 \in Nat)
        BY <4>1
      <4> QED
        BY <4>2 DEF a
    <3> QED
      BY <1>1, <1>5, <3>1 DEF ScanStates
  <2>3. ch \in Quotes => [st EXCEPT !.quote = ch] \in ScanStates
    BY <1>1, <1>5 DEF ScanStates
  <2> QED
    BY <2>1, <2>2, <2>3
<1> QED
  BY <1>1, <1>2, <1>3, <1>4, <1>5

\* A character that is neither a quote nor a bracket changes nothing outside
\* quotes, and ends none.
Plain == Blank \cup {NewLine, ","}

LEMMA PlainChar ==
    ASSUME NEW st \in ScanStates, NEW ch \in Plain, NEW nesting
    PROVE  /\ st.quote = "" => ScanChar(st, ch, nesting) = st
           /\ st.quote # "" => ScanChar(st, ch, nesting).quote # ""
<1>1. /\ ch \in {" ", "\t", "\r", "\n", ","}
      /\ ch \notin Quotes /\ ch \notin Openers /\ ch \notin Closers /\ ch # "<" /\ ch # ">"
  BY Brackets DEF Plain, Blank, NewLine, Quotes
<1>2. st.quote = "" => ScanChar(st, ch, nesting) = st
  BY <1>1 DEF ScanChar
<1>3. ASSUME st.quote # "" PROVE ScanChar(st, ch, nesting).quote # ""
  <2>1. st.quote \in Quotes /\ ch # st.quote
    BY <1>1, <1>3 DEF ScanStates
  <2> QED
    BY <2>1, <1>3 DEF ScanChar, ScanStates
<1> QED
  BY <1>2, <1>3

\* The states of a scan, by recursion from the first.
Scan(f, s, a, n, nesting) ==
    f = [i \in a .. n |-> IF i = a THEN ScanStart ELSE ScanChar(f[i - 1], s[i - 1], nesting)]

\* The scan takes these characters one by one.
Takes(f, s, i, n, nesting) == \A k \in i .. n : f[k + 1] = ScanChar(f[k], s[k], nesting)

LEMMA ScanIs ==
    ASSUME NEW a \in Nat, NEW n \in Nat, a <= n, NEW s, NEW nesting, NEW f,
           DOMAIN f = a .. n, f = [i \in DOMAIN f |-> f[i]], f[a] = ScanStart,
           Takes(f, s, a, n - 1, nesting)
    PROVE  Scan(f, s, a, n, nesting)
<1>1. ASSUME NEW i \in a .. n
      PROVE  f[i] = IF i = a THEN ScanStart ELSE ScanChar(f[i - 1], s[i - 1], nesting)
  <2>1. CASE i = a
    BY <2>1
  <2>2. CASE i # a
    <3> DEFINE k == i - 1
    <3>1. k \in a .. n - 1 /\ k + 1 = i
      BY <2>2
    <3> HIDE DEF k
    <3>2. f[k + 1] = ScanChar(f[k], s[k], nesting)
      BY <3>1 DEF Takes
    <3> QED
      BY <2>2, <3>1, <3>2 DEF k
  <2> QED
    BY <2>1, <2>2
<1> QED
  BY <1>1 DEF Scan

LEMMA ScanTakes ==
    ASSUME NEW a \in Nat, NEW n \in Nat, a <= n, NEW s, NEW nesting, NEW f, Scan(f, s, a, n, nesting)
    PROVE  DOMAIN f = a .. n /\ f[a] = ScanStart /\ Takes(f, s, a, n - 1, nesting)
<1>1. DOMAIN f = a .. n
  BY DEF Scan
<1>2. a \in a .. n
  OBVIOUS
<1>3. f[a] = ScanStart
  BY <1>2 DEF Scan
<1>4. ASSUME NEW k \in a .. n - 1 PROVE f[k + 1] = ScanChar(f[k], s[k], nesting)
  <2>1. k + 1 \in a .. n /\ k + 1 # a /\ (k + 1) - 1 = k
    OBVIOUS
  <2>2. f[k + 1] = ScanChar(f[(k + 1) - 1], s[(k + 1) - 1], nesting)
    BY <2>1 DEF Scan
  <2> QED
    BY <2>1, <2>2
<1> QED
  BY <1>1, <1>3, <1>4 DEF Takes

LEMMA ScanExists ==
    ASSUME NEW a \in Nat, NEW N \in Nat, NEW s, NEW nesting
    PROVE  \E f : Scan(f, s, a, a + N, nesting)
<1> DEFINE S == {k \in 0 .. N : \E f : Scan(f, s, a, a + k, nesting)}
<1>1. \E f : Scan(f, s, a, a + 0, nesting)
  <2> DEFINE f == [i \in a .. a |-> ScanStart]
  <2>1. DOMAIN f = a .. a /\ f[a] = ScanStart /\ f = [i \in DOMAIN f |-> f[i]]
    OBVIOUS
  <2> HIDE DEF f
  <2>2. Takes(f, s, a, a - 1, nesting)
    BY DEF Takes
  <2>4. a + 0 = a /\ a <= a
    OBVIOUS
  <2>3. Scan(f, s, a, a, nesting)
    BY <2>1, <2>2, <2>4, ScanIs
  <2> QED
    BY <2>3, <2>4
<1>2. ASSUME NEW k \in 1 .. N, NEW f, Scan(f, s, a, a + (k - 1), nesting)
      PROVE  \E g : Scan(g, s, a, a + k, nesting)
  <2> DEFINE m == a + (k - 1)
             v == ScanChar(f[m], s[m], nesting)
             g == [i \in a .. m + 1 |-> IF i = m + 1 THEN v ELSE f[i]]
  <2>1. m \in Nat /\ m + 1 \in Nat /\ a <= m /\ a <= m + 1 /\ a + k = m + 1 /\ a # m + 1
    OBVIOUS
  <2>2. f[a] = ScanStart /\ Takes(f, s, a, m - 1, nesting)
    <3>1. Scan(f, s, a, m, nesting)
      BY <1>2
    <3> HIDE DEF m
    <3> QED
      BY <2>1, <3>1, ScanTakes
  <2> HIDE DEF m, v
  <2>3. /\ DOMAIN g = a .. m + 1 /\ g[m + 1] = v /\ g = [i \in DOMAIN g |-> g[i]]
        /\ \A i \in a .. m : g[i] = f[i]
    BY <2>1
  <2> HIDE DEF g
  <2>4. ASSUME NEW i \in a .. m PROVE g[i + 1] = ScanChar(g[i], s[i], nesting)
    <3>1. g[i] = f[i]
      BY <2>3
    <3>2. CASE i = m
      BY <2>3, <3>1, <3>2 DEF v
    <3>3. CASE i # m
      <4>1. i \in a .. m - 1 /\ i + 1 \in a .. m
        BY <2>1, <3>3
      <4>2. f[i + 1] = ScanChar(f[i], s[i], nesting)
        BY <2>2, <4>1 DEF Takes
      <4> QED
        BY <2>3, <3>1, <4>1, <4>2
    <3> QED
      BY <3>2, <3>3
  <2>5. g[a] = ScanStart
    <3>1. a \in a .. m
      BY <2>1
    <3> QED
      BY <2>2, <2>3, <3>1
  <2>6. Takes(g, s, a, (m + 1) - 1, nesting)
    <3>1. (m + 1) - 1 = m
      BY <2>1
    <3> QED
      BY <2>4, <3>1 DEF Takes
  <2>7. Scan(g, s, a, m + 1, nesting)
    BY <2>1, <2>3, <2>5, <2>6, ScanIs
  <2> QED
    BY <2>1, <2>7
<1>3. \A k \in 1 .. N : k - 1 \in S => k \in S
  <2> SUFFICES ASSUME NEW k \in 1 .. N, k - 1 \in S PROVE k \in S
    OBVIOUS
  <2>1. k \in 0 .. N
    OBVIOUS
  <2> QED
    BY <2>1, <1>2
<1>4. 0 \in S /\ N \in 0 .. N
  BY <1>1
<1>5. N \in S
  <2> HIDE DEF S
  <2> QED
    BY <1>3, <1>4, IntervalInduction
<1> QED
  BY <1>5

\* What ScanFrom is, for any text.
LEMMA ScanFromFacts ==
    ASSUME NEW C, NEW s \in Seq(C), NEW a \in 1 .. Len(s) + 1, NEW nesting, NEW at,
           at = ScanFrom(s, a, nesting)
    PROVE  /\ at[a] = ScanStart /\ Takes(at, s, a, Len(s), nesting)
           /\ \A i \in a .. Len(s) + 1 : at[i] \in ScanStates
<1> DEFINE n == Len(s) + 1
           N == n - a
<1>1. n \in Nat /\ N \in Nat /\ a + N = n /\ a \in Nat /\ a <= n /\ n - 1 = Len(s) /\ Len(s) \in Nat
  OBVIOUS
<1>2. at = CHOOSE f : Scan(f, s, a, n, nesting)
  BY DEF ScanFrom, Scan
<1> HIDE DEF n
<1>3. \E f : Scan(f, s, a, n, nesting)
  <2> HIDE DEF N
  <2> QED
    BY <1>1, ScanExists
<1>4. Scan(at, s, a, n, nesting)
  BY <1>2, <1>3
<1>5. at[a] = ScanStart /\ Takes(at, s, a, n - 1, nesting)
  BY <1>1, <1>4, ScanTakes
<1> DEFINE S == {k \in 0 .. N : at[a + k] \in ScanStates}
<1>6. 0 \in S
  <2>1. 0 \in 0 .. N /\ a + 0 = a
    BY <1>1
  <2>2. at[a + 0] \in ScanStates
    BY <2>1, <1>5, StartState
  <2> QED
    BY <2>1, <2>2
<1>7. ASSUME NEW k \in 1 .. N, k - 1 \in S PROVE k \in S
  <2> DEFINE m == a + (k - 1)
  <2>1. m \in a .. n - 1 /\ m + 1 = a + k /\ k \in 0 .. N
    BY <1>1
  <2>2. at[m] \in ScanStates
    BY <1>7
  <2> HIDE DEF m
  <2>3. at[m + 1] = ScanChar(at[m], s[m], nesting)
    BY <1>5, <2>1 DEF Takes
  <2> QED
    BY <2>1, <2>2, <2>3, ScanCharState
<1>8. \A k \in 0 .. N : k \in S
  <2> HIDE DEF S, N
  <2> QED
    BY <1>1, <1>6, <1>7, IntervalInduction
<1>9. ASSUME NEW i \in a .. n PROVE at[i] \in ScanStates
  <2>1. i - a \in 0 .. N /\ a + (i - a) = i
    BY <1>1
  <2>2. i - a \in S
    BY <1>8, <2>1
  <2> QED
    BY <2>1, <2>2
<1> QED
  BY <1>1, <1>5, <1>9 DEF n

Same(s, i, t, j, m)  == \A k \in 0 .. m - 1 : s[i + k] = t[j + k]
Agree(f, i, g, j, m) == \A k \in 0 .. m : f[i + k] = g[j + k]
IsPlain(s, i, m)     == \A k \in 0 .. m - 1 : s[i + k] \in Plain
Outside(st)          == st.quote = ""
States(f, i, m)      == \A k \in 0 .. m : f[i + k] \in ScanStates

\* The same characters from the same state: the same states.
LEMMA ScansAgree ==
    ASSUME NEW s, NEW t, NEW i \in Nat, NEW j \in Nat, NEW m \in Nat, NEW nesting, NEW at, NEW bt,
           Takes(at, s, i, i + m - 1, nesting), Takes(bt, t, j, j + m - 1, nesting),
           at[i] = bt[j], Same(s, i, t, j, m)
    PROVE  Agree(at, i, bt, j, m)
<1> DEFINE S == {k \in 0 .. m : at[i + k] = bt[j + k]}
<1>1. 0 \in S
  <2>1. i + 0 = i /\ j + 0 = j /\ 0 \in 0 .. m
    OBVIOUS
  <2> QED
    BY <2>1
<1>2. ASSUME NEW n \in 1 .. m, n - 1 \in S PROVE n \in S
  <2> DEFINE k == n - 1
  <2>1. k \in 0 .. m - 1 /\ n \in 0 .. m /\ at[i + k] = bt[j + k] /\ s[i + k] = t[j + k]
    <3>1. k \in 0 .. m - 1 /\ n \in 0 .. m
      OBVIOUS
    <3>2. k \in S
      BY <1>2
    <3> HIDE DEF k
    <3> QED
      BY <3>1, <3>2 DEF Same
  <2>2. /\ i + k \in i .. i + m - 1 /\ j + k \in j .. j + m - 1
        /\ (i + k) + 1 = i + n /\ (j + k) + 1 = j + n
    OBVIOUS
  <2> HIDE DEF k
  <2>3. /\ at[(i + k) + 1] = ScanChar(at[i + k], s[i + k], nesting)
        /\ bt[(j + k) + 1] = ScanChar(bt[j + k], t[j + k], nesting)
    BY <2>2 DEF Takes
  <2>4. at[(i + k) + 1] = bt[(j + k) + 1]
    BY <2>1, <2>3
  <2> QED
    BY <2>1, <2>2, <2>4
<1>3. \A k \in 0 .. m : k \in S
  <2> HIDE DEF S
  <2> QED
    BY <1>1, <1>2, IntervalInduction
<1> QED
  BY <1>3 DEF Agree

\* Blanks and commas: outside quotes the state stays, and quotes stay open.
LEMMA PlainRun ==
    ASSUME NEW s, NEW i \in Nat, NEW m \in Nat, NEW nesting, NEW at,
           Takes(at, s, i, i + m - 1, nesting), IsPlain(s, i, m), States(at, i, m)
    PROVE  /\ Outside(at[i]) => at[i + m] = at[i]
           /\ ~Outside(at[i]) => ~Outside(at[i + m])
<1> DEFINE S == {k \in 0 .. m : /\ Outside(at[i]) => at[i + k] = at[i]
                                /\ ~Outside(at[i]) => ~Outside(at[i + k])}
<1>1. 0 \in S
  <2>1. i + 0 = i /\ 0 \in 0 .. m
    OBVIOUS
  <2> QED
    BY <2>1
<1>2. ASSUME NEW n \in 1 .. m, n - 1 \in S PROVE n \in S
  <2> DEFINE k == n - 1
  <2>1. /\ k \in 0 .. m - 1 /\ k \in 0 .. m /\ n \in 0 .. m /\ s[i + k] \in Plain
        /\ Outside(at[i]) => at[i + k] = at[i]
        /\ ~Outside(at[i]) => ~Outside(at[i + k])
    <3>1. k \in 0 .. m - 1 /\ k \in 0 .. m /\ n \in 0 .. m
      OBVIOUS
    <3>2. k \in S
      BY <1>2
    <3> HIDE DEF k
    <3> QED
      BY <3>1, <3>2 DEF IsPlain
  <2>2. i + k \in i .. i + m - 1 /\ (i + k) + 1 = i + n
    OBVIOUS
  <2> HIDE DEF k
  <2>3. at[(i + k) + 1] = ScanChar(at[i + k], s[i + k], nesting)
    BY <2>2 DEF Takes
  <2>4. at[i + k] \in ScanStates
    BY <2>1 DEF States
  <2>5. /\ Outside(at[i + k]) => ScanChar(at[i + k], s[i + k], nesting) = at[i + k]
        /\ ~Outside(at[i + k]) => ~Outside(ScanChar(at[i + k], s[i + k], nesting))
    BY <2>1, <2>4, PlainChar DEF Outside
  <2>6. at[i + n] = ScanChar(at[i + k], s[i + k], nesting)
    BY <2>2, <2>3
  <2> QED
    BY <2>1, <2>5, <2>6
<1>3. \A k \in 0 .. m : k \in S
  <2> HIDE DEF S
  <2> QED
    BY <1>1, <1>2, IntervalInduction
<1>4. m \in 0 .. m
  OBVIOUS
<1> QED
  BY <1>3, <1>4

-----------------------------------------------------------------------------
(* The least and the greatest of a set of positions.                       *)

LEMMA MinIs ==
    ASSUME NEW n \in Nat, NEW S \in SUBSET (1 .. n), S # {}
    PROVE  Min(S) \in S /\ \A x \in S : Min(S) <= x
<1>1. PICK h : Least(h, S)
  BY LeastExists
<1>2. h \in S /\ \A x \in S : h <= x
  BY <1>1 DEF Least
<1>3. Min(S) = CHOOSE x \in S : \A y \in S : x <= y
  BY DEF Min
<1> QED
  BY <1>2, <1>3

LEMMA MaxIs ==
    ASSUME NEW n \in Nat, NEW S \in SUBSET (0 .. n), S # {}
    PROVE  Max(S) \in S /\ \A x \in S : x <= Max(S)
<1> DEFINE T == {n + 1 - x : x \in S}
<1>1. T \in SUBSET (1 .. n + 1) /\ T # {}
  <2>1. \A x \in S : n + 1 - x \in 1 .. n + 1
    OBVIOUS
  <2> QED
    BY <2>1
<1>2. PICK h : Least(h, T)
  <2> HIDE DEF T
  <2>1. n + 1 \in Nat
    OBVIOUS
  <2> QED
    BY <1>1, <2>1, LeastExists
<1>3. h \in T /\ \A y \in T : h <= y
  BY <1>2 DEF Least
<1>4. PICK g \in S : h = n + 1 - g
  BY <1>3
<1>5. ASSUME NEW x \in S PROVE x <= g
  <2>1. n + 1 - x \in T
    OBVIOUS
  <2>2. n + 1 - g <= n + 1 - x
    BY <1>3, <1>4, <2>1
  <2>3. x \in 0 .. n /\ g \in 0 .. n
    OBVIOUS
  <2> QED
    BY <2>2, <2>3
<1>6. \A x \in S : g >= x
  BY <1>5
<1>7. Max(S) = CHOOSE x \in S : \A y \in S : x >= y
  BY DEF Max
<1>8. Max(S) \in S /\ \A y \in S : Max(S) >= y
  BY <1>6, <1>7
<1> QED
  BY <1>8

\* The results of the loop up to each of 0 .. n.
Loop(f, xs, n) ==
    f = [k \in 0 .. n |->
          IF k = 0 THEN <<>> ELSE IF k \in DOMAIN xs THEN Append(f[k - 1], xs[k]) ELSE f[k - 1]]

LEMMA LoopValues ==
    ASSUME NEW n \in Nat, NEW xs, NEW f, Loop(f, xs, n)
    PROVE  /\ DOMAIN f = 0 .. n /\ f[0] = <<>>
           /\ \A k \in 1 .. n : f[k] = IF k \in DOMAIN xs THEN Append(f[k - 1], xs[k]) ELSE f[k - 1]
<1> DEFINE V(k) == IF k = 0 THEN <<>> ELSE IF k \in DOMAIN xs THEN Append(f[k - 1], xs[k]) ELSE f[k - 1]
<1>1. f = [k \in 0 .. n |-> V(k)]
  BY DEF Loop
<1>2. 0 \in 0 .. n /\ \A k \in 1 .. n : k \in 0 .. n /\ k # 0
  OBVIOUS
<1>3. DOMAIN f = 0 .. n /\ \A k \in 0 .. n : f[k] = V(k)
  <2> HIDE DEF V
  <2> QED
    BY <1>1
<1>4. f[0] = <<>>
  BY <1>2, <1>3
<1>5. ASSUME NEW k \in 1 .. n
      PROVE  f[k] = IF k \in DOMAIN xs THEN Append(f[k - 1], xs[k]) ELSE f[k - 1]
  BY <1>2, <1>3
<1> QED
  BY <1>3, <1>4, <1>5

LEMMA LoopIs ==
    ASSUME NEW n \in Nat, NEW xs, NEW f, DOMAIN f = 0 .. n, f = [k \in DOMAIN f |-> f[k]], f[0] = <<>>,
           \A k \in 1 .. n : f[k] = IF k \in DOMAIN xs THEN Append(f[k - 1], xs[k]) ELSE f[k - 1]
    PROVE  Loop(f, xs, n)
<1> DEFINE V(k) == IF k = 0 THEN <<>> ELSE IF k \in DOMAIN xs THEN Append(f[k - 1], xs[k]) ELSE f[k - 1]
<1>1. ASSUME NEW k \in 0 .. n PROVE f[k] = V(k)
  <2>1. CASE k = 0
    BY <2>1
  <2>2. CASE k # 0
    <3>1. k \in 1 .. n
      BY <2>2
    <3> QED
      BY <2>2, <3>1
  <2> QED
    BY <2>1, <2>2
<1> HIDE DEF V
<1>2. f = [k \in 0 .. n |-> V(k)]
  BY <1>1
<1> QED
  BY <1>2 DEF Loop, V

LEMMA LoopExists ==
    ASSUME NEW N \in Nat, NEW xs
    PROVE  \E f : Loop(f, xs, N)
<1> DEFINE S == {n \in 0 .. N : \E f : Loop(f, xs, n)}
<1>1. \E f : Loop(f, xs, 0)
  <2> DEFINE f == [i \in 0 .. 0 |-> <<>>]
  <2>1. DOMAIN f = 0 .. 0 /\ f[0] = <<>> /\ f = [k \in DOMAIN f |-> f[k]]
    OBVIOUS
  <2> HIDE DEF f
  <2>2. Loop(f, xs, 0)
    BY <2>1, LoopIs
  <2> QED
    BY <2>2
<1>2. ASSUME NEW n \in 1 .. N, NEW f, Loop(f, xs, n - 1) PROVE \E g : Loop(g, xs, n)
  <2> DEFINE v == IF n \in DOMAIN xs THEN Append(f[n - 1], xs[n]) ELSE f[n - 1]
             g == [i \in 0 .. n |-> IF i = n THEN v ELSE f[i]]
  <2>1. /\ n - 1 \in Nat /\ f[0] = <<>>
        /\ \A k \in 1 .. n - 1 : f[k] = IF k \in DOMAIN xs THEN Append(f[k - 1], xs[k]) ELSE f[k - 1]
    BY <1>2, LoopValues
  <2> HIDE DEF v
  <2>2. DOMAIN g = 0 .. n /\ g[n] = v /\ g = [k \in DOMAIN g |-> g[k]] /\ \A i \in 0 .. n - 1 : g[i] = f[i]
    OBVIOUS
  <2> HIDE DEF g
  <2>3. ASSUME NEW k \in 1 .. n
        PROVE  g[k] = IF k \in DOMAIN xs THEN Append(g[k - 1], xs[k]) ELSE g[k - 1]
    <3>1. g[k - 1] = f[k - 1]
      BY <2>2
    <3>2. CASE k = n
      BY <2>2, <3>1, <3>2 DEF v
    <3>3. CASE k # n
      <4>1. k \in 1 .. n - 1 /\ k \in 0 .. n - 1
        BY <3>3
      <4> QED
        BY <2>1, <2>2, <3>1, <4>1
    <3> QED
      BY <3>2, <3>3
  <2>4. g[0] = <<>>
    BY <2>1, <2>2
  <2>5. Loop(g, xs, n)
    BY <2>2, <2>3, <2>4, LoopIs
  <2> QED
    BY <2>5
<1>3. \A n \in 1 .. N : n - 1 \in S => n \in S
  <2> SUFFICES ASSUME NEW n \in 1 .. N, n - 1 \in S PROVE n \in S
    OBVIOUS
  <2>1. n \in 0 .. N
    OBVIOUS
  <2> QED
    BY <2>1, <1>2
<1>4. 0 \in S /\ N \in 0 .. N
  BY <1>1
<1>5. N \in S
  <2> HIDE DEF S
  <2> QED
    BY <1>3, <1>4, IntervalInduction
<1> QED
  BY <1>5

LEMMA LoopUnique ==
    ASSUME NEW n \in Nat, NEW N \in Nat, n <= N, NEW xs, NEW f, Loop(f, xs, n), NEW g, Loop(g, xs, N)
    PROVE  f[n] = g[n]
<1> DEFINE S == {k \in 0 .. n : f[k] = g[k]}
<1>1. /\ f[0] = <<>> /\ g[0] = <<>>
      /\ \A k \in 1 .. n : f[k] = IF k \in DOMAIN xs THEN Append(f[k - 1], xs[k]) ELSE f[k - 1]
      /\ \A k \in 1 .. N : g[k] = IF k \in DOMAIN xs THEN Append(g[k - 1], xs[k]) ELSE g[k - 1]
  BY LoopValues
<1>2. 0 \in S
  BY <1>1
<1>3. ASSUME NEW k \in 1 .. n, k - 1 \in S PROVE k \in S
  <2>1. k \in 0 .. n /\ k \in 1 .. N /\ f[k - 1] = g[k - 1]
    BY <1>3
  <2>2. f[k] = IF k \in DOMAIN xs THEN Append(f[k - 1], xs[k]) ELSE f[k - 1]
    BY <1>1
  <2>3. g[k] = IF k \in DOMAIN xs THEN Append(g[k - 1], xs[k]) ELSE g[k - 1]
    BY <1>1, <2>1
  <2> QED
    BY <2>1, <2>2, <2>3
<1>4. n \in S
  <2> HIDE DEF S
  <2> QED
    BY <1>2, <1>3, IntervalInduction
<1> QED
  BY <1>4

LEMMA PushBacksAre ==
    ASSUME NEW n \in Nat, NEW xs
    PROVE  \E f : Loop(f, xs, n) /\ PushBacks(xs, n) = f[n]
<1> DEFINE f == CHOOSE f : Loop(f, xs, n)
<1>1. Loop(f, xs, n)
  BY LoopExists
<1>2. PushBacks(xs, n) = f[n]
  BY DEF PushBacks, Loop
<1> QED
  BY <1>1, <1>2

\* The loop one element at a time.
LEMMA PushBacksNext ==
    ASSUME NEW n \in Nat, NEW xs
    PROVE  /\ PushBacks(xs, 0) = <<>>
           /\ n + 1 \in DOMAIN xs => PushBacks(xs, n + 1) = Append(PushBacks(xs, n), xs[n + 1])
           /\ n + 1 \notin DOMAIN xs => PushBacks(xs, n + 1) = PushBacks(xs, n)
<1>1. PushBacks(xs, 0) = <<>>
  BY PushBacksAre, LoopValues
<1>2. PICK f : Loop(f, xs, n) /\ PushBacks(xs, n) = f[n]
  BY PushBacksAre
<1>3. n + 1 \in Nat /\ n + 1 \in 1 .. n + 1 /\ (n + 1) - 1 = n /\ n <= n + 1
  OBVIOUS
<1>4. PICK g : Loop(g, xs, n + 1) /\ PushBacks(xs, n + 1) = g[n + 1]
  BY <1>3, PushBacksAre
<1>5. g[n] = f[n]
  BY <1>2, <1>3, <1>4, LoopUnique
<1>6. g[n + 1] = IF n + 1 \in DOMAIN xs THEN Append(g[(n + 1) - 1], xs[n + 1]) ELSE g[(n + 1) - 1]
  BY <1>3, <1>4, LoopValues
<1>7. g[n + 1] = IF n + 1 \in DOMAIN xs THEN Append(g[n], xs[n + 1]) ELSE g[n]
  BY <1>6, <1>3
<1> QED
  BY <1>1, <1>2, <1>4, <1>5, <1>7

LEMMA PushBacksSeq ==
    ASSUME NEW N \in Nat, NEW S, NEW xs, \A k \in DOMAIN xs : xs[k] \in S
    PROVE  \A n \in 0 .. N : PushBacks(xs, n) \in Seq(S)
<1> DEFINE T == {n \in 0 .. N : PushBacks(xs, n) \in Seq(S)}
<1>1. 0 \in T
  <2>1. PushBacks(xs, 0) = <<>>
    BY PushBacksNext
  <2>2. <<>> \in Seq(S)
    BY EmptySeq
  <2>3. 0 \in 0 .. N
    OBVIOUS
  <2> QED
    BY <2>1, <2>2, <2>3
<1>2. ASSUME NEW n \in 1 .. N, n - 1 \in T PROVE n \in T
  <2>1. n - 1 \in Nat /\ (n - 1) + 1 = n /\ n \in 0 .. N /\ PushBacks(xs, n - 1) \in Seq(S)
    BY <1>2
  <2>2. /\ n \in DOMAIN xs => PushBacks(xs, n) = Append(PushBacks(xs, n - 1), xs[n])
        /\ n \notin DOMAIN xs => PushBacks(xs, n) = PushBacks(xs, n - 1)
    <3> DEFINE m == n - 1
    <3>1. m \in Nat /\ m + 1 = n
      BY <2>1
    <3> HIDE DEF m
    <3>2. /\ m + 1 \in DOMAIN xs => PushBacks(xs, m + 1) = Append(PushBacks(xs, m), xs[m + 1])
          /\ m + 1 \notin DOMAIN xs => PushBacks(xs, m + 1) = PushBacks(xs, m)
      BY <3>1, PushBacksNext
    <3> QED
      BY <3>1, <3>2 DEF m
  <2>3. CASE n \in DOMAIN xs
    <3>1. xs[n] \in S
      BY <2>3
    <3>2. Append(PushBacks(xs, n - 1), xs[n]) \in Seq(S)
      BY <2>1, <3>1
    <3> QED
      BY <2>1, <2>2, <2>3, <3>2
  <2>4. CASE n \notin DOMAIN xs
    BY <2>1, <2>2, <2>4
  <2> QED
    BY <2>3, <2>4
<1>3. \A n \in 0 .. N : n \in T
  <2> HIDE DEF T
  <2> QED
    BY <1>1, <1>2, IntervalInduction
<1> QED
  BY <1>3

\* The loop over a single element.
LEMMA OnePushed ==
    ASSUME NEW n \in Nat \ {0}, NEW x
    PROVE  PushBacks([i \in {n} |-> x], n) = <<x>>
<1> DEFINE xs == [i \in {n} |-> x]
           S == {k \in 0 .. n - 1 : PushBacks(xs, k) = <<>>}
<1>1. DOMAIN xs = {n} /\ xs[n] = x
  OBVIOUS
<1> HIDE DEF xs
<1>2. 0 \in S
  BY PushBacksNext
<1>3. ASSUME NEW k \in 1 .. n - 1, k - 1 \in S PROVE k \in S
  <2> DEFINE m == k - 1
  <2>1. m \in Nat /\ m + 1 = k /\ m + 1 # n /\ PushBacks(xs, m) = <<>>
    BY <1>3
  <2> HIDE DEF m
  <2>2. PushBacks(xs, m + 1) = PushBacks(xs, m)
    BY <1>1, <2>1, PushBacksNext
  <2> QED
    BY <2>1, <2>2
<1>4. n - 1 \in Nat /\ n - 1 \in 0 .. n - 1 /\ (n - 1) + 1 = n
  OBVIOUS
<1>5. PushBacks(xs, n - 1) = <<>>
  <2>1. n - 1 \in S
    <3> HIDE DEF S
    <3> QED
      BY <1>2, <1>3, <1>4, IntervalInduction
  <2> QED
    BY <2>1
<1>6. PushBacks(xs, n) = Append(PushBacks(xs, n - 1), x)
  <2> DEFINE m == n - 1
  <2>1. m \in Nat /\ m + 1 = n
    BY <1>4
  <2> HIDE DEF m
  <2>2. PushBacks(xs, m + 1) = Append(PushBacks(xs, m), xs[m + 1])
    BY <1>1, <2>1, PushBacksNext
  <2> QED
    BY <1>1, <2>1, <2>2 DEF m
<1>7. Append(<<>>, x) = <<x>>
  OBVIOUS
<1>8. PushBacks(xs, n) = <<x>>
  BY <1>5, <1>6, <1>7
<1> QED
  BY <1>8 DEF xs

-----------------------------------------------------------------------------
(* Blanks around a value.                                                  *)

Space == Blank \cup {NewLine}

\* What is left of s when the blanks are gone.
Inked(s, lo, hi) ==
    /\ lo \in 1 .. Len(s) /\ hi \in 1 .. Len(s) /\ lo <= hi
    /\ s[lo] \notin Space /\ s[hi] \notin Space
    /\ \A k \in 1 .. Len(s) : k < lo \/ k > hi => s[k] \in Space

LEMMA TrimFacts ==
    ASSUME NEW C, NEW s \in Seq(C), Trim(s) # <<>>
    PROVE  \E lo, hi : Inked(s, lo, hi) /\ Trim(s) = SubSeq(s, lo, hi)
<1> DEFINE ink == {i \in 1 .. Len(s) : s[i] \notin Space}
<1>1. Trim(s) = IF ink = {} THEN <<>> ELSE SubSeq(s, Min(ink), Max(ink))
  BY DEF Trim, Space
<1>2. ink # {} /\ ink \in SUBSET (1 .. Len(s)) /\ Len(s) \in Nat
  BY <1>1
<1> DEFINE lo == Min(ink)
           hi == Max(ink)
<1>3. lo \in ink /\ \A x \in ink : lo <= x
  <2> HIDE DEF ink
  <2> QED
    BY <1>2, MinIs
<1>4. hi \in ink /\ \A x \in ink : x <= hi
  <2>1. ink \in SUBSET (0 .. Len(s))
    BY <1>2
  <2> HIDE DEF ink
  <2> QED
    BY <1>2, <2>1, MaxIs
<1>5. Trim(s) = SubSeq(s, lo, hi)
  BY <1>1, <1>2
<1> HIDE DEF lo, hi
<1>6. ASSUME NEW k \in 1 .. Len(s), k < lo \/ k > hi PROVE s[k] \in Space
  <2>1. k \notin ink
    BY <1>3, <1>4, <1>6
  <2> QED
    BY <2>1
<1>7. lo <= hi
  BY <1>3, <1>4
<1>8. Inked(s, lo, hi)
  BY <1>3, <1>4, <1>6, <1>7 DEF Inked
<1> QED
  BY <1>5, <1>8

LEMMA TrimTrimmed ==
    ASSUME NEW C, NEW s \in Seq(C), Inked(s, 1, Len(s))
    PROVE  Trim(s) = s
<1> DEFINE ink == {i \in 1 .. Len(s) : s[i] \notin Space}
<1>1. Trim(s) = IF ink = {} THEN <<>> ELSE SubSeq(s, Min(ink), Max(ink))
  BY DEF Trim, Space
<1>2. 1 \in ink /\ Len(s) \in ink /\ ink \in SUBSET (1 .. Len(s)) /\ Len(s) \in Nat
  BY DEF Inked
<1>3. Min(ink) \in ink /\ \A x \in ink : Min(ink) <= x
  <2> HIDE DEF ink
  <2> QED
    BY <1>2, MinIs
<1>4. Max(ink) \in ink /\ \A x \in ink : x <= Max(ink)
  <2>1. ink \in SUBSET (0 .. Len(s))
    BY <1>2
  <2> HIDE DEF ink
  <2> QED
    BY <1>2, <2>1, MaxIs
<1>5. Min(ink) = 1 /\ Max(ink) = Len(s)
  <2> HIDE DEF ink
  <2>1. /\ Min(ink) \in 1 .. Len(s) /\ Max(ink) \in 1 .. Len(s)
        /\ Min(ink) <= 1 /\ Len(s) <= Max(ink)
    BY <1>2, <1>3, <1>4
  <2> QED
    BY <2>1, <1>2
<1>6. Trim(s) = SubSeq(s, 1, Len(s))
  BY <1>1, <1>2, <1>5
<1> QED
  BY <1>6, SubSeqFull

-----------------------------------------------------------------------------
(* The parts of ParseValueList.                                            *)

CutsOf(s, nesting) ==
    LET at == ScanFrom(s, 1, nesting)
    IN  {i \in 1 .. Len(s) : s[i] = "," /\ at[i].quote = "" /\ Flat(at[i])}

StartOf(s, nesting, i) == Max({0} \cup {c \in CutsOf(s, nesting) : c < i}) + 1

TokenAt(s, nesting, i) == Trim(SubSeq(s, StartOf(s, nesting, i), i - 1))

EndsOf(s, nesting) ==
    {i \in CutsOf(s, nesting) \cup {Len(s) + 1} : TokenAt(s, nesting, i) # <<>>}

\* Every bracket and quote of the list is closed, and none is closed too often.
Whole(s, nesting) ==
    LET at == ScanFrom(s, 1, nesting)
    IN  /\ \A i \in 1 .. Len(s) : ~Unmatched(at[i], s[i])
        /\ at[Len(s) + 1].quote = "" /\ Flat(at[Len(s) + 1])

LEMMA ParseIs ==
    ASSUME NEW s, NEW nesting
    PROVE  ParseValueList(s, nesting) =
             IF Whole(s, nesting)
             THEN PushBacks([i \in EndsOf(s, nesting) |-> TokenAt(s, nesting, i)], Len(s) + 1)
             ELSE NotAList
<1> DEFINE at       == ScanFrom(s, 1, nesting)
           n        == Len(s)
           cuts     == {i \in 1..n : s[i] = "," /\ at[i].quote = "" /\ Flat(at[i])}
           start(i) == Max({0} \cup {c \in cuts : c < i}) + 1
           token(i) == Trim(SubSeq(s, start(i), i - 1))
           ends     == {i \in cuts \cup {n + 1} : token(i) # <<>>}
           whole    == /\ \A i \in 1..n : ~Unmatched(at[i], s[i])
                       /\ at[n + 1].quote = "" /\ Flat(at[n + 1])
<1>1. cuts = CutsOf(s, nesting) /\ whole = Whole(s, nesting)
  BY DEF CutsOf, Whole
<1>2. \A i : token(i) = TokenAt(s, nesting, i)
  BY <1>1 DEF TokenAt, StartOf
<1>3. ends = EndsOf(s, nesting)
  <2> HIDE DEF token
  <2> QED
    BY <1>1, <1>2 DEF EndsOf
<1>4. ParseValueList(s, nesting) = IF whole THEN PushBacks([i \in ends |-> token(i)], n + 1) ELSE NotAList
  BY DEF ParseValueList
<1>5. [i \in ends |-> token(i)] = [i \in EndsOf(s, nesting) |-> TokenAt(s, nesting, i)]
  <2> HIDE DEF token, ends
  <2> QED
    BY <1>2, <1>3
<1> HIDE DEF whole, ends, token
<1> QED
  BY <1>1, <1>4, <1>5

\* A value is a stretch of the list in which nothing is cut; at both of its
\* ends every bracket and quote is closed.
Stretch(s, nesting, lo, hi) ==
    LET at == ScanFrom(s, 1, nesting)
    IN  /\ lo \in 1 .. Len(s) /\ hi \in 1 .. Len(s) /\ lo <= hi
        /\ s[lo] \notin Space /\ s[hi] \notin Space
        /\ at[lo] = ScanStart /\ at[hi + 1] = ScanStart
        /\ \A c \in CutsOf(s, nesting) : ~(lo <= c /\ c <= hi)

LEMMA ValueStretch ==
    ASSUME NEW C, NEW s \in Seq(C), NEW nesting, Whole(s, nesting), NEW e \in EndsOf(s, nesting)
    PROVE  \E lo, hi : Stretch(s, nesting, lo, hi) /\ TokenAt(s, nesting, e) = SubSeq(s, lo, hi)
<1> DEFINE at == ScanFrom(s, 1, nesting)
           n  == Len(s)
           K  == CutsOf(s, nesting)
           Z  == {0} \cup {c \in K : c < e}
           a  == Max(Z) + 1
           w  == SubSeq(s, a, e - 1)
<1>1. n \in Nat /\ 1 \in 1 .. n + 1
  OBVIOUS
<1>2. /\ at[1] = ScanStart /\ Takes(at, s, 1, n, nesting)
      /\ \A i \in 1 .. n + 1 : at[i] \in ScanStates
  BY <1>1, ScanFromFacts
<1>3. K = {i \in 1 .. n : s[i] = "," /\ at[i].quote = "" /\ Flat(at[i])}
  BY DEF CutsOf
<1>4. at[n + 1].quote = "" /\ Flat(at[n + 1])
  BY DEF Whole
<1>5. /\ e \in K \cup {n + 1} /\ TokenAt(s, nesting, e) # <<>> /\ TokenAt(s, nesting, e) = Trim(w)
  BY DEF EndsOf, TokenAt, StartOf
<1> HIDE DEF at, n, K
<1>30. K \subseteq 1 .. n
  BY <1>3
<1>6. e \in 1 .. n + 1
  BY <1>1, <1>5, <1>30
<1>31. at[e].quote = "" /\ Flat(at[e])
  BY <1>3, <1>4, <1>5
<1>7. Max(Z) \in Z /\ \A x \in Z : x <= Max(Z)
  <2>1. Z \in SUBSET (0 .. n) /\ Z # {}
    <3>1. 0 \in 0 .. n /\ \A x \in K : x \in 0 .. n
      BY <1>1, <1>30
    <3> QED
      BY <3>1
  <2> HIDE DEF Z
  <2> QED
    BY <1>1, <2>1, MaxIs
<1> DEFINE c == Max(Z)
<1>8. /\ c = 0 \/ (c \in K /\ c \in 1 .. n)
      /\ c < e
      /\ \A x \in K : x < e => x <= c
  <2>1. c \in Z /\ \A x \in Z : x <= c
    BY <1>7
  <2> HIDE DEF c
  <2>2. c = 0 \/ (c \in K /\ c < e)
    BY <2>1
  <2>3. 0 < e
    BY <1>1, <1>6
  <2>4. \A x \in K : x < e => x <= c
    BY <2>1
  <2> QED
    BY <2>2, <2>3, <2>4, <1>30
<1> HIDE DEF c, Z
<1>9. a \in 1 .. n + 1 /\ a <= e /\ a = c + 1
  <2>1. a = c + 1
    BY DEF c
  <2> QED
    BY <2>1, <1>1, <1>6, <1>8
<1> HIDE DEF a
<1>10. at[a] = ScanStart
  <2>1. CASE c = 0
    BY <2>1, <1>2, <1>9
  <2>2. CASE c # 0
    <3>1. c \in 1 .. n /\ s[c] = "," /\ at[c].quote = "" /\ Flat(at[c])
      BY <2>2, <1>3, <1>8
    <3>2. at[c] \in ScanStates
      <4>1. c \in 1 .. n + 1
        BY <2>2, <1>1, <1>8
      <4> QED
        BY <4>1, <1>2
    <3>3. at[c] = ScanStart
      BY <3>1, <3>2, FlatIsStart
    <3>4. at[c + 1] = ScanChar(at[c], s[c], nesting)
      BY <3>1, <1>2 DEF Takes
    <3>5. s[c] \in Plain
      BY <3>1 DEF Plain
    <3>6. at[c + 1] = at[c]
      BY <3>1, <3>2, <3>4, <3>5, PlainChar
    <3>7. a = c + 1
      BY <1>9
    <3> QED
      BY <3>3, <3>6, <3>7
  <2> QED
    BY <2>1, <2>2
<1>11. /\ w \in Seq(C) /\ Len(w) = e - a /\ \A i \in 1 .. e - a : w[i] = s[a + i - 1]
  <2>1. a \in 1 .. Len(s) + 1 /\ e - 1 \in a - 1 .. Len(s)
    BY <1>1, <1>6, <1>9 DEF n
  <2>2. /\ SubSeq(s, a, e - 1) \in Seq(C)
        /\ Len(SubSeq(s, a, e - 1)) = IF a <= e - 1 THEN (e - 1) - a + 1 ELSE 0
        /\ \A i \in 1 .. (e - 1) - a + 1 : SubSeq(s, a, e - 1)[i] = s[a + i - 1]
    BY SMTT(60), <2>1, SubSeqProperties
  <2>3. (e - 1) - a + 1 = e - a /\ (~(a <= e - 1) => e - a = 0)
    BY <1>1, <1>6, <1>9
  <2> QED
    BY <2>2, <2>3
<1>12. PICK l, h : Inked(w, l, h) /\ Trim(w) = SubSeq(w, l, h)
  <2> HIDE DEF w
  <2>1. Trim(w) # <<>>
    BY <1>5
  <2> QED
    BY <2>1, <1>11, TrimFacts
<1>13. /\ l \in 1 .. e - a /\ h \in 1 .. e - a /\ l <= h
       /\ w[l] \notin Space /\ w[h] \notin Space
       /\ \A k \in 1 .. e - a : k < l \/ k > h => w[k] \in Space
  <2> HIDE DEF w
  <2> QED
    BY <1>11, <1>12 DEF Inked
<1>32. l \in 1 .. e - a /\ h \in 1 .. e - a /\ l <= h
  BY <1>13
<1>33. n \in Nat /\ e \in Nat /\ a \in Nat /\ 1 <= a /\ a <= e /\ e <= n + 1
  BY <1>1, <1>6, <1>9
<1> DEFINE lo == a + l - 1
           hi == a + h - 1
<1>14. /\ lo \in 1 .. n /\ hi \in 1 .. n /\ lo <= hi /\ hi + 1 <= e
       /\ lo \in Nat /\ hi + 1 \in Nat /\ a <= lo
  <2> HIDE DEF w
  <2>1. l \in Nat /\ h \in Nat /\ 1 <= l /\ 1 <= h /\ l <= e - a /\ h <= e - a
    BY <1>32, <1>33
  <2> QED
    BY <2>1, <1>32, <1>33
<1>15. s[lo] \notin Space /\ s[hi] \notin Space
  <2> HIDE DEF w
  <2> QED
    BY <1>11, <1>13
<1>16. SubSeq(w, l, h) = SubSeq(s, lo, hi)
  <2>1. /\ a \in 1 .. Len(s) + 1 /\ e - 1 \in a - 1 .. Len(s)
    BY <1>1, <1>6, <1>9 DEF n
  <2>2. a \in Nat /\ e \in Nat
    BY <1>1, <1>6, <1>9
  <2> DEFINE j == e - 1
  <2>3. a \in 1 .. Len(s) /\ j \in 1 .. Len(s) /\ e - a = j - a + 1
    <3> HIDE DEF w
    <3>1. a < e
      BY <1>32, <1>33
    <3>2. a \in 1 .. n /\ j \in 1 .. n /\ e - a = j - a + 1
      BY <3>1, <1>33
    <3> QED
      BY <3>2 DEF n
  <2> HIDE DEF j
  <2>4. l \in 1 .. j - a + 1 /\ h \in 1 .. j - a + 1
    BY <2>3, <1>13
  <2>5. SubSeq(SubSeq(s, a, j), l, h) = SubSeq(s, a + l - 1, a + h - 1)
    BY <2>3, <2>4, SubSeqOfSubSeq
  <2> QED
    BY <2>5 DEF j
\* The characters of the list at the blanks around the value.
<1>17. \A k \in a .. e - 1 : k < lo \/ k > hi => s[k] \in Plain
  <2> SUFFICES ASSUME NEW k \in a .. e - 1, k < lo \/ k > hi PROVE s[k] \in Plain
    OBVIOUS
  <2> DEFINE i == k - a + 1
  <2>1. i \in 1 .. e - a /\ a + i - 1 = k /\ (i < l \/ i > h)
    <3>1. l \in Nat /\ h \in Nat
      BY <1>32, <1>33
    <3>2. k \in Nat /\ a <= k /\ k <= e - 1
      BY <1>33
    <3>3. i \in 1 .. e - a /\ a + i - 1 = k
      BY <3>2, <1>33
    <3> HIDE DEF w
    <3> QED
      BY <3>1, <3>2, <3>3, <1>33
  <2> HIDE DEF i, w
  <2>2. w[i] \in Space /\ w[i] = s[k]
    BY <2>1, <1>11, <1>13
  <2> QED
    BY <2>2 DEF Space, Plain
<1> HIDE DEF lo, hi, w
<1>18. at[lo] = ScanStart
  <2> DEFINE m == lo - a
  <2>1. m \in Nat /\ a \in Nat /\ a + m = lo /\ a + m - 1 <= n
    BY <1>1, <1>9, <1>14
  <2>2. Takes(at, s, a, a + m - 1, nesting)
    <3> SUFFICES ASSUME NEW k \in a .. a + m - 1 PROVE at[k + 1] = ScanChar(at[k], s[k], nesting)
      BY DEF Takes
    <3>1. k \in 1 .. n
      BY <2>1, <1>33
    <3> QED
      BY <3>1, <1>2 DEF Takes
  <2>3. IsPlain(s, a, m)
    <3> SUFFICES ASSUME NEW k \in 0 .. m - 1 PROVE s[a + k] \in Plain
      BY DEF IsPlain
    <3>1. a + k \in a .. e - 1 /\ a + k < lo
      BY <2>1, <1>1, <1>6, <1>14
    <3> QED
      BY <3>1, <1>17
  <2>4. States(at, a, m)
    <3> SUFFICES ASSUME NEW k \in 0 .. m PROVE at[a + k] \in ScanStates
      BY DEF States
    <3>1. a + k \in 1 .. n + 1
      BY <2>1, <1>33
    <3> QED
      BY <3>1, <1>2
  <2>5. Outside(at[a])
    BY <1>10, StartState DEF Outside
  <2> HIDE DEF m
  <2>6. /\ Outside(at[a]) => at[a + m] = at[a]
        /\ ~Outside(at[a]) => ~Outside(at[a + m])
    BY <2>1, <2>2, <2>3, <2>4, PlainRun
  <2>7. at[a + m] = at[a]
    BY <2>5, <2>6
  <2> QED
    BY <2>1, <2>7, <1>10
<1>19. at[hi + 1] = ScanStart
  <2> DEFINE b == hi + 1
             m == e - b
  <2>1. m \in Nat /\ b \in Nat /\ b + m = e /\ b + m - 1 <= n /\ b \in 1 .. n + 1 /\ a <= b /\ b > hi
    BY <1>1, <1>6, <1>9, <1>14
  <2> HIDE DEF b, m
  <2>2. Takes(at, s, b, b + m - 1, nesting)
    <3> SUFFICES ASSUME NEW k \in b .. b + m - 1 PROVE at[k + 1] = ScanChar(at[k], s[k], nesting)
      BY DEF Takes
    <3>1. k \in 1 .. n
      BY <2>1, <1>1
    <3> QED
      BY <3>1, <1>2 DEF Takes
  <2>3. IsPlain(s, b, m)
    <3> SUFFICES ASSUME NEW k \in 0 .. m - 1 PROVE s[b + k] \in Plain
      BY DEF IsPlain
    <3>1. b + k \in a .. e - 1 /\ b + k > hi
      BY <2>1, <1>1, <1>6, <1>9, <1>14
    <3> QED
      BY <3>1, <1>17
  <2>4. States(at, b, m)
    <3> SUFFICES ASSUME NEW k \in 0 .. m PROVE at[b + k] \in ScanStates
      BY DEF States
    <3>1. b + k \in 1 .. n + 1
      BY <2>1, <1>1, <1>6
    <3> QED
      BY <3>1, <1>2
  <2>6. /\ Outside(at[b]) => at[b + m] = at[b]
        /\ ~Outside(at[b]) => ~Outside(at[b + m])
    BY <2>1, <2>2, <2>3, <2>4, PlainRun
  <2>7. at[b].quote = "" /\ at[b] = at[e]
    <3>1. b + m = e
      BY <2>1
    <3>2. Outside(at[e])
      BY <1>31 DEF Outside
    <3>3. Outside(at[b]) /\ at[e] = at[b]
      BY <2>6, <3>1, <3>2
    <3> QED
      BY <3>3 DEF Outside
  <2>8. at[b] \in ScanStates
    BY <2>1, <1>2
  <2>9. at[b] = ScanStart
    BY <2>7, <2>8, <1>31, FlatIsStart
  <2> QED
    BY <2>9 DEF b
<1>20. \A x \in K : ~(lo <= x /\ x <= hi)
  <2> TAKE x \in K
  <2>1. x \in 1 .. n
    BY <1>30
  <2> QED
    BY <2>1, <1>1, <1>6, <1>8, <1>9, <1>14
<1>21. Stretch(s, nesting, lo, hi)
  BY <1>14, <1>15, <1>18, <1>19, <1>20 DEF Stretch, at, n, K
<1>22. TokenAt(s, nesting, e) = SubSeq(s, lo, hi)
  BY <1>5, <1>12, <1>16
<1> QED
  BY <1>21, <1>22

\* A value of a list is a list of that value.
LEMMA ValueAlone ==
    ASSUME NEW C, NEW s \in Seq(C), NEW nesting, Whole(s, nesting), NEW e \in EndsOf(s, nesting)
    PROVE  ParseValueList(TokenAt(s, nesting, e), nesting) = <<TokenAt(s, nesting, e)>>
<1> DEFINE at == ScanFrom(s, 1, nesting)
           v  == TokenAt(s, nesting, e)
           bt == ScanFrom(v, 1, nesting)
           n  == Len(v)
<1>1. PICK lo, hi : Stretch(s, nesting, lo, hi) /\ v = SubSeq(s, lo, hi)
  BY ValueStretch
<1>2. /\ lo \in 1 .. Len(s) /\ hi \in 1 .. Len(s) /\ lo <= hi /\ Len(s) \in Nat
      /\ s[lo] \notin Space /\ s[hi] \notin Space
      /\ at[lo] = ScanStart /\ at[hi + 1] = ScanStart
      /\ \A c \in CutsOf(s, nesting) : ~(lo <= c /\ c <= hi)
  BY <1>1 DEF Stretch
<1>3. /\ v \in Seq(C) /\ n = hi - lo + 1 /\ n \in Nat \ {0}
      /\ \A k \in 1 .. n : v[k] = s[lo + k - 1]
  <2>1. lo \in 1 .. Len(s) + 1 /\ hi \in lo - 1 .. Len(s)
    BY <1>2
  <2>2. /\ SubSeq(s, lo, hi) \in Seq(C)
        /\ Len(SubSeq(s, lo, hi)) = IF lo <= hi THEN hi - lo + 1 ELSE 0
        /\ \A k \in 1 .. hi - lo + 1 : SubSeq(s, lo, hi)[k] = s[lo + k - 1]
    BY <2>1, SubSeqProperties
  <2>3. hi - lo + 1 \in Nat \ {0}
    BY <1>2
  <2> HIDE DEF v
  <2> QED
    BY <1>1, <1>2, <2>2, <2>3
<1> HIDE DEF v
<1>4. /\ at[1] = ScanStart /\ Takes(at, s, 1, Len(s), nesting)
      /\ bt[1] = ScanStart /\ Takes(bt, v, 1, n, nesting)
  <2>1. 1 \in 1 .. Len(s) + 1 /\ 1 \in 1 .. Len(v) + 1
    BY <1>2, <1>3
  <2> QED
    BY <2>1, <1>3, ScanFromFacts
<1>5. CutsOf(s, nesting) = {i \in 1 .. Len(s) : s[i] = "," /\ at[i].quote = "" /\ Flat(at[i])}
      /\ CutsOf(v, nesting) = {i \in 1 .. n : v[i] = "," /\ bt[i].quote = "" /\ Flat(bt[i])}
  BY DEF CutsOf
<1>6. \A i \in 1 .. Len(s) : ~Unmatched(at[i], s[i])
  BY DEF Whole
<1>7. Whole(v, nesting) <=> /\ \A i \in 1 .. n : ~Unmatched(bt[i], v[i])
                            /\ bt[n + 1].quote = "" /\ Flat(bt[n + 1])
  BY DEF Whole
<1> HIDE DEF at, bt, n
<1>16. /\ lo \in Nat /\ hi \in Nat /\ 1 <= lo /\ lo <= hi /\ hi <= Len(s) /\ Len(s) \in Nat
       /\ n \in Nat \ {0} /\ n = hi - lo + 1
  BY <1>2, <1>3
<1>8. Agree(at, lo, bt, 1, n)
  <2>1. Takes(at, s, lo, lo + n - 1, nesting)
    <3> SUFFICES ASSUME NEW k \in lo .. lo + n - 1 PROVE at[k + 1] = ScanChar(at[k], s[k], nesting)
      BY DEF Takes
    <3>1. k \in 1 .. Len(s)
      BY <1>16
    <3> QED
      BY <3>1, <1>4 DEF Takes
  <2>2. Takes(bt, v, 1, 1 + n - 1, nesting)
    <3>1. 1 + n - 1 = n
      BY <1>3
    <3> QED
      BY <3>1, <1>4
  <2>3. Same(s, lo, v, 1, n)
    <3> SUFFICES ASSUME NEW k \in 0 .. n - 1 PROVE s[lo + k] = v[1 + k]
      BY DEF Same
    <3>1. 1 + k \in 1 .. n /\ lo + (1 + k) - 1 = lo + k
      BY <1>16
    <3> QED
      BY <3>1, <1>3
  <2>4. lo \in Nat /\ 1 \in Nat /\ n \in Nat
    BY <1>16
  <2>5. at[lo] = bt[1]
    BY <1>2, <1>4
  <2> QED
    BY <2>1, <2>2, <2>3, <2>4, <2>5, ScansAgree
<1>9. ASSUME NEW i \in 1 .. n
      PROVE  lo + i - 1 \in 1 .. Len(s) /\ bt[i] = at[lo + i - 1] /\ v[i] = s[lo + i - 1]
             /\ lo <= lo + i - 1 /\ lo + i - 1 <= hi
  <2> DEFINE k == i - 1
  <2>1. k \in 0 .. n /\ 1 + k = i /\ lo + k = lo + i - 1 /\ lo + i - 1 \in 1 .. Len(s)
        /\ lo <= lo + i - 1 /\ lo + i - 1 <= hi
    BY <1>16
  <2>2. at[lo + k] = bt[1 + k]
    BY <2>1, <1>8 DEF Agree
  <2> QED
    BY <2>1, <2>2, <1>3
<1>10. Whole(v, nesting)
  <2>1. \A i \in 1 .. n : ~Unmatched(bt[i], v[i])
    BY <1>6, <1>9
  <2>2. n \in 0 .. n /\ lo + n = hi + 1 /\ 1 + n = n + 1
    BY <1>16
  <2>3. bt[n + 1] = ScanStart
    BY <2>2, <1>2, <1>8 DEF Agree
  <2> QED
    BY <2>1, <2>3, <1>7, StartState
<1>11. CutsOf(v, nesting) = {}
  <2>1. ASSUME NEW i \in CutsOf(v, nesting) PROVE FALSE
    <3>1. i \in 1 .. n /\ v[i] = "," /\ bt[i].quote = "" /\ Flat(bt[i])
      BY <1>5, <2>1
    <3>2. lo + i - 1 \in CutsOf(s, nesting)
      BY <3>1, <1>5, <1>9
    <3> QED
      BY <3>1, <3>2, <1>2, <1>9
  <2> QED
    BY <2>1
<1>12. TokenAt(v, nesting, n + 1) = v
  <2>1. StartOf(v, nesting, n + 1) = 1
    <3>1. {0} \cup {c \in CutsOf(v, nesting) : c < n + 1} = {0}
      BY <1>11
    <3>2. Max({0}) = 0
      BY DEF Max
    <3>3. Max({0} \cup {c \in CutsOf(v, nesting) : c < n + 1}) = 0
      BY <3>1, <3>2
    <3>4. StartOf(v, nesting, n + 1) = Max({0} \cup {c \in CutsOf(v, nesting) : c < n + 1}) + 1
      BY DEF StartOf
    <3> QED
      BY <3>3, <3>4
  <2>2. SubSeq(v, 1, (n + 1) - 1) = v
    <3>1. (n + 1) - 1 = n
      BY <1>3
    <3> QED
      BY <3>1, <1>3, SubSeqFull DEF n
  <2>3. v[1] = s[lo] /\ v[n] = s[hi]
    <3>1. 1 \in 1 .. n /\ n \in 1 .. n /\ lo + 1 - 1 = lo /\ lo + n - 1 = hi
      BY <1>16
    <3> QED
      BY <3>1, <1>3
  <2>4. Inked(v, 1, n)
    <3>1. v[1] \notin Space /\ v[n] \notin Space
      BY <2>3, <1>2
    <3>2. 1 \in 1 .. n /\ n \in 1 .. n /\ 1 <= n /\ \A k \in 1 .. n : ~(k < 1 \/ k > n)
      BY <1>16
    <3> QED
      BY <3>1, <3>2 DEF Inked, n
  <2>5. Trim(v) = v
    BY <2>4, <1>3, TrimTrimmed DEF n
  <2> QED
    BY <2>1, <2>2, <2>5 DEF TokenAt
<1>13. EndsOf(v, nesting) = {n + 1}
  <2>1. v # <<>>
    BY <1>3 DEF n
  <2> QED
    BY <2>1, <1>11, <1>12 DEF EndsOf, n
<1>14. [i \in EndsOf(v, nesting) |-> TokenAt(v, nesting, i)] = [i \in {n + 1} |-> v]
  BY <1>12, <1>13
<1>15. ParseValueList(v, nesting) = PushBacks([i \in {n + 1} |-> v], n + 1)
  BY <1>10, <1>14, ParseIs DEF n
<1>17. n + 1 \in Nat \ {0}
  BY <1>16
<1> QED
  BY <1>15, <1>17, OnePushed DEF v

-----------------------------------------------------------------------------
(* A list as a directive.                                                  *)

Skipped(ch) == ch \in {" ", "\t"}

LEMMA NoBlankSkipped ==
    ASSUME NEW C, NEW s \in Seq(C), NEW i \in 1 .. Len(s), ~Skipped(s[i])
    PROVE  SkipWs(s, i) = i
<1> DEFINE here == {j \in i .. Len(s) : ~Skipped(s[j])}
<1>1. SkipWs(s, i) = IF here = {} THEN Len(s) + 1 ELSE Min(here)
  BY DEF SkipWs, FirstFrom, Skipped
<1>2. i \in here /\ here \subseteq i .. Len(s) /\ here \subseteq 1 .. Len(s) /\ Len(s) \in Nat
  OBVIOUS
<1> HIDE DEF here
<1>3. Min(here) \in here /\ \A x \in here : Min(here) <= x
  BY <1>2, MinIs
<1>4. Min(here) = i
  <2>1. Min(here) \in i .. Len(s) /\ Min(here) <= i
    BY <1>2, <1>3
  <2> QED
    BY <2>1
<1> QED
  BY <1>1, <1>2, <1>4

\* The last character closes a list.
Closed(s) == s[Len(s)] = "}"

LEMMA ListEnd ==
    ASSUME NEW C, NEW D, NEW list \in Seq(C), NEW line \in Seq(D), NEW nesting, Whole(list, nesting),
           Len(line) = Len(list) + 4, Closed(line),
           \A k \in 1 .. Len(list) : line[3 + k] = list[k]
    PROVE  FindListEnd(line, 4, nesting) = Len(line)
<1> DEFINE at == ScanFrom(line, 4, nesting)
           bt == ScanFrom(list, 1, nesting)
           m  == Len(list)
           n  == Len(line)
           here == {j \in 4 .. n : Unmatched(at[j], line[j])}
           i  == IF here = {} THEN n + 1 ELSE Min(here)
<1>1. m \in Nat /\ n \in Nat /\ n = 4 + m
  OBVIOUS
<1>2. at[4] = ScanStart /\ Takes(at, line, 4, n, nesting)
  <2>1. 4 \in 1 .. Len(line) + 1
    BY <1>1
  <2> QED
    BY <2>1, ScanFromFacts
<1>3. bt[1] = ScanStart /\ Takes(bt, list, 1, m, nesting)
  <2>1. 1 \in 1 .. Len(list) + 1
    BY <1>1
  <2> QED
    BY <2>1, ScanFromFacts
<1>4. (\A k \in 1 .. m : ~Unmatched(bt[k], list[k])) /\ bt[m + 1].quote = "" /\ Flat(bt[m + 1])
  BY DEF Whole
<1>5. FindListEnd(line, 4, nesting) = IF i <= n /\ line[i] = "}" /\ Flat(at[i]) THEN i ELSE 0
  BY DEF FindListEnd, FirstFrom
<1> HIDE DEF at, bt, m, n
<1>6. Agree(at, 4, bt, 1, m)
  <2>1. Takes(at, line, 4, 4 + m - 1, nesting)
    <3> SUFFICES ASSUME NEW k \in 4 .. 4 + m - 1 PROVE at[k + 1] = ScanChar(at[k], line[k], nesting)
      BY DEF Takes
    <3>1. k \in 4 .. n
      BY <1>1
    <3> QED
      BY <3>1, <1>2 DEF Takes
  <2>2. Takes(bt, list, 1, 1 + m - 1, nesting)
    <3>1. 1 + m - 1 = m
      BY <1>1
    <3> QED
      BY <3>1, <1>3
  <2>3. Same(line, 4, list, 1, m)
    <3> SUFFICES ASSUME NEW k \in 0 .. m - 1 PROVE line[4 + k] = list[1 + k]
      BY DEF Same
    <3>1. 1 + k \in 1 .. m /\ 3 + (1 + k) = 4 + k
      BY <1>1
    <3>2. line[3 + (1 + k)] = list[1 + k]
      BY <3>1 DEF m
    <3> QED
      BY <3>1, <3>2
  <2>4. at[4] = bt[1]
    BY <1>2, <1>3
  <2>5. 4 \in Nat /\ 1 \in Nat
    OBVIOUS
  <2> QED
    BY <2>1, <2>2, <2>3, <2>4, <2>5, <1>1, ScansAgree
<1>7. at[n].quote = "" /\ Flat(at[n])
  <2>1. m \in 0 .. m /\ 4 + m = n /\ 1 + m = m + 1
    BY <1>1
  <2>2. at[n] = bt[m + 1]
    BY <2>1, <1>6 DEF Agree
  <2> QED
    BY <2>2, <1>4
<1>8. Unmatched(at[n], line[n])
  <2>1. line[n] = "}"
    BY DEF n, Closed
  <2>2. at[n].depth["{"] = 0
    BY <1>7, Brackets DEF Flat
  <2> QED
    BY <2>1, <2>2, <1>7, Brackets DEF Unmatched
<1>9. ASSUME NEW j \in 4 .. n, j # n PROVE ~Unmatched(at[j], line[j])
  <2> DEFINE k == j - 4
  <2>1. k \in 0 .. m /\ 4 + k = j /\ 1 + k \in 1 .. m /\ 3 + (1 + k) = j
    BY <1>1, <1>9
  <2> HIDE DEF k
  <2>2. at[j] = bt[1 + k]
    BY <2>1, <1>6 DEF Agree
  <2>3. line[j] = list[1 + k]
    <3>1. line[3 + (1 + k)] = list[1 + k]
      BY <2>1 DEF m
    <3> QED
      BY <2>1, <3>1
  <2>4. ~Unmatched(bt[1 + k], list[1 + k])
    BY <2>1, <1>4
  <2> QED
    BY <2>2, <2>3, <2>4
<1>10. here = {n}
  <2>1. n \in 4 .. n
    BY <1>1
  <2> QED
    BY <2>1, <1>8, <1>9
<1>11. i = n
  <2>1. Min({n}) = n
    BY DEF Min
  <2> QED
    BY <2>1, <1>10
<1>12. n <= n /\ line[n] = "}"
  <2>1. n <= n
    BY <1>1
  <2>2. line[n] = "}"
    BY DEF n, Closed
  <2> QED
    BY <2>1, <2>2
<1> HIDE DEF i
<1> QED
  BY <1>5, <1>7, <1>11, <1>12 DEF n

\* An accepted option, written as a directive, is a directive with its axis.
LEMMA OptionAsDirective ==
    ASSUME NEW arg \in [kind : {"constant", "type"}, name : STRING, rest : Seq(STRING)], Accepted(arg),
           NEW m \in DOMAIN Markers, Markers[m] = [kind |-> arg.kind, name |-> arg.name]
    PROVE  ParseLine(<<"/", "/", m>> \o Tail(arg.rest)) = <<CliAxis(arg)>>
<1> DEFINE rest    == arg.rest
           n       == Len(rest)
           nesting == arg.kind = "type"
           list    == SubSeq(rest, 2, n - 1)
           slash   == "/"
           line    == <<slash, slash, m>> \o Tail(rest)
           values  == ParseValueList(list, nesting)
           D       == STRING \cup {m, slash}
<1>1. rest \in Seq(STRING) /\ n \in Nat
  OBVIOUS
<1>2. n >= 2
  BY DEF Accepted, CliAxis
<1>16. CliAxis(arg).values = values
  BY DEF Accepted, CliAxis
<1>17. Closed(rest)
  BY DEF Accepted, CliAxis, Closed
<1>3. CliAxis(arg) = [kind |-> arg.kind, name |-> arg.name, values |-> values]
  BY <1>16 DEF CliAxis
<1>4. values \notin {NotAList, <<>>}
  BY <1>16 DEF Accepted
<1>5. Whole(list, nesting)
  <2> HIDE DEF list, nesting
  <2> QED
    BY <1>4, ParseIs
<1>6. list \in Seq(STRING) /\ Len(list) = n - 2 /\ \A k \in 1 .. n - 2 : list[k] = rest[k + 1]
  <2>1. 2 \in 1 .. Len(rest) + 1 /\ n - 1 \in 2 - 1 .. Len(rest)
    BY <1>1, <1>2
  <2>2. /\ list \in Seq(STRING) /\ Len(list) = IF 2 <= n - 1 THEN (n - 1) - 2 + 1 ELSE 0
        /\ \A k \in 1 .. (n - 1) - 2 + 1 : list[k] = rest[2 + k - 1]
    BY <2>1, <1>1, SubSeqProperties
  <2> HIDE DEF list, n
  <2>3. (n - 1) - 2 + 1 = n - 2 /\ (~(2 <= n - 1) => n - 2 = 0)
    BY <1>1, <1>2
  <2>4. \A k \in 1 .. n - 2 : 2 + k - 1 = k + 1
    BY <1>1
  <2> QED
    BY <2>2, <2>3, <2>4
<1>7. /\ Tail(rest) \in Seq(D) /\ Len(Tail(rest)) = n - 1
      /\ \A k \in 1 .. n - 1 : Tail(rest)[k] = rest[k + 1]
  <2>1. rest # <<>>
    BY <1>1, <1>2
  <2>2. /\ Tail(rest) \in Seq(STRING) /\ Len(Tail(rest)) = n - 1
        /\ \A k \in 1 .. n - 1 : Tail(rest)[k] = rest[k + 1]
    BY <1>1, <2>1, HeadTailProperties
  <2>3. Tail(rest) \in Seq(D)
    BY <2>2, SeqMonotonic
  <2> QED
    BY <2>2, <2>3
<1>8. /\ line \in Seq(D) /\ Len(line) = n + 2
      /\ line[1] = slash /\ line[2] = slash /\ line[3] = m
      /\ \A k \in 1 .. n - 1 : line[3 + k] = rest[k + 1]
  <2> DEFINE head == <<slash, slash, m>>
             tail == Tail(rest)
  <2>0. slash \in D /\ m \in D
    OBVIOUS
  <2> HIDE DEF slash, D
  <2>1. head \in Seq(D) /\ Len(head) = 3 /\ head[1] = slash /\ head[2] = slash /\ head[3] = m
    BY <2>0
  <2> HIDE DEF head, tail
  <2>2. line = head \o tail
    BY DEF head, tail
  <2>3. /\ line \in Seq(D) /\ Len(line) = Len(head) + Len(tail)
        /\ \A i \in 1 .. Len(head) + Len(tail) :
              line[i] = IF i <= Len(head) THEN head[i] ELSE tail[i - Len(head)]
    BY <1>7, <2>1, <2>2, ConcatProperties DEF tail
  <2> HIDE DEF line, n
  <2>4. Len(line) = n + 2 /\ \A i \in 1 .. n + 2 : line[i] = IF i <= 3 THEN head[i] ELSE tail[i - 3]
    <3>1. Len(head) + Len(tail) = n + 2
      BY <1>1, <1>7, <2>1 DEF tail
    <3> QED
      BY <2>1, <2>3, <3>1
  <2>5. 1 \in 1 .. n + 2 /\ 2 \in 1 .. n + 2 /\ 3 \in 1 .. n + 2
    BY <1>1, <1>2
  <2>6. ASSUME NEW k \in 1 .. n - 1 PROVE line[3 + k] = rest[k + 1]
    <3>1. 3 + k \in 1 .. n + 2 /\ ~(3 + k <= 3) /\ (3 + k) - 3 = k
      BY <1>1
    <3>2. line[3 + k] = tail[(3 + k) - 3]
      BY <2>4, <3>1
    <3> QED
      BY <3>1, <3>2, <1>7 DEF tail
  <2> QED
    BY <2>1, <2>3, <2>4, <2>5, <2>6
<1> HIDE DEF line, list, values, rest, n, nesting, D, slash
<1>9. /\ Len(line) = Len(list) + 4 /\ Closed(line)
      /\ \A k \in 1 .. Len(list) : line[3 + k] = list[k]
  <2>1. Len(line) = Len(list) + 4 /\ Len(line) = 3 + (n - 1) /\ (n - 1) + 1 = n /\ n - 1 \in 1 .. n - 1
    BY <1>1, <1>2, <1>6, <1>8
  <2>2. line[3 + (n - 1)] = rest[(n - 1) + 1]
    BY <2>1, <1>8
  <2>3. Closed(line)
    <3>1. line[Len(line)] = rest[n]
      BY <2>1, <2>2
    <3> QED
      BY <3>1, <1>17 DEF Closed, n
  <2>4. ASSUME NEW k \in 1 .. Len(list) PROVE line[3 + k] = list[k]
    <3>1. k \in 1 .. n - 1 /\ k \in 1 .. n - 2
      BY <1>1, <1>6
    <3> QED
      BY <3>1, <1>6, <1>8
  <2> QED
    BY <2>1, <2>3, <2>4
<1>10. FindListEnd(line, 4, nesting) = Len(line)
  <2>1. line \in Seq(D) /\ list \in Seq(STRING)
    BY <1>6, <1>8
  <2>2. Len(line) = Len(list) + 4 /\ Closed(line) /\ \A k \in 1 .. Len(list) : line[3 + k] = list[k]
    BY <1>9
  <2> QED
    BY <2>1, <2>2, <1>5, ListEnd
<1>11. SubSeq(line, 4, Len(line) - 1) = list
  <2> DEFINE t == SubSeq(line, 4, Len(line) - 1)
  <2>1. 4 \in 1 .. Len(line) + 1 /\ Len(line) - 1 \in 4 - 1 .. Len(line)
    BY <1>1, <1>2, <1>8
  <2>2. /\ t \in Seq(D) /\ Len(t) = IF 4 <= Len(line) - 1 THEN (Len(line) - 1) - 4 + 1 ELSE 0
        /\ \A k \in 1 .. (Len(line) - 1) - 4 + 1 : t[k] = line[4 + k - 1]
    BY <2>1, <1>8, SubSeqProperties
  <2> HIDE DEF t
  <2>3. Len(t) = Len(list) /\ (Len(line) - 1) - 4 + 1 = Len(list)
    BY <2>2, <1>1, <1>2, <1>6, <1>8
  <2>4. ASSUME NEW k \in 1 .. Len(list) PROVE t[k] = list[k]
    <3>1. 4 + k - 1 = 3 + k
      BY <1>1, <1>6
    <3> QED
      BY <3>1, <2>2, <2>3, <1>9
  <2>5. list \in Seq(D)
    BY <1>6, SeqMonotonic DEF D
  <2>6. t = list
    BY <2>2, <2>3, <2>4, <2>5, SeqEqual
  <2> QED
    BY <2>6 DEF t
<1>12. CommentBody(line) = 3
  <2>1. 1 \in 1 .. Len(line) /\ 2 \in 1 .. Len(line) /\ 3 \in 1 .. Len(line)
    BY <1>1, <1>2, <1>8
  <2>2. ~Skipped(line[1]) /\ ~Skipped(line[3])
    BY <1>8, MarkersAssumption DEF Blank, Skipped, slash
  <2>3. SkipWs(line, 1) = 1 /\ SkipWs(line, 3) = 3
    BY <2>1, <2>2, <1>8, NoBlankSkipped
  <2>4. IsPair(line, 1, "/", "/")
    <3>1. line[1] = "/" /\ line[1 + 1] = "/"
      BY <1>8 DEF slash
    <3>2. 1 \in 1 .. Len(line) /\ 1 + 1 \in 1 .. Len(line)
      BY <2>1
    <3> QED
      BY <3>1, <3>2 DEF IsPair, At
  <2> QED
    BY <2>3, <2>4 DEF CommentBody
<1>13. At(line, 3) = m /\ line[3] = m
  <2>1. 3 \in 1 .. Len(line)
    BY <1>1, <1>2, <1>8
  <2> QED
    BY <2>1, <1>8 DEF At
<1>14. ParseLine(line) = <<[kind |-> arg.kind, name |-> arg.name, values |-> values]>>
  <2>1. Markers[m].kind = arg.kind /\ Markers[m].name = arg.name
    OBVIOUS
  <2>2. (Markers[m].kind = "type") = nesting
    BY <2>1 DEF nesting
  <2>3. Len(line) # 0
    BY <1>1, <1>2, <1>8
  <2>4. FindListEnd(line, 3 + 1, Markers[m].kind = "type") = Len(line)
    BY <1>10, <2>2
  <2>5. ParseValueList(SubSeq(line, 3 + 1, Len(line) - 1), Markers[m].kind = "type") = values
    <3>1. 3 + 1 = 4
      OBVIOUS
    <3>2. SubSeq(line, 3 + 1, Len(line) - 1) = list
      BY <3>1, <1>11
    <3> QED
      BY <3>2, <2>2 DEF values
  <2> QED
    BY <1>4, <1>12, <1>13, <2>1, <2>3, <2>4, <2>5 DEF ParseLine
<1> QED
  BY <1>3, <1>14 DEF line, rest, slash

\* Each value of an accepted option is a list of its own.
LEMMA ValuesAlone ==
    ASSUME NEW C, NEW s \in Seq(C), NEW nesting, ParseValueList(s, nesting) # NotAList,
           NEW v \in DOMAIN ParseValueList(s, nesting)
    PROVE  ParseValueList(ParseValueList(s, nesting)[v], nesting) = <<ParseValueList(s, nesting)[v]>>
<1> DEFINE S  == {TokenAt(s, nesting, e) : e \in EndsOf(s, nesting)}
           xs == [i \in EndsOf(s, nesting) |-> TokenAt(s, nesting, i)]
           N  == Len(s) + 1
<1>1. Whole(s, nesting) /\ ParseValueList(s, nesting) = PushBacks(xs, N)
  BY ParseIs
<1>2. \A k \in DOMAIN xs : xs[k] \in S
  OBVIOUS
<1>3. N \in Nat /\ N \in 0 .. N
  OBVIOUS
<1>4. PushBacks(xs, N) \in Seq(S)
  <2> HIDE DEF xs, S, N
  <2> QED
    BY <1>2, <1>3, PushBacksSeq
<1>5. ParseValueList(s, nesting)[v] \in S
  <2> HIDE DEF xs, S, N
  <2> QED
    BY <1>1, <1>4
<1>6. PICK e \in EndsOf(s, nesting) : ParseValueList(s, nesting)[v] = TokenAt(s, nesting, e)
  BY <1>5
<1> QED
  BY <1>1, <1>6, ValueAlone

\* An axis is the same on the command line and in a file, and a value of it is
\* the same alone and among others (CommandLine's ListsAgree).
THEOREM OneListOneAxis == Spec => []ListsAgree
<1>1. CInv => ListsAgree
  <2> SUFFICES ASSUME CInv, NEW i \in DOMAIN cmd.perms, Accepted(cmd.perms[i])
               PROVE  LET axis == CliAxis(cmd.perms[i])
                      IN  /\ \A m \in DOMAIN Markers :
                               Markers[m] = [kind |-> axis.kind, name |-> axis.name] =>
                                 ParseLine(<<"/", "/", m>> \o Tail(cmd.perms[i].rest)) = <<axis>>
                          /\ \A v \in DOMAIN axis.values :
                               ParseValueList(axis.values[v], axis.kind = "type") = <<axis.values[v]>>
    BY DEF ListsAgree
  <2> DEFINE arg == cmd.perms[i]
  <2>1. arg \in [kind : {"constant", "type"}, name : STRING, rest : Seq(STRING)]
    <3> DEFINE R == [kind : {"constant", "type"}, name : STRING, rest : Seq(STRING)]
    <3>1. cmd.perms \in Seq(R)
      BY InvocationAssumption DEF CInv, Phases
    <3> HIDE DEF R
    <3>2. cmd.perms[i] \in R
      BY <3>1
    <3> QED
      BY <3>2 DEF R
  <2> HIDE DEF arg
  <2>2. CliAxis(arg).kind = arg.kind /\ CliAxis(arg).name = arg.name
    BY DEF CliAxis
  <2>3. ASSUME NEW m \in DOMAIN Markers, Markers[m] = [kind |-> CliAxis(arg).kind, name |-> CliAxis(arg).name]
        PROVE  ParseLine(<<"/", "/", m>> \o Tail(arg.rest)) = <<CliAxis(arg)>>
    BY <2>1, <2>2, <2>3, OptionAsDirective DEF arg
  <2>4. ASSUME NEW v \in DOMAIN CliAxis(arg).values
        PROVE  ParseValueList(CliAxis(arg).values[v], arg.kind = "type") = <<CliAxis(arg).values[v]>>
    <3> DEFINE list == SubSeq(arg.rest, 2, Len(arg.rest) - 1)
    <3>1. /\ Len(arg.rest) >= 2 /\ CliAxis(arg).values = ParseValueList(list, arg.kind = "type")
          /\ CliAxis(arg).values # NotAList
      BY DEF Accepted, CliAxis, arg
    <3>2. list \in Seq(STRING)
      BY <2>1, <3>1
    <3> HIDE DEF list
    <3> QED
      BY <2>4, <3>1, <3>2, ValuesAlone
  <2> QED
    BY <2>2, <2>3, <2>4 DEF arg
<1> QED
  BY <1>1, CmdInvariant, PTL
=============================================================================
