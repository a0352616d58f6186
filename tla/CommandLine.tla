---------------------------- MODULE CommandLine -----------------------------
(***************************************************************************)
(* The command line (src/src/main.cpp) and BatchCompiler::compileDirectory *)
(* (src/src/slangmake_batch.cpp): options are translated, a tree of        *)
(* sources is walked in whatever order the file system gives, every source *)
(* is compiled to its own output, and the exit code tells how it went.     *)
(*                                                                         *)
(* compileFile is here what its callers see: it writes a blob, as far as   *)
(* the disk takes it, or returns failures and writes none, or throws.      *)
(* BatchCompiler has its steps.                                            *)
(***************************************************************************)
EXTENDS Directives

CONSTANT Invocations \* command lines, each with the files it finds

Paths == [dir : STRING, stem : STRING, ext : STRING]

\* A tree maps paths to what is there; that of a single file has no other.
\* perms are the arguments of -P and --permutation-type.
ASSUME InvocationAssumption ==
    \A c \in Invocations :
      /\ DOMAIN c.tree \subseteq Paths
      /\ ~c.isDirectory => DOMAIN c.tree \subseteq {c.input}
      /\ c.perms \in Seq([kind : {"constant", "type"}, name : STRING, rest : Seq(STRING)])

VARIABLES
    cmd,    \* the command line and the tree it is run on
    pc,     \* where main is
    axes,   \* cliPerms
    todo,   \* the directory entries the walk has not come to
    outs,   \* of each source that was compiled, whether it has failures
    disk,   \* the blobs in the output tree: whose they are, the permutations
            \* that were written, whether the disk took all of it
    exit    \* the exit code

vars == <<cmd, pc, axes, todo, outs, disk, exit>>

\* A blob of an earlier build.
Old     == [from |-> [dir |-> "", stem |-> "", ext |-> ""], keys |-> {}, whole |-> TRUE]
Running == 99
Aborted == 134 \* std::terminate

Init ==
    /\ cmd \in Invocations
    /\ pc = "options" /\ axes = <<>> /\ todo = {} /\ outs = <<>>
    /\ disk = [p \in cmd.old |-> Old]
    /\ exit = Running

Exit(code) == pc' = "done" /\ exit' = code

-----------------------------------------------------------------------------
(* Options.                                                                *)

\* parsePermutation, with the kind its option gives the axis.
CliAxis(arg) ==
    LET n == Len(arg.rest)
    IN  [kind |-> arg.kind, name |-> arg.name,
         values |-> IF n >= 2 /\ arg.rest[1] = "{" /\ arg.rest[n] = "}"
                    THEN ParseValueList(SubSeq(arg.rest, 2, n - 1), arg.kind = "type")
                    ELSE NotAList]

Accepted(arg) == arg.name # "" /\ CliAxis(arg).values \notin {NotAList, <<>>}

\* --dump looks at one blob and does nothing else.
Dump ==
    /\ pc = "options" /\ cmd.dump # "no"
    /\ Exit(IF cmd.dump = "valid" THEN 0 ELSE 1)
    /\ UNCHANGED <<cmd, axes, todo, outs, disk>>

\* A required option is missing, or the value of one is none.
RefuseOptions ==
    /\ pc = "options" /\ cmd.dump = "no"
    /\ ~cmd.wellFormed \/ \E i \in DOMAIN cmd.perms : ~Accepted(cmd.perms[i])
    /\ Exit(2)
    /\ UNCHANGED <<cmd, axes, todo, outs, disk>>

TranslateOptions ==
    /\ pc = "options" /\ cmd.dump = "no"
    /\ cmd.wellFormed /\ \A i \in DOMAIN cmd.perms : Accepted(cmd.perms[i])
    /\ axes' = [i \in DOMAIN cmd.perms |-> CliAxis(cmd.perms[i])]
    /\ pc' = "paths"
    /\ UNCHANGED <<cmd, todo, outs, disk, exit>>

-----------------------------------------------------------------------------
(* One file or a directory.                                                *)

RefuseOutput ==
    /\ pc = "paths" /\ cmd.isDirectory /\ cmd.outputIsFile
    /\ Exit(2)
    /\ UNCHANGED <<cmd, axes, todo, outs, disk>>

Inputs == IF cmd.isDirectory THEN DOMAIN cmd.tree ELSE {cmd.input}

StartWalk ==
    /\ pc = "paths" /\ ~(cmd.isDirectory /\ cmd.outputIsFile)
    /\ todo' = Inputs
    /\ pc' = "walk"
    /\ UNCHANGED <<cmd, axes, outs, disk, exit>>

IsSource(f) == cmd.tree[f].regular /\ f.ext = "slang"

\* Mutant: the output of a source is named after its file name only.
OutPathFlat(f) == IF cmd.isDirectory THEN [f EXCEPT !.dir = "", !.ext = "bin"] ELSE cmd.output

\* The path relative to the root, with another extension, in the output tree.
OutPath(f) == IF cmd.isDirectory THEN [f EXCEPT !.ext = "bin"] ELSE cmd.output

\* An input that cannot be opened has no directives and does not compile.
FileAxes(f) == IF f \in DOMAIN cmd.tree THEN ParseDirectives(cmd.tree[f].text) ELSE <<>>

EffectiveAxes(f) == MergeDefines(FileAxes(f), axes)

Fails(f) == outs' = [x \in DOMAIN outs \cup {f} |-> IF x = f THEN TRUE ELSE outs[x]]

Visited(f) == todo' = todo \ {f} /\ UNCHANGED <<cmd, pc, axes, exit>>

\* A directory entry that is no source.
SkipEntry(f) ==
    /\ pc = "walk" /\ f \in todo /\ cmd.isDirectory /\ ~IsSource(f)
    /\ Visited(f) /\ UNCHANGED <<outs, disk>>

Compiles(f) == pc = "walk" /\ f \in todo /\ (cmd.isDirectory => IsSource(f))

\* Mutant: two axes with one name are not reported.
RefuseAxesSilently(f) ==
    /\ Compiles(f) /\ HasDuplicateNames(EffectiveAxes(f))
    /\ outs' = [x \in DOMAIN outs \cup {f} |-> IF x = f THEN FALSE ELSE outs[x]]
    /\ Visited(f) /\ UNCHANGED disk

\* Two axes with one name: a failure, and no output.
RefuseAxes(f) ==
    /\ Compiles(f) /\ HasDuplicateNames(EffectiveAxes(f))
    /\ Fails(f) /\ Visited(f) /\ UNCHANGED disk

\* A permutation fails and --keep-going is not set: no output.
StopAtFailure(f) ==
    /\ Compiles(f) /\ ~HasDuplicateNames(EffectiveAxes(f)) /\ ~cmd.keepGoing
    /\ Fails(f) /\ Visited(f) /\ UNCHANGED disk

\* The permutations that do not fail are written.  A stream that stops taking
\* bytes is not noticed: what is on disk is then cut short somewhere, and the
\* file does not count as a failure.
WriteOutput(f, failed, whole) ==
    /\ Compiles(f) /\ ~HasDuplicateNames(EffectiveAxes(f))
    /\ failed # {} => cmd.keepGoing
    /\ LET keys == Keys(EffectiveAxes(f))
       IN  /\ f \notin DOMAIN cmd.tree => failed = DOMAIN keys
           /\ disk' = [p \in DOMAIN disk \cup {OutPath(f)} |->
                         IF p = OutPath(f)
                         THEN [from |-> f, keys |-> {keys[i] : i \in DOMAIN keys \ failed},
                               whole |-> whole]
                         ELSE disk[p]]
    /\ outs' = [x \in DOMAIN outs \cup {f} |-> IF x = f THEN failed # {} ELSE outs[x]]
    /\ Visited(f)

\* The output cannot be opened, or the serializer throws: nobody catches it.
FileThrows(f) ==
    /\ Compiles(f) /\ ~HasDuplicateNames(EffectiveAxes(f))
    /\ Exit(Aborted)
    /\ UNCHANGED <<cmd, axes, todo, outs, disk>>

Finish ==
    /\ pc = "walk" /\ todo = {}
    /\ Exit(IF \E f \in DOMAIN outs : outs[f] THEN 1 ELSE 0)
    /\ UNCHANGED <<cmd, axes, todo, outs, disk>>

Next ==
    \/ Dump \/ RefuseOptions \/ TranslateOptions \/ RefuseOutput \/ StartWalk
    \/ \E f \in todo :
         \/ SkipEntry(f) \/ RefuseAxes(f) \/ StopAtFailure(f) \/ FileThrows(f)
         \/ \E failed \in SUBSET DOMAIN Keys(EffectiveAxes(f)), whole \in BOOLEAN :
              WriteOutput(f, failed, whole)
    \/ Finish

Spec == Init /\ [][Next]_vars

-----------------------------------------------------------------------------
Texts == {cmd.tree[f].text : f \in DOMAIN cmd.tree}

\* Unless something that looks like the start of a block comment stands in a
\* line comment, the directives are those of the line comments that have a
\* line of their own, however block comments lie around them, and
\* [noreflection] is found in the same places.
CommentsRespected ==
    pc = "options" =>
      \A text \in Texts : ~Misleading(text) =>
        LET own == OwnLineComments(text)
        IN  /\ ParseDirectives(text) = FlattenSeq([k \in DOMAIN own |-> ParseLine(own[k])])
            /\ SourceHasNoReflection(text)
                 <=> \E k \in DOMAIN own : At(own[k], CommentBody(own[k])) = NoReflection

\* A value list that -P or --permutation-type accepts is the same axis when it
\* is written as a directive, and each of its values can be given alone.
ListsAgree ==
    pc = "options" =>
      \A i \in DOMAIN cmd.perms : Accepted(cmd.perms[i]) =>
        LET axis == CliAxis(cmd.perms[i])
        IN  /\ \A m \in DOMAIN Markers :
                 Markers[m] = [kind |-> axis.kind, name |-> axis.name] =>
                   ParseLine(<<"/", "/", m>> \o Tail(cmd.perms[i].rest)) = <<axis>>
            /\ \A v \in DOMAIN axis.values :
                 ParseValueList(axis.values[v], axis.kind = "type") = <<axis.values[v]>>

\* The key of a permutation names one binding of every axis of the file, as
\* the command line overrides them, and every combination of values has its
\* key, as long as no value has a "=" in it.
KeysNameCombinations ==
    pc = "walk" =>
      \A f \in DOMAIN cmd.tree :
        LET eff  == EffectiveAxes(f)
            keys == Keys(eff)
        IN  HasDuplicateNames(eff) \/ (\E i \in DOMAIN eff : \E v \in DOMAIN eff[i].values :
                                         "=" \in ToSet(eff[i].values[v]))
            \/ /\ NamesOf(eff) = NamesOf(FileAxes(f)) \cup NamesOf(axes)
               /\ Cardinality(ToSet(keys)) =
                    FoldSeq(LAMBDA axis, n : n * Cardinality(ToSet(axis.values)), 1, eff)

\* An exit code of 0 after a build: for every source of the tree a blob was
\* made in this run, with every permutation, and put in its place.  The code
\* does not promise more: when the disk did not take all of it, the exit code
\* is 0 all the same.  That is the only way in which a source can be without
\* its permutations then.
ExitZeroMeansBuilt ==
    exit = 0 /\ cmd.dump = "no" =>
      \A f \in DOMAIN cmd.tree : (cmd.isDirectory => IsSource(f)) =>
        /\ OutPath(f) \in DOMAIN disk
        /\ disk[OutPath(f)].from = f
        /\ ~disk[OutPath(f)].whole \/ disk[OutPath(f)].keys = ToSet(Keys(EffectiveAxes(f)))

\* However the walk ends, by an exception too, a blob on disk is an earlier
\* one or that of the source with the same relative path, and a source that
\* was not come to, or failed without --keep-going, has left its output as it
\* was.  A refused command
\* line and --dump touch nothing.
OutputsMirrorSources ==
    /\ \A p \in DOMAIN disk : disk[p] # Old =>
         LET f == disk[p].from
         IN  /\ cmd.isDirectory => f.dir = p.dir /\ f.stem = p.stem
             /\ f \in DOMAIN outs /\ (outs[f] => cmd.keepGoing)
    /\ exit = 2 \/ cmd.dump # "no" => disk = [p \in cmd.old |-> Old]
=============================================================================
