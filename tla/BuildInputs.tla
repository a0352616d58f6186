---------------------------- MODULE BuildInputs ----------------------------
(***************************************************************************)
(* The data that BatchCompiler::compileFile works on, and the functions of *)
(* it that the batch layer calls: the permutation directives of a source   *)
(* file, the option fingerprint, the content hash and the compiler itself. *)
(* Text, bytecode and hashes are abstract values; what matters is which of *)
(* them determine which.                                                   *)
(***************************************************************************)
EXTENDS Integers, Sequences

CONSTANTS
    Paths,             \* files a compile can read
    Sources,           \* the ones passed as Input::file
    Contents,          \* what a file can contain
    Absent,            \* "no such file"
    Versions,          \* path -> what the file may contain over time
    Targets, Flags,    \* CompileOptions: target, and the other fields
    Overrides,         \* values of Input::cliOverride
    Perms,             \* permutations
    DefaultPerm,       \* the one without axes, whose key is ""
    Codes, EmptyCode,  \* code and reflection bytes of one entry
    Calls,             \* the inputs and settings compileFile is called with
    None,              \* "no value": no blob, no result, no Output
    Key(_),            \* Permutation::key
    Script(_, _),      \* content, override -> [dup, perms]: parse, merge, expand
    NoReflection(_),   \* content -> BOOLEAN: it holds "// [noreflection]"
    OptionsHash(_, _, _), \* hashCompileOptions of target, flags, emitReflection
    ContentHash(_),    \* FNV-1a of a file's bytes
    Slang(_, _, _)     \* options, permutation, files -> Compiler::Result

MaybeContent == Contents \cup {Absent}
FileStates   == {fs \in [Paths -> MaybeContent] : \A p \in Paths : fs[p] \in Versions[p]}
\* Input, and the setters of BatchCompiler that change what a call does.
CallRecords ==
    [source : Sources, target : Targets, flags : Flags, refl : BOOLEAN,
     override : Overrides, incremental : BOOLEAN, keepGoing : BOOLEAN,
     compress : BOOLEAN]
\* The fields of CompileOptions, apart from the defines of the permutation.
Options      == [input : Sources, target : Targets, flags : Flags, refl : BOOLEAN]
\* Compiler::Result; deps stands for its dependency list.
Results      == [success : BOOLEAN, code : Codes, deps : Seq(Paths)]

ASSUME InputAssumption ==
    /\ Sources \subseteq Paths
    /\ Calls \subseteq CallRecords
    /\ Versions \in [Paths -> SUBSET MaybeContent]
    /\ Absent \notin Contents
    /\ DefaultPerm \in Perms
    /\ EmptyCode \in Codes
    /\ \A c \in MaybeContent, ov \in Overrides :
          /\ Script(c, ov).dup \in BOOLEAN
          /\ Script(c, ov).perms \in Seq(Perms)
    /\ \A c \in MaybeContent : NoReflection(c) \in BOOLEAN

\* Keys tell permutations apart; the 64-bit hashes of the options and of the
\* contents in play do not collide, and no content hashes to 0.
ASSUME IdentityAssumption ==
    /\ \A p, q \in Perms : Key(p) = Key(q) => p = q
    /\ \A t, u \in Targets, f, g \in Flags, r, s \in BOOLEAN :
          OptionsHash(t, f, r) = OptionsHash(u, g, s) => f = g /\ r = s
    /\ \A c \in Contents : ContentHash(c) \in Nat \ {0}
    /\ \A c, d \in Contents : ContentHash(c) = ContentHash(d) => c = d

\* The compiler is a function of the options, the permutation and the files
\* it reports as read: files it does not report cannot change its result.
ASSUME SlangAssumption ==
    \A o \in Options, p \in Perms, fs \in FileStates :
        /\ Slang(o, p, fs) \in Results
        /\ Slang(o, p, fs).success =>
              \A gs \in FileStates :
                 (\A i \in DOMAIN Slang(o, p, fs).deps :
                     gs[Slang(o, p, fs).deps[i]] = fs[Slang(o, p, fs).deps[i]])
                 => Slang(o, p, gs) = Slang(o, p, fs)

\* What a caller gets to see of an Output, apart from the blob.
Answers == [compiled : Seq(Perms), failures : Seq(Perms \cup {None})]

ASSUME NoneAssumption == None \notin Results /\ None \notin Answers

\* hashFileContents: 0 when the file cannot be opened.
HashFileContents(fs, path) ==
    IF fs[path] = Absent THEN 0 ELSE ContentHash(fs[path])

\* The options a call compiles with: inputFile set, and reflection switched
\* off by the source's own marker but never on.
EffectiveOptions(call, content) ==
    [input |-> call.source, target |-> call.target, flags |-> call.flags,
     refl |-> call.refl /\ ~NoReflection(content)]

\* hashCompileOptions does not mix in inputFile.
Fingerprint(o) == OptionsHash(o.target, o.flags, o.refl)

=============================================================================
