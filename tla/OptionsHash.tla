----------------------------- MODULE OptionsHash -----------------------------
(***************************************************************************)
(* hashCompileOptions (src/src/slangmake_util.cpp) beside what             *)
(* Compiler::compile makes of the same options: the fingerprint decides    *)
(* whether entries of an earlier blob may be reused.                       *)
(*                                                                         *)
(* The fingerprint is here what is mixed into the hash.  A string is mixed *)
(* with its length, so that it is one element of the sequence.  Options of *)
(* a fixed size come in fixed places before the lists: emitReflection      *)
(* stands for them.  Bind shifts, which follow the defines, are left out.  *)
(***************************************************************************)
EXTENDS CompileSteps

CONSTANT Strings \* the strings of the options in the order of std::string

\* A macro is a pair of two of these strings.
ASSUME StringsAssumption ==
    /\ Strings \in Seq(STRING) /\ IsInjective(Strings)
    /\ \A j \in Jobs :
         /\ j.defines \in Seq([name : ToSet(Strings), value : ToSet(Strings)])
         /\ j.constants \in Seq([name : STRING, value : STRING])

Rank(s) == CHOOSE i \in DOMAIN Strings : Strings[i] = s

Before(d, e) ==
    \/ Rank(d.name) < Rank(e.name)
    \/ d.name = e.name /\ Rank(d.value) < Rank(e.value)

\* Where the i-th of defs comes to lie when they are sorted.
Position(defs, i) ==
    Cardinality({j \in DOMAIN defs :
                   Before(defs[j], defs[i]) \/ (defs[j] = defs[i] /\ j <= i)})

Sorted(defs) ==
    [k \in DOMAIN defs |-> defs[CHOOSE i \in DOMAIN defs : Position(defs, i) = k]]

Fixed(options) ==
    <<options.profile, options.entryPoint, options.emitReflection, options.languageVersion>>

\* Mutant: the values of defines are not mixed in.
FingerprintOfNames(options) ==
    LET defs == Sorted(options.defines)
    IN  Fixed(options) \o options.includePaths \o [i \in DOMAIN defs |-> defs[i].name]

\* A name and its value, name after name.
InPairs(defs) ==
    [k \in 1 .. 2 * Len(defs) |-> IF k % 2 = 1 THEN defs[(k + 1) \div 2].name
                                  ELSE defs[k \div 2].value]

\* hashCompileOptions.
Fingerprint(options) ==
    Fixed(options) \o options.includePaths \o InPairs(Sorted(options.defines))

-----------------------------------------------------------------------------
\* The file and the permutation, and what else a build keeps apart.
SameWork(a, b) ==
    /\ a.typeArgs = b.typeArgs /\ a.constants = b.constants
    /\ a.readable = b.readable /\ a.unit = b.unit

Places(macros, name) == {i \in DOMAIN macros : macros[i].name = name}

\* A name is defined the same way in both, first to last.
SameDefinitions(macros, others, name) ==
    \E f \in Bijection(Places(macros, name), Places(others, name)) :
      \A i \in Places(macros, name) :
        /\ others[f[i]] = macros[i]
        /\ \A j \in Places(macros, name) : i < j => f[i] < f[j]

\* Reuse across runs is safe for the session: when two sets of options have
\* one fingerprint, Slang gets the same profile, language version and search
\* paths, and each macro has the same definitions in the same order, those of
\* the permutation included.
\* There are two exceptions.  The lists are mixed without their lengths, so
\* two paths can be taken for a define; and defines are sorted, so the order
\* of two defines of one name is lost.
FingerprintDecides ==
    pc = "session" =>
      \A other \in Jobs :
        /\ SameWork(other, job) /\ ~Duplicates(job.defines)
        /\ Len(other.includePaths) = Len(job.includePaths)
        /\ Fingerprint(other) = Fingerprint(job)
        => LET macros == Macros(other.defines, other.constants)
           IN  /\ other.entryPoint = job.entryPoint
               /\ other.emitReflection = job.emitReflection
               /\ desc.profile = ProfileOf(other)
               /\ desc.languageVersion = VersionOf(other)
               /\ desc.searchPaths = SearchPaths(other.includePaths)
               /\ \A n \in {macros[i].name : i \in DOMAIN macros}
                             \cup {desc.macros[i].name : i \in DOMAIN desc.macros} :
                    SameDefinitions(desc.macros, macros, n)
=============================================================================
