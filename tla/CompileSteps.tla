---------------------------- MODULE CompileSteps ----------------------------
(***************************************************************************)
(* Compiler::compile (src/src/slangmake_compiler.cpp): one permutation     *)
(* through a Slang session, with every early return.  Slang is external:   *)
(* each of its calls succeeds or fails.                                    *)
(*                                                                         *)
(* The code hands Slang pointers into vectors of strings it is still       *)
(* filling.  A vector that grows moves its strings, and a pointer to the   *)
(* characters of a short string, which lie inside the string object, is    *)
(* then dangling: what Slang reads through it is Garbage.                  *)
(*                                                                         *)
(* Most failures return at once with a diagnostic.  Four things are passed *)
(* over without a word: a profile that Slang does not know, a language     *)
(* version that is no integer, a dependency without a path, and, when no   *)
(* entry point is named, one that Slang fails to return.                   *)
(***************************************************************************)
EXTENDS Naturals, Sequences, FiniteSets, SequencesExt

CONSTANTS
    Jobs,     \* what compile is called with, and the module it finds
    Short,    \* the strings that are stored inside the string object
    Garbage,  \* freed memory
    Profiles, \* the profiles Slang knows
    Stoi      \* std::stoi: the integers of the strings it does not throw for

\* The arguments are sequences.  Slang declares a type parameter once.
ASSUME JobsAssumption ==
    \A j \in Jobs :
      /\ j.includePaths \in Seq(STRING)
      /\ j.typeArgs \in Seq([name : STRING, value : STRING])
      /\ j.unit.typeParams \in Seq(STRING) /\ IsInjective(j.unit.typeParams)

VARIABLES
    job,     \* the arguments
    pc,      \* the next step of compile
    desc,    \* what Slang reads through the session description
    bound,   \* what Slang reads as the argument of each type parameter
    entryPoints, \* what is composed with the module
    result,  \* Compiler::Result
    refused  \* some call or check has failed

vars == <<job, pc, desc, bound, entryPoints, result, refused>>

NoDesc == [macros |-> <<>>, searchPaths |-> <<>>, includes |-> <<>>,
           profile |-> "unknown", languageVersion |-> <<>>]

Init ==
    /\ job \in Jobs
    /\ pc = "names"
    /\ desc = NoDesc /\ bound = <<>> /\ entryPoints = {}
    /\ result = [success |-> FALSE, code |-> "none", reflection |-> "none",
                 dependencies |-> {}]
    /\ refused = FALSE

-----------------------------------------------------------------------------
(* Vectors of strings.                                                     *)

\* The buffer a vector is in after n push_backs: it starts with room for
\* reserved elements and doubles.
Buffer(n, reserved) ==
    IF n <= reserved THEN reserved
    ELSE LET first == IF reserved = 0 THEN 1 ELSE reserved
         IN  Min({first * 2^k : k \in 0..n} \ 0 .. n - 1)

\* What is read in the end through a pointer that was taken after the
\* push_back of its string, the i-th of n.
Taken(string, i, n, reserved) ==
    IF string \in Short /\ Buffer(i, reserved) # Buffer(n, reserved)
    THEN Garbage ELSE string

TakenAsPushed(strings, reserved) ==
    [i \in DOMAIN strings |-> Taken(strings[i], i, Len(strings), reserved)]

\* incPtrs, into incStorage.
\* Mutant: incStorage is not reserved.
SearchPathsUnreserved(includePaths) == TakenAsPushed(includePaths, 0)

SearchPaths(includePaths) == TakenAsPushed(includePaths, Len(includePaths))

\* macroDescs: filled when defineStorage is complete.
Macros(defines, constants) == defines \o constants

\* The Include entries of buildOptionEntries, into storage.
OptionIncludes(includePaths) == TakenAsPushed(includePaths, 0)

\* findProfile.
ProfileOf(options) ==
    IF options.profile \in Profiles THEN options.profile ELSE "unknown"

\* The LanguageVersion entry, or none.
VersionOf(options) ==
    IF options.languageVersion \in DOMAIN Stoi THEN <<Stoi[options.languageVersion]>> ELSE <<>>

-----------------------------------------------------------------------------
(* The steps.                                                              *)

Goto(step) == pc' = step /\ UNCHANGED <<job, refused>>

\* An early return: the result is what it was, with a diagnostic.
Refuse ==
    /\ pc' = "done" /\ refused' = TRUE
    /\ UNCHANGED <<job, desc, bound, entryPoints, result>>

\* A call of Slang that fails, and a compiler that has no global session.
SlangFails ==
    /\ pc \in {"names", "session", "load", "compose", "specialize", "link", "code"}
    /\ Refuse

Duplicates(args) == \E i, j \in DOMAIN args : i # j /\ args[i].name = args[j].name

RefuseDuplicates == pc = "names" /\ Duplicates(job.typeArgs) /\ Refuse

DescribeSession ==
    /\ pc = "names" /\ ~Duplicates(job.typeArgs)
    /\ desc' = [macros      |-> Macros(job.defines, job.constants),
                searchPaths |-> SearchPaths(job.includePaths),
                includes    |-> OptionIncludes(job.includePaths),
                profile     |-> ProfileOf(job),
                languageVersion |-> VersionOf(job)]
    /\ Goto("session") /\ UNCHANGED <<bound, entryPoints, result>>

CreateSession ==
    pc = "session" /\ Goto("open") /\ UNCHANGED <<desc, bound, entryPoints, result>>

OpenInput ==
    /\ pc = "open"
    /\ IF job.readable
       THEN Goto("load") /\ UNCHANGED <<desc, bound, entryPoints, result>>
       ELSE Refuse

\* The dependencies are recorded whatever happens next, those that have a path.
LoadModule ==
    /\ pc = "load"
    /\ result' = [result EXCEPT !.dependencies = job.unit.dependencies \ job.unit.pathless]
    /\ Goto("entryPoints") /\ UNCHANGED <<desc, bound, entryPoints>>

\* The entry points a compile is asked for: the named one, or every defined one.
Wanted == IF job.entryPoint = "" THEN job.unit.entryPoints ELSE {job.entryPoint}

\* Those Slang returns: the others are not defined, or the call fails.
Returned == Wanted \cap (job.unit.entryPoints \ job.unit.failing)

\* One that is not returned is passed over, unless there is no other.
FindEntryPoints ==
    /\ pc = "entryPoints"
    /\ IF Returned # {}
       THEN entryPoints' = Returned /\ Goto("compose") /\ UNCHANGED <<desc, bound, result>>
       ELSE Refuse

Compose ==
    /\ pc = "compose"
    /\ Goto(IF job.typeArgs = <<>> THEN "link" ELSE "bind")
    /\ UNCHANGED <<desc, bound, entryPoints, result>>

ArgNames == {job.typeArgs[i].name : i \in DOMAIN job.typeArgs}
Value(n) == job.typeArgs[CHOOSE i \in DOMAIN job.typeArgs : job.typeArgs[i].name = n].value

\* Other specialization parameters than type parameters, a parameter Slang
\* does not return, a type argument without parameter or the reverse.
Bindable ==
    LET unit == job.unit
    IN  /\ unit.layout /\ unit.otherParams = 0 /\ ~unit.nullParam
        /\ ArgNames \subseteq ToSet(unit.typeParams)
        /\ ToSet(unit.typeParams) \subseteq ArgNames

RefuseTypeArgs == pc = "bind" /\ ~Bindable /\ Refuse

\* The parameters whose values are no plain type name, among the first n.
Expressions(params, n) == {i \in 1..n : Value(params[i]) \notin job.unit.types}

\* Which of the expressions the i-th parameter has.
Ordinal(params, i) == Cardinality(Expressions(params, i))

\* Mutant: arguments in the order of the permutation.
BindTypeArgsAsGiven ==
    /\ pc = "bind" /\ Bindable
    /\ bound' = [i \in DOMAIN job.typeArgs |-> job.typeArgs[i].value]
    /\ Goto("specialize") /\ UNCHANGED <<desc, entryPoints, result>>

\* A plain type is resolved, an expression goes through exprStorage.
BindTypeArgs ==
    /\ pc = "bind" /\ Bindable
    /\ LET params == job.unit.typeParams
           count  == Ordinal(params, Len(params))
       IN  bound' = [i \in DOMAIN params |->
                       IF Value(params[i]) \in job.unit.types THEN Value(params[i])
                       ELSE Taken(Value(params[i]), Ordinal(params, i), count, Len(params))]
    /\ Goto("specialize") /\ UNCHANGED <<desc, entryPoints, result>>

Specialize == pc = "specialize" /\ Goto("link") /\ UNCHANGED <<desc, bound, entryPoints, result>>

Link == pc = "link" /\ Goto("code") /\ UNCHANGED <<desc, bound, entryPoints, result>>

\* Mutant: the return after a failing getTargetCode is missing.
GetTargetCodeUnchecked ==
    /\ pc = "code"
    /\ \E fails \in BOOLEAN, code \in {"none", "bytes"} :
         /\ fails => code = "none"
         /\ refused' = fails
         /\ result' = [result EXCEPT !.code = code]
    /\ pc' = "reflect" /\ UNCHANGED <<job, desc, bound, entryPoints>>

\* No bytes is no error.
GetTargetCode ==
    /\ pc = "code"
    /\ \E code \in {"none", "bytes"} : result' = [result EXCEPT !.code = code]
    /\ Goto("reflect") /\ UNCHANGED <<desc, bound, entryPoints>>

Reflect ==
    /\ pc = "reflect"
    /\ result' = [result EXCEPT !.success = TRUE,
                                !.reflection = IF job.emitReflection THEN "bytes" ELSE "none"]
    /\ Goto("done") /\ UNCHANGED <<desc, bound, entryPoints>>

\* The serializer throws: there is no result.
ReflectThrows ==
    /\ pc = "reflect" /\ job.emitReflection
    /\ pc' = "thrown" /\ UNCHANGED <<job, desc, bound, entryPoints, result, refused>>

Next ==
    \/ RefuseDuplicates \/ DescribeSession \/ SlangFails \/ CreateSession \/ OpenInput
    \/ LoadModule \/ FindEntryPoints \/ Compose \/ RefuseTypeArgs \/ BindTypeArgs
    \/ Specialize \/ Link \/ GetTargetCode \/ Reflect \/ ReflectThrows

Spec == Init /\ [][Next]_vars

-----------------------------------------------------------------------------
\* What a session is made from reaches Slang as it was given: every search
\* path, and the global defines before the constants of the permutation.
SessionStringsIntact ==
    pc \notin {"names", "done"} =>
      /\ desc.searchPaths = job.includePaths
      /\ desc.macros = job.defines \o job.constants

\* The i-th specialization argument is the value that the permutation gives to
\* the name of the i-th type parameter, however the permutation orders its
\* arguments and whether they are types or expressions, and each argument of
\* the permutation is used.
SpecializationExact ==
    job.typeArgs # <<>> /\ pc \in {"specialize", "link", "code", "reflect"} =>
      /\ Len(bound) = Len(job.typeArgs)
      /\ \A i \in DOMAIN job.unit.typeParams :
           \E k \in DOMAIN job.typeArgs :
             job.typeArgs[k] = [name |-> job.unit.typeParams[i], value |-> bound[i]]

\* A call of Slang that fails, or a check, shows in the result: there is no
\* success, no code and no reflection, whatever was made before.  A compile in
\* which none failed is a success, and it is one of what was asked for: at
\* least one entry point, the named one if one is named.  It misses something
\* only where the code passes over it, and then just that: the defined entry
\* points that Slang fails to return when none is named, the dependencies
\* without a path, a profile that Slang does not know and a language version
\* that is no integer.
OnlySkipsAreSilent ==
    pc = "done" =>
      /\ refused => ~result.success /\ result.code = "none" /\ result.reflection = "none"
      /\ ~refused =>
           /\ result.success
           /\ entryPoints \subseteq Wanted /\ entryPoints # {}
           /\ job.entryPoint # "" => job.entryPoint \in entryPoints
           /\ Wanted \subseteq entryPoints \cup job.unit.failing
           /\ job.unit.dependencies \subseteq result.dependencies \cup job.unit.pathless
           /\ result.dependencies \subseteq job.unit.dependencies
           /\ job.profile \in Profiles => desc.profile = job.profile
           /\ job.languageVersion \in DOMAIN Stoi =>
                desc.languageVersion = <<Stoi[job.languageVersion]>>

\* The Include options reach Slang as they were given ("-I, --include: Include
\* search path. Repeatable", main.cpp).
IncludeOptionsIntact ==
    pc \notin {"names", "done"} => desc.includes = job.includePaths
=============================================================================
