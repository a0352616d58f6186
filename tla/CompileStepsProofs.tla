-------------------------- MODULE CompileStepsProofs --------------------------
(***************************************************************************)
(* TLAPS proofs about CompileSteps and OptionsHash, for any set of jobs:   *)
(* any number of entry points, type parameters, search paths, defines and  *)
(* dependencies.                                                           *)
(***************************************************************************)
EXTENDS OptionsHash, FiniteSetTheorems, TLAPS

Given == job.unit.dependencies \ job.unit.pathless

Results == [success : BOOLEAN, code : {"none", "bytes"}, reflection : {"none", "bytes"},
            dependencies : {{}, Given}]

\* Nothing is produced before the last steps, and a failure is the last step.
\* From its step on the description has the options Slang understands, the
\* result the dependencies and the composite the entry points Slang returns.
StepInv ==
    /\ result \in Results
    /\ refused \in BOOLEAN
    /\ refused => pc = "done"
    /\ pc \notin {"reflect", "done", "thrown"} \/ refused =>
         ~result.success /\ result.code = "none" /\ result.reflection = "none"
    /\ pc # "names" /\ ~refused =>
         desc.profile = ProfileOf(job) /\ desc.languageVersion = VersionOf(job)
    /\ pc \notin {"names", "session", "open", "load"} /\ ~refused =>
         result.dependencies = Given
    /\ pc \notin {"names", "session", "open", "load", "entryPoints"} /\ ~refused =>
         entryPoints = Returned /\ Returned # {}
    /\ pc = "done" /\ ~refused => result.success

LEMMA StepInit == Init => StepInv
<1> SUFFICES ASSUME Init
             PROVE  StepInv
  OBVIOUS
<1>1. result = [success |-> FALSE, code |-> "none", reflection |-> "none",
                dependencies |-> {}]
  BY DEF Init
<1>2. result \in Results
  BY <1>1, Zenon DEF Results
<1>3. /\ ~result.success /\ result.code = "none" /\ result.reflection = "none"
      /\ pc = "names" /\ refused = FALSE
  BY <1>1 DEF Init
<1> QED
  BY <1>2, <1>3 DEF StepInv

\* An early return before there is anything to return.
LEMMA RefuseStep ==
    ASSUME StepInv, Refuse, pc \notin {"reflect", "done", "thrown"}
    PROVE  StepInv'
BY DEF Refuse, StepInv, Results, Given

\* A step that produces nothing, before and after the module is loaded and the
\* entry points are found.
LEMMA EarlyStep ==
    ASSUME StepInv, pc \in {"session", "open"}, pc' \in {"open", "load"},
           UNCHANGED <<job, refused, desc, result>>
    PROVE  StepInv'
BY DEF StepInv, Results, Given, ProfileOf, VersionOf

Composed == {"compose", "bind", "specialize", "link", "code"}

LEMMA ComposedStep ==
    ASSUME StepInv, pc \in Composed, pc' \in Composed,
           UNCHANGED <<job, refused, desc, entryPoints, result>>
    PROVE  StepInv'
BY DEF StepInv, Results, Given, ProfileOf, VersionOf, Returned, Wanted, Composed

LEMMA StepStep == StepInv /\ [Next]_vars => StepInv'
<1> SUFFICES ASSUME StepInv, [Next]_vars
             PROVE  StepInv'
  OBVIOUS
<1> USE DEF Given
<1>1. CASE RefuseDuplicates \/ SlangFails \/ RefuseTypeArgs
  <2>1. Refuse /\ pc \notin {"reflect", "done", "thrown"}
    BY <1>1 DEF RefuseDuplicates, SlangFails, RefuseTypeArgs
  <2> QED
    BY <2>1, RefuseStep
<1>2. CASE DescribeSession
  <2>1. /\ pc = "names" /\ pc' = "session" /\ UNCHANGED <<job, refused, result>>
        /\ desc'.profile = ProfileOf(job) /\ desc'.languageVersion = VersionOf(job)
    BY <1>2 DEF DescribeSession, Goto
  <2> QED
    BY <2>1 DEF StepInv, Results, ProfileOf, VersionOf
<1>3. CASE CreateSession \/ OpenInput
  <2>1. \/ /\ pc \in {"session", "open"} /\ pc' \in {"open", "load"}
           /\ UNCHANGED <<job, refused, desc, result>>
        \/ pc = "open" /\ Refuse
    BY <1>3 DEF CreateSession, OpenInput, Goto
  <2> QED
    BY <2>1, RefuseStep, EarlyStep
<1>4. CASE LoadModule
  <2>1. /\ pc = "load" /\ pc' = "entryPoints" /\ UNCHANGED <<job, refused, desc>>
        /\ result' = [result EXCEPT !.dependencies = Given]
    BY <1>4 DEF LoadModule, Goto
  <2> QED
    BY <2>1 DEF StepInv, Results, ProfileOf, VersionOf
<1>5. CASE FindEntryPoints
  <2>1. CASE Refuse
    <3>1. pc = "entryPoints"
      BY <1>5 DEF FindEntryPoints
    <3> QED
      BY <2>1, <3>1, RefuseStep
  <2>2. CASE ~Refuse
    <3>1. /\ pc = "entryPoints" /\ pc' = "compose" /\ UNCHANGED <<job, refused, desc, result>>
          /\ entryPoints' = Returned /\ Returned # {}
      BY <1>5, <2>2 DEF FindEntryPoints, Goto
    <3>2. Returned' = Returned
      BY <3>1 DEF Returned, Wanted
    <3> QED
      BY <3>1, <3>2 DEF StepInv, Results, ProfileOf, VersionOf
  <2> QED
    BY <2>1, <2>2
<1>6. CASE Compose \/ BindTypeArgs \/ Specialize \/ Link
  <2>1. /\ pc \in {"compose", "bind", "specialize", "link"}
        /\ pc' \in {"link", "bind", "specialize", "code"}
        /\ UNCHANGED <<job, refused, desc, entryPoints, result>>
    BY <1>6 DEF Compose, BindTypeArgs, Specialize, Link, Goto
  <2> QED
    BY <2>1, ComposedStep DEF Composed
<1>7. CASE GetTargetCode
  <2>1. /\ pc = "code" /\ pc' = "reflect" /\ UNCHANGED <<job, refused, desc, entryPoints>>
        /\ \E code \in {"none", "bytes"} : result' = [result EXCEPT !.code = code]
    BY <1>7 DEF GetTargetCode, Goto
  <2>2. PICK code \in {"none", "bytes"} : result' = [result EXCEPT !.code = code]
    BY <2>1
  <2>3. /\ result' \in [success : BOOLEAN, code : {"none", "bytes"},
                        reflection : {"none", "bytes"}, dependencies : {{}, Given}]
        /\ result'.dependencies = result.dependencies
    BY <2>2 DEF StepInv, Results
  <2>4. ~refused
    BY <2>1 DEF StepInv
  <2>5. Returned' = Returned
    BY <2>1 DEF Returned, Wanted
  <2> QED
    BY <2>1, <2>3, <2>4, <2>5 DEF StepInv, Results, ProfileOf, VersionOf
<1>8. CASE Reflect
  <2>1. /\ pc = "reflect" /\ pc' = "done" /\ UNCHANGED <<job, refused, desc, entryPoints>>
        /\ \E r \in {"none", "bytes"} :
             result' = [result EXCEPT !.success = TRUE, !.reflection = r]
    BY <1>8 DEF Reflect, Goto
  <2>2. PICK r \in {"none", "bytes"} :
          result' = [result EXCEPT !.success = TRUE, !.reflection = r]
    BY <2>1
  <2>3. /\ result' \in [success : BOOLEAN, code : {"none", "bytes"},
                        reflection : {"none", "bytes"}, dependencies : {{}, Given}]
        /\ result'.success /\ result'.dependencies = result.dependencies
    BY <2>2 DEF StepInv, Results
  <2>4. ~refused
    BY <2>1 DEF StepInv
  <2>5. Returned' = Returned
    BY <2>1 DEF Returned, Wanted
  <2> QED
    BY <2>1, <2>3, <2>4, <2>5 DEF StepInv, Results, ProfileOf, VersionOf
<1>9. CASE ReflectThrows
  BY <1>9 DEF ReflectThrows, StepInv, Results, ProfileOf, VersionOf, Returned, Wanted
<1>10. CASE UNCHANGED vars
  BY <1>10 DEF vars, StepInv, Results, ProfileOf, VersionOf, Returned, Wanted
<1> QED
  BY <1>1, <1>2, <1>3, <1>4, <1>5, <1>6, <1>7, <1>8, <1>9, <1>10 DEF Next

LEMMA StepInvariant == Spec => []StepInv
BY StepInit, StepStep, PTL DEF Spec

\* Compiler::compile returns nothing when something failed, or a success that
\* lacks what the code passes over without a word and nothing else, for
\* whatever it is asked to compile.
THEOREM FailuresAnswered == Spec => []OnlySkipsAreSilent
<1>1. StepInv => OnlySkipsAreSilent
  <2> SUFFICES ASSUME StepInv, pc = "done"
               PROVE  OnlySkipsAreSilent
    BY DEF OnlySkipsAreSilent
  <2>1. CASE refused
    BY <2>1 DEF StepInv, OnlySkipsAreSilent
  <2>2. CASE ~refused
    <3>1. /\ result.success /\ result.dependencies = Given
          /\ entryPoints = Returned /\ Returned # {}
          /\ desc.profile = ProfileOf(job) /\ desc.languageVersion = VersionOf(job)
      BY <2>2 DEF StepInv
    <3>2. /\ Returned \subseteq Wanted
          /\ job.entryPoint # "" => Wanted = {job.entryPoint} /\ Returned = Wanted
      BY <3>1 DEF Returned, Wanted
    <3>3. Wanted \subseteq Returned \cup job.unit.failing
      <4>1. CASE job.entryPoint = ""
        BY <4>1 DEF Returned, Wanted
      <4>2. CASE job.entryPoint # ""
        BY <4>2, <3>2
      <4> QED
        BY <4>1, <4>2
    <3>4. /\ job.unit.dependencies \subseteq result.dependencies \cup job.unit.pathless
          /\ result.dependencies \subseteq job.unit.dependencies
      BY <3>1 DEF Given
    <3>5. /\ job.profile \in Profiles => desc.profile = job.profile
          /\ job.languageVersion \in DOMAIN Stoi =>
               desc.languageVersion = <<Stoi[job.languageVersion]>>
      BY <3>1 DEF ProfileOf, VersionOf
    <3> QED
      BY <2>2, <3>1, <3>2, <3>3, <3>4, <3>5 DEF OnlySkipsAreSilent
  <2> QED
    BY <2>1, <2>2
<1> QED
  BY <1>1, StepInvariant, PTL

-----------------------------------------------------------------------------
(* Strings that are read through pointers.                                 *)

\* A vector that was reserved for all its strings does not move them.
LEMMA ReservedIsIntact ==
    ASSUME NEW S, NEW strings \in Seq(S)
    PROVE  TakenAsPushed(strings, Len(strings)) = strings
<1>1. \A i \in DOMAIN strings : i \in Nat /\ i <= Len(strings)
  OBVIOUS
<1>2. Len(strings) \in Nat
  OBVIOUS
<1>3. \A i \in DOMAIN strings : Taken(strings[i], i, Len(strings), Len(strings)) = strings[i]
  BY <1>1, <1>2 DEF Taken, Buffer
<1> QED
  BY <1>3 DEF TakenAsPushed

\* No expression has a place behind the parameters.
LEMMA OrdinalBounded ==
    ASSUME NEW params \in Seq(STRING), NEW i \in 0 .. Len(params)
    PROVE  Ordinal(params, i) \in Nat /\ Ordinal(params, i) <= Len(params)
<1>1. IsFiniteSet(1..i) /\ Cardinality(1..i) = i
  BY FS_Interval
<1>2. Expressions(params, i) \in SUBSET (1..i)
  BY DEF Expressions
<1>3. IsFiniteSet(Expressions(params, i)) /\ Cardinality(Expressions(params, i)) <= i
  BY <1>1, <1>2, FS_Subset
<1>4. Cardinality(Expressions(params, i)) \in Nat
  BY <1>3, FS_CardinalityType
<1> QED
  BY <1>3, <1>4 DEF Ordinal

-----------------------------------------------------------------------------
(* What the arguments are bound to.                                        *)

LEMMA ElementType ==
    ASSUME NEW S, NEW s \in Seq(S), NEW k \in DOMAIN s
    PROVE  s[k] \in S
OBVIOUS

\* A name that the arguments have, has one value.
LEMMA ValueOfName ==
    ASSUME NEW n \in ArgNames
    PROVE  \E k \in DOMAIN job.typeArgs :
             job.typeArgs[k].name = n /\ job.typeArgs[k].value = Value(n)
BY DEF ArgNames, Value

\* As many arguments as parameters: both are named by ArgNames.
LEMMA AsManyParams ==
    ASSUME job \in Jobs, ~Duplicates(job.typeArgs), Bindable
    PROVE  Len(job.unit.typeParams) = Len(job.typeArgs)
<1> DEFINE params == job.unit.typeParams
           args   == job.typeArgs
           name   == [i \in 1..Len(args) |-> args[i].name]
<1>1. params \in Seq(STRING) /\ IsInjective(params) /\ args \in Seq([name : STRING, value : STRING])
  BY JobsAssumption
<1>2. ArgNames = ToSet(params)
  BY DEF Bindable
<1>3. Len(params) \in Nat /\ Len(args) \in Nat /\ DOMAIN params = 1..Len(params)
      /\ DOMAIN args = 1..Len(args)
  BY <1>1
<1>4. params \in Bijection(1..Len(params), ToSet(params))
  <2>1. params \in [1..Len(params) -> ToSet(params)]
    BY <1>1, <1>3 DEF ToSet
  <2>2. \A t \in ToSet(params) : \E i \in 1..Len(params) : params[i] = t
    BY <1>3 DEF ToSet
  <2> HIDE DEF params
  <2> QED
    BY <1>1, <2>1, <2>2 DEF Bijection, Injection, Surjection
<1>5. Cardinality(ToSet(params)) = Len(params)
  BY <1>3, <1>4, FS_CountingElements DEF ExistsBijection
<1>6. name \in Bijection(1..Len(args), ArgNames)
  <2>1. name \in [1..Len(args) -> ArgNames]
    BY <1>3 DEF ArgNames
  <2>2. \A i, j \in 1..Len(args) : name[i] = name[j] => i = j
    BY <1>3 DEF Duplicates
  <2>3. \A n \in ArgNames : \E i \in 1..Len(args) : name[i] = n
    BY <1>3 DEF ArgNames
  <2> QED
    BY <2>1, <2>2, <2>3 DEF Bijection, Injection, Surjection, IsInjective
<1>7. Cardinality(ArgNames) = Len(args)
  BY <1>3, <1>6, FS_CountingElements DEF ExistsBijection
<1> QED
  BY <1>2, <1>5, <1>7

\* The session has what the job says from DescribeSession on, and the
\* arguments are bound from BindTypeArgs on.
SessionInv ==
    /\ job \in Jobs
    /\ pc \notin {"names", "done"} => ~Duplicates(job.typeArgs)
    /\ SessionStringsIntact
    /\ SpecializationExact

\* A step that touches neither the description nor the bound arguments, and
\* does not pass by them.
LEMMA SessionKept ==
    ASSUME SessionInv, UNCHANGED <<job, desc, bound>>,
           pc' = "done" \/ (pc # "names" /\ pc # "done"),
           pc' = "link" => pc = "specialize" \/ job.typeArgs = <<>>,
           pc' = "specialize" => FALSE,
           pc' = "code" => pc = "link",
           pc' = "reflect" => pc = "code"
    PROVE  SessionInv'
BY ZenonT(60) DEF SessionInv, SessionStringsIntact, SpecializationExact, Duplicates

LEMMA SessionStep == SessionInv /\ [Next]_vars => SessionInv'
<1> SUFFICES ASSUME SessionInv, [Next]_vars
             PROVE  SessionInv'
  OBVIOUS
<1>1. CASE RefuseDuplicates \/ SlangFails \/ RefuseTypeArgs
  <2>1. Refuse
    BY <1>1 DEF RefuseDuplicates, SlangFails, RefuseTypeArgs
  <2> QED
    BY <2>1, SessionKept DEF Refuse
<1>2. CASE DescribeSession
  <2>1. /\ pc' = "session" /\ job' = job /\ ~Duplicates(job.typeArgs)
        /\ desc'.macros = job.defines \o job.constants
        /\ desc'.searchPaths = TakenAsPushed(job.includePaths, Len(job.includePaths))
    BY <1>2 DEF DescribeSession, Goto, Macros, SearchPaths
  <2>2. job.includePaths \in Seq(STRING)
    BY JobsAssumption DEF SessionInv
  <2>3. desc'.searchPaths = job.includePaths
    BY <2>1, <2>2, ReservedIsIntact
  <2> QED
    BY <2>1, <2>3 DEF SessionInv, SessionStringsIntact, SpecializationExact, Duplicates
<1>3. CASE CreateSession \/ OpenInput \/ LoadModule \/ FindEntryPoints
  BY <1>3, SessionKept DEF CreateSession, OpenInput, LoadModule, FindEntryPoints, Goto, Refuse
<1>4. CASE Compose \/ Specialize \/ Link
  BY <1>4, SessionKept DEF Compose, Specialize, Link, Goto
<1>5. CASE GetTargetCode \/ Reflect \/ ReflectThrows
  <2>1. CASE GetTargetCode
    BY <2>1, SessionKept DEF GetTargetCode, Goto
  <2>2. CASE Reflect
    BY <2>2, SessionKept DEF Reflect, Goto
  <2>3. CASE ReflectThrows
    BY <2>3, SessionKept DEF ReflectThrows
  <2> QED
    BY <1>5, <2>1, <2>2, <2>3
<1>6. CASE BindTypeArgs
  <2> DEFINE params == job.unit.typeParams
             count  == Ordinal(params, Len(params))
             value(i) == IF Value(params[i]) \in job.unit.types THEN Value(params[i])
                         ELSE Taken(Value(params[i]), Ordinal(params, i), count, Len(params))
  <2>1. /\ pc = "bind" /\ pc' = "specialize" /\ UNCHANGED <<job, desc>> /\ Bindable
        /\ bound' = [i \in DOMAIN params |-> value(i)]
    BY <1>6 DEF BindTypeArgs, Goto
  <2>2. params \in Seq(STRING) /\ job \in Jobs /\ ~Duplicates(job.typeArgs)
    BY <2>1, JobsAssumption DEF SessionInv
  <2>3. DOMAIN params = 1..Len(params) /\ Len(params) \in Nat
    BY <2>2
  <2>4. ASSUME NEW i \in DOMAIN params
        PROVE  value(i) = Value(params[i])
    <3>1. Ordinal(params, i) <= Len(params)
      BY <2>2, <2>3, OrdinalBounded
    <3>2. count <= Len(params)
      BY <2>2, <2>3, OrdinalBounded
    <3>3. Buffer(Ordinal(params, i), Len(params)) = Len(params)
          /\ Buffer(count, Len(params)) = Len(params)
      BY <3>1, <3>2 DEF Buffer
    <3> QED
      BY <3>3 DEF Taken
  <2>5. Len(params) = Len(job.typeArgs)
    BY <2>1, <2>2, AsManyParams
  <2>6. bound' = [i \in 1..Len(params) |-> Value(params[i])]
    BY <2>1, <2>3, <2>4
  <2>7. Len(bound') = Len(params)
    BY <2>3, <2>6
  <2>8. ASSUME NEW i \in DOMAIN params
        PROVE  \E k \in DOMAIN job.typeArgs :
                 job.typeArgs[k] = [name |-> params[i], value |-> bound'[i]]
    <3>1. params[i] \in ArgNames
      BY <2>1, <2>8 DEF Bindable, ToSet
    <3>2. PICK k \in DOMAIN job.typeArgs :
            job.typeArgs[k].name = params[i] /\ job.typeArgs[k].value = Value(params[i])
      BY <3>1, ValueOfName
    <3>3. job.typeArgs[k] \in [name : STRING, value : STRING]
      <4>1. job.typeArgs \in Seq([name : STRING, value : STRING])
        BY <2>2, JobsAssumption
      <4> QED
        BY <4>1, ElementType
    <3>4. bound'[i] = Value(params[i])
      BY <2>3, <2>6
    <3> QED
      BY <3>2, <3>3, <3>4
  <2> HIDE DEF value
  <2> QED
    BY ZenonT(60), <2>1, <2>2, <2>5, <2>7, <2>8
       DEF SessionInv, SessionStringsIntact, SpecializationExact, Duplicates
<1>7. CASE UNCHANGED vars
  BY ZenonT(60), <1>7 DEF vars, SessionInv, SessionStringsIntact, SpecializationExact, Duplicates
<1> QED
  BY <1>1, <1>2, <1>3, <1>4, <1>5, <1>6, <1>7 DEF Next

LEMMA SessionInvariant == Spec => []SessionInv
<1>1. Init => SessionInv
  BY DEF Init, SessionInv, SessionStringsIntact, SpecializationExact
<1> QED
  BY <1>1, SessionStep, PTL DEF Spec

\* Slang reads the search paths and the macros a compile was asked for, for
\* any number of them and whichever strings lie inside their objects.
THEOREM SessionIntact == Spec => []SessionStringsIntact
<1>1. SessionInv => SessionStringsIntact
  BY DEF SessionInv
<1> QED
  BY <1>1, SessionInvariant, PTL

\* Each type parameter of a module is specialized with the value that the
\* permutation gives to its name, for any number and order of them.
THEOREM SpecializedAsAsked == Spec => []SpecializationExact
<1>1. SessionInv => SpecializationExact
  BY DEF SessionInv
<1> QED
  BY <1>1, SessionInvariant, PTL

-----------------------------------------------------------------------------
(* The order of the defines in the fingerprint.                            *)

Pairs == [name : ToSet(Strings), value : ToSet(Strings)]

LEMMA RankOfString ==
    ASSUME NEW s \in ToSet(Strings)
    PROVE  Rank(s) \in Nat /\ Strings[Rank(s)] = s
<1>1. Strings \in Seq(STRING)
  BY StringsAssumption
<1>2. \A i \in DOMAIN Strings : i \in Nat
  BY <1>1
<1>3. \E i \in DOMAIN Strings : Strings[i] = s
  BY DEF ToSet
<1> QED
  BY <1>2, <1>3 DEF Rank

\* std::pair's comparison is a strict total order.
LEMMA BeforeIsOrder ==
    ASSUME NEW d \in Pairs, NEW e \in Pairs
    PROVE  /\ ~Before(d, d)
           /\ Before(d, e) => ~Before(e, d)
           /\ d # e => Before(d, e) \/ Before(e, d)
           /\ \A f \in Pairs : Before(d, e) /\ Before(e, f) => Before(d, f)
<1>1. \A x \in Pairs : /\ Rank(x.name) \in Nat /\ Strings[Rank(x.name)] = x.name
                      /\ Rank(x.value) \in Nat /\ Strings[Rank(x.value)] = x.value
  BY RankOfString DEF Pairs
<1>2. /\ Rank(d.name) = Rank(e.name) => d.name = e.name
      /\ Rank(d.value) = Rank(e.value) => d.value = e.value
  <2>1. /\ Strings[Rank(d.name)] = d.name /\ Strings[Rank(e.name)] = e.name
        /\ Strings[Rank(d.value)] = d.value /\ Strings[Rank(e.value)] = e.value
    BY <1>1
  <2> QED
    BY <2>1, Zenon
<1>3. d.name = e.name /\ d.value = e.value => d = e
  BY DEF Pairs
<1>4. ~Before(d, d) /\ (Before(d, e) => ~Before(e, d))
  BY <1>1 DEF Before
<1>5. d # e => Before(d, e) \/ Before(e, d)
  <2>1. d # e => Rank(d.name) # Rank(e.name) \/ Rank(d.value) # Rank(e.value)
    BY <1>2, <1>3
  <2>2. Rank(d.name) = Rank(e.name) => d.name = e.name
    BY <1>2
  <2> QED
    BY <1>1, <2>1, <2>2 DEF Before
<1>6. ASSUME NEW f \in Pairs, Before(d, e), Before(e, f)
      PROVE  Before(d, f)
  BY <1>1, <1>6 DEF Before
<1> QED
  BY <1>4, <1>5, <1>6

\* The elements that lie before or at i after the sort.
UpTo(defs, i) ==
    {j \in DOMAIN defs : Before(defs[j], defs[i]) \/ (defs[j] = defs[i] /\ j <= i)}

LEMMA UpToGrows ==
    ASSUME NEW defs \in Seq(Pairs), NEW i \in DOMAIN defs, NEW j \in DOMAIN defs,
           Before(defs[i], defs[j]) \/ (defs[i] = defs[j] /\ i < j)
    PROVE  Position(defs, i) < Position(defs, j)
<1>1. \A k \in DOMAIN defs : defs[k] \in Pairs /\ k \in Nat
  BY ElementType
<1>2. j \in UpTo(defs, j) /\ j \notin UpTo(defs, i)
  <2>1. ~Before(defs[j], defs[i])
    BY <1>1, BeforeIsOrder
  <2>2. Before(defs[i], defs[j]) => defs[i] # defs[j]
    BY <1>1, BeforeIsOrder
  <2> QED
    BY <1>1, <2>1, <2>2 DEF UpTo
<1>3. \A k \in UpTo(defs, i) : k \in UpTo(defs, j)
  <2> TAKE k \in UpTo(defs, i)
  <2>1. k \in DOMAIN defs /\ (Before(defs[k], defs[i]) \/ (defs[k] = defs[i] /\ k <= i))
    BY DEF UpTo
  <2>2. Before(defs[k], defs[j]) \/ (defs[k] = defs[j] /\ k <= j)
    <3>1. CASE Before(defs[k], defs[i]) /\ Before(defs[i], defs[j])
      BY <1>1, <2>1, <3>1, BeforeIsOrder
    <3>2. CASE ~(Before(defs[k], defs[i]) /\ Before(defs[i], defs[j]))
      BY <1>1, <2>1, <3>2
    <3> QED
      BY <3>1, <3>2
  <2> QED
    BY <2>1, <2>2 DEF UpTo
<1>4. DOMAIN defs = 1..Len(defs) /\ Len(defs) \in Nat
  OBVIOUS
<1>5. IsFiniteSet(UpTo(defs, j))
  <2>1. UpTo(defs, j) \in SUBSET (1..Len(defs))
    BY <1>4 DEF UpTo
  <2>2. IsFiniteSet(1..Len(defs))
    BY <1>4, FS_Interval
  <2> QED
    BY <2>1, <2>2, FS_Subset
<1>6. UpTo(defs, i) \in SUBSET UpTo(defs, j) /\ UpTo(defs, i) # UpTo(defs, j)
  BY <1>2, <1>3
<1>7. /\ Cardinality(UpTo(defs, i)) <= Cardinality(UpTo(defs, j))
      /\ Cardinality(UpTo(defs, i)) # Cardinality(UpTo(defs, j))
      /\ Cardinality(UpTo(defs, i)) \in Nat /\ Cardinality(UpTo(defs, j)) \in Nat
  BY <1>5, <1>6, FS_Subset, FS_CardinalityType
<1> QED
  BY <1>7 DEF Position, UpTo

\* The sort gives each element a place of its own and leaves none empty.
LEMMA PositionIsBijection ==
    ASSUME NEW defs \in Seq(Pairs)
    PROVE  [i \in DOMAIN defs |-> Position(defs, i)] \in Bijection(DOMAIN defs, DOMAIN defs)
<1> DEFINE n   == Len(defs)
           pos == [i \in 1..n |-> Position(defs, i)]
<1>1. DOMAIN defs = 1..n /\ n \in Nat
  OBVIOUS
<1>2. IsFiniteSet(1..n) /\ Cardinality(1..n) = n
  BY SMTT(60), <1>1, FS_Interval
<1>3. ASSUME NEW i \in 1..n
      PROVE  Position(defs, i) \in 1..n
  <2>1. UpTo(defs, i) \in SUBSET (1..n)
    BY <1>1 DEF UpTo
  <2>2. IsFiniteSet(UpTo(defs, i)) /\ Cardinality(UpTo(defs, i)) <= n
    BY <1>2, <2>1, FS_Subset
  <2>3. i \in UpTo(defs, i)
    BY <1>1 DEF UpTo
  <2>4. Cardinality(UpTo(defs, i)) # 0 /\ Cardinality(UpTo(defs, i)) \in Nat
    BY <2>2, <2>3, FS_EmptySet, FS_CardinalityType
  <2> QED
    BY <1>1, <2>2, <2>4 DEF Position, UpTo
<1>4. pos \in [1..n -> 1..n]
  BY <1>3
<1>5. ASSUME NEW i \in 1..n, NEW j \in 1..n, i # j
      PROVE  Position(defs, i) # Position(defs, j)
  <2>1. defs[i] \in Pairs /\ defs[j] \in Pairs
    BY <1>1, ElementType
  <2>2. \/ Before(defs[i], defs[j]) \/ (defs[i] = defs[j] /\ i < j)
        \/ Before(defs[j], defs[i]) \/ (defs[j] = defs[i] /\ j < i)
    BY <2>1, <1>5, BeforeIsOrder
  <2>3. Position(defs, i) < Position(defs, j) \/ Position(defs, j) < Position(defs, i)
    BY <1>1, <2>2, UpToGrows
  <2> QED
    BY <1>3, <2>3
<1>6. \A i, j \in 1..n : pos[i] = pos[j] => i = j
  BY <1>5
<1>7. pos \in Injection(1..n, 1..n)
  BY <1>4, <1>6 DEF Injection, IsInjective
<1>8. pos \in Surjection(1..n, 1..n)
  <2> HIDE DEF pos, n
  <2> QED
    BY <1>2, <1>7, FS_Injection
<1> QED
  BY <1>1, <1>7, <1>8 DEF Bijection

LEMMA SortedHas ==
    ASSUME NEW defs \in Seq(Pairs)
    PROVE  /\ Sorted(defs) \in Seq(Pairs) /\ Len(Sorted(defs)) = Len(defs)
           /\ \A i \in DOMAIN defs : /\ Position(defs, i) \in DOMAIN defs
                                     /\ Sorted(defs)[Position(defs, i)] = defs[i]
           /\ \A i, j \in DOMAIN defs : Position(defs, i) = Position(defs, j) => i = j
           /\ \A k \in DOMAIN defs : \E i \in DOMAIN defs : Position(defs, i) = k
<1> DEFINE pos == [i \in DOMAIN defs |-> Position(defs, i)]
           at(k) == CHOOSE i \in DOMAIN defs : Position(defs, i) = k
<1>1. pos \in Bijection(DOMAIN defs, DOMAIN defs)
  BY PositionIsBijection
<1>2. \A i \in DOMAIN defs : Position(defs, i) \in DOMAIN defs
  BY <1>1 DEF Bijection, Injection
<1>3. \A i, j \in DOMAIN defs : Position(defs, i) = Position(defs, j) => i = j
  BY <1>1 DEF Bijection, Injection, IsInjective
<1>4. \A k \in DOMAIN defs : \E i \in DOMAIN defs : Position(defs, i) = k
  BY <1>1 DEF Bijection, Surjection
<1>5. \A k \in DOMAIN defs : at(k) \in DOMAIN defs /\ Position(defs, at(k)) = k
  BY <1>4
<1>6. \A i \in DOMAIN defs : at(Position(defs, i)) = i
  BY <1>2, <1>3, <1>5
<1>7. Sorted(defs) = [k \in DOMAIN defs |-> defs[at(k)]]
  BY DEF Sorted
<1> HIDE DEF at
<1>8. Sorted(defs) = [k \in 1..Len(defs) |-> defs[at(k)]]
      /\ \A k \in 1..Len(defs) : defs[at(k)] \in Pairs
  BY <1>5, <1>7, ElementType
<1>9. Sorted(defs) \in Seq(Pairs) /\ Len(Sorted(defs)) = Len(defs)
  BY <1>8
<1>10. \A i \in DOMAIN defs : Sorted(defs)[Position(defs, i)] = defs[i]
  BY <1>2, <1>6, <1>7
<1> QED
  BY <1>2, <1>3, <1>4, <1>9, <1>10

\* Two lists that sort to the same are permutations of each other.
LEMMA SameSorted ==
    ASSUME NEW a \in Seq(Pairs), NEW b \in Seq(Pairs), Sorted(a) = Sorted(b)
    PROVE  \E q \in Bijection(DOMAIN a, DOMAIN b) : \A i \in DOMAIN a : b[q[i]] = a[i]
<1> DEFINE to(i) == CHOOSE j \in DOMAIN b : Position(b, j) = Position(a, i)
           q     == [i \in DOMAIN a |-> to(i)]
<1>1. Len(a) = Len(b)
  BY SortedHas
<1>2. DOMAIN a = DOMAIN b
  BY <1>1
<1>3. \A i \in DOMAIN a : Position(a, i) \in DOMAIN b
  BY <1>2, SortedHas
<1>4. \A i \in DOMAIN a : to(i) \in DOMAIN b /\ Position(b, to(i)) = Position(a, i)
  BY <1>3, SortedHas
<1> HIDE DEF to
<1>5. \A i \in DOMAIN a : b[to(i)] = a[i]
  <2> TAKE i \in DOMAIN a
  <2>1. Sorted(b)[Position(b, to(i))] = b[to(i)]
    BY <1>4, SortedHas
  <2>2. Sorted(a)[Position(a, i)] = a[i]
    BY SortedHas
  <2> QED
    BY <1>4, <2>1, <2>2
<1>6. \A i, j \in DOMAIN a : to(i) = to(j) => i = j
  <2> TAKE i, j \in DOMAIN a
  <2>1. to(i) = to(j) => Position(a, i) = Position(a, j)
    BY <1>4
  <2> QED
    BY <2>1, SortedHas
<1>7. \A j \in DOMAIN b : \E i \in DOMAIN a : to(i) = j
  <2> TAKE j \in DOMAIN b
  <2>1. Position(b, j) \in DOMAIN a
    BY <1>2, SortedHas
  <2>2. PICK i \in DOMAIN a : Position(a, i) = Position(b, j)
    BY <2>1, SortedHas
  <2>3. to(i) = j
    BY <1>4, <2>2, SortedHas
  <2> QED
    BY <2>3
<1>8. q \in [DOMAIN a -> DOMAIN b]
  BY <1>4
<1>9. q \in Bijection(DOMAIN a, DOMAIN b)
  BY <1>6, <1>7, <1>8 DEF Bijection, Injection, Surjection, IsInjective
<1> QED
  BY <1>5, <1>9

LEMMA SubSequences ==
    ASSUME NEW S, NEW T, S \subseteq T, NEW s \in Seq(S)
    PROVE  s \in Seq(T)
OBVIOUS

LEMMA ConcatType ==
    ASSUME NEW S, NEW s \in Seq(S), NEW t \in Seq(S)
    PROVE  s \o t \in Seq(S) /\ Len(s \o t) = Len(s) + Len(t)
OBVIOUS

\* Two concatenations that are equal are equal in their parts.
LEMMA CutConcat ==
    ASSUME NEW S, NEW a \in Seq(S), NEW b \in Seq(S), NEW c \in Seq(S), NEW d \in Seq(S),
           a \o b = c \o d, Len(a) = Len(c)
    PROVE  a = c /\ b = d
<1>1. Len(b) = Len(d)
  <2>1. Len(a \o b) = Len(a) + Len(b) /\ Len(c \o d) = Len(c) + Len(d)
    BY SMTT(60)
  <2> QED
    BY <2>1
<1>2. ASSUME NEW i \in 1..Len(a)
      PROVE  a[i] = c[i]
  <2>1. (a \o b)[i] = a[i] /\ (c \o d)[i] = c[i]
    OBVIOUS
  <2> QED
    BY <2>1
<1>3. ASSUME NEW i \in 1..Len(b)
      PROVE  b[i] = d[i]
  <2>1. (a \o b)[Len(a) + i] = b[i] /\ (c \o d)[Len(c) + i] = d[i]
    BY SMTT(60), <1>1
  <2> QED
    BY <2>1
<1> QED
  BY SMTT(60), <1>1, <1>2, <1>3

LEMMA CutTwice ==
    ASSUME NEW S
    PROVE  \A a, b, c, d, e, f \in Seq(S) :
             /\ (a \o b) \o c = (d \o e) \o f /\ Len(a) = Len(d) /\ Len(b) = Len(e)
             => a = d /\ b = e /\ c = f
<1> TAKE a, b, c, d, e, f \in Seq(S)
<1> HAVE /\ (a \o b) \o c = (d \o e) \o f /\ Len(a) = Len(d) /\ Len(b) = Len(e)
<1>1. /\ a \o b \in Seq(S) /\ d \o e \in Seq(S)
      /\ Len(a \o b) = Len(d \o e)
  OBVIOUS
<1>2. a \o b = d \o e /\ c = f
  BY <1>1, CutConcat
<1> QED
  BY <1>2, CutConcat

\* The fingerprint of options with as many paths can be taken apart.
LEMMA FingerprintParts ==
    ASSUME NEW x \in Jobs, NEW y \in Jobs, Fingerprint(x) = Fingerprint(y),
           Len(x.includePaths) = Len(y.includePaths)
    PROVE  /\ Fixed(x) = Fixed(y)
           /\ x.includePaths = y.includePaths
           /\ Sorted(x.defines) = Sorted(y.defines)
<1> DEFINE s(o) == Sorted(o.defines)
           U    == STRING \cup ToSet(Fixed(x)) \cup ToSet(Fixed(y))
<1>1. \A o \in Jobs : o.includePaths \in Seq(STRING) /\ o.defines \in Seq(Pairs)
  BY JobsAssumption, StringsAssumption DEF Pairs
<1>2. /\ Fixed(x) \in Seq(U) /\ Fixed(y) \in Seq(U) /\ Len(Fixed(x)) = Len(Fixed(y))
      /\ x.includePaths \in Seq(U) /\ y.includePaths \in Seq(U)
  <2>1. STRING \subseteq U
    OBVIOUS
  <2>2. x.includePaths \in Seq(STRING) /\ y.includePaths \in Seq(STRING)
    BY <1>1
  <2>3. Fixed(x) \in Seq(U) /\ Fixed(y) \in Seq(U) /\ Len(Fixed(x)) = Len(Fixed(y))
    BY DEF Fixed, ToSet
  <2>4. x.includePaths \in Seq(U) /\ y.includePaths \in Seq(U)
    BY <2>1, <2>2, SubSequences
  <2> QED
    BY <2>3, <2>4
<1>3. ASSUME NEW o \in Jobs
      PROVE  /\ s(o) \in Seq(Pairs)
             /\ InPairs(s(o)) \in Seq(U) /\ Len(InPairs(s(o))) = 2 * Len(s(o))
             /\ \A k \in 1..Len(s(o)) : /\ InPairs(s(o))[2*k - 1] = s(o)[k].name
                                        /\ InPairs(s(o))[2*k] = s(o)[k].value
  <2>1. s(o) \in Seq(Pairs) /\ Len(s(o)) \in Nat
    BY <1>1, SortedHas
  <2> HIDE DEF s
  <2>2. ToSet(Strings) \subseteq U
    <3>1. Strings \in Seq(STRING)
      BY StringsAssumption
    <3> QED
      BY <3>1 DEF ToSet
  <2> HIDE DEF U
  <2>3. \A k \in 1..Len(s(o)) : s(o)[k].name \in U /\ s(o)[k].value \in U
    <3>1. \A k \in 1..Len(s(o)) : s(o)[k] \in Pairs
      BY <2>1, ElementType
    <3> QED
      BY <2>2, <3>1 DEF Pairs
  <2>4. \A k \in 1 .. 2 * Len(s(o)) :
          /\ k % 2 = 1 => (k + 1) \div 2 \in 1..Len(s(o))
          /\ k % 2 # 1 => k \div 2 \in 1..Len(s(o))
    BY <2>1
  <2>5. /\ InPairs(s(o)) \in Seq(U) /\ Len(InPairs(s(o))) = 2 * Len(s(o))
    <3> DEFINE e(k) == IF k % 2 = 1 THEN s(o)[(k + 1) \div 2].name ELSE s(o)[k \div 2].value
    <3>1. \A k \in 1 .. 2 * Len(s(o)) : e(k) \in U
      BY <2>3, <2>4
    <3>2. InPairs(s(o)) = [k \in 1 .. 2 * Len(s(o)) |-> e(k)]
      BY DEF InPairs
    <3> HIDE DEF e
    <3>3. 2 * Len(s(o)) \in Nat
      BY <2>1
    <3> QED
      BY <3>1, <3>2, <3>3
  <2>6. ASSUME NEW k \in 1..Len(s(o))
        PROVE  /\ InPairs(s(o))[2*k - 1] = s(o)[k].name
               /\ InPairs(s(o))[2*k] = s(o)[k].value
    <3>1. /\ 2*k - 1 \in 1 .. 2 * Len(s(o)) /\ 2*k \in 1 .. 2 * Len(s(o))
          /\ (2*k - 1) % 2 = 1 /\ (2*k - 1 + 1) \div 2 = k
          /\ (2*k) % 2 = 0 /\ (2*k) \div 2 = k
      BY <2>1
    <3> QED
      BY <3>1 DEF InPairs
  <2> QED
    BY <2>1, <2>5, <2>6
<1> HIDE DEF s, U
<1>4. /\ s(x) \in Seq(Pairs) /\ s(y) \in Seq(Pairs)
      /\ InPairs(s(x)) \in Seq(U) /\ InPairs(s(y)) \in Seq(U)
  BY <1>3
<1>5. (Fixed(x) \o x.includePaths) \o InPairs(s(x))
        = (Fixed(y) \o y.includePaths) \o InPairs(s(y))
  BY DEF Fingerprint, s
<1>8. /\ Fixed(x) = Fixed(y) /\ x.includePaths = y.includePaths
      /\ InPairs(s(x)) = InPairs(s(y))
  <2> DEFINE W == Seq(U)
  <2>1. \A a, b, c, d, e, f \in W :
          /\ (a \o b) \o c = (d \o e) \o f /\ Len(a) = Len(d) /\ Len(b) = Len(e)
          => a = d /\ b = e /\ c = f
    BY CutTwice, Zenon
  <2>2. /\ Fixed(x) \in W /\ x.includePaths \in W /\ InPairs(s(x)) \in W
        /\ Fixed(y) \in W /\ y.includePaths \in W /\ InPairs(s(y)) \in W
    BY <1>2, <1>4
  <2> HIDE DEF W
  <2> QED
    BY ZenonT(60), <1>2, <1>5, <2>1, <2>2
<1>9. s(x) = s(y)
  <2>1. Len(s(x)) = Len(s(y)) /\ Len(s(x)) \in Nat
    <3>1. 2 * Len(s(x)) = 2 * Len(s(y))
      BY <1>3, <1>8
    <3>2. Len(s(x)) \in Nat /\ Len(s(y)) \in Nat
      BY <1>4
    <3> QED
      BY <3>1, <3>2
  <2>2. ASSUME NEW k \in 1..Len(s(x))
        PROVE  s(x)[k] = s(y)[k]
    <3>1. s(x)[k] \in Pairs /\ s(y)[k] \in Pairs
      BY <1>4, <2>1, ElementType
    <3>2. s(x)[k].name = s(y)[k].name /\ s(x)[k].value = s(y)[k].value
      <4>1. /\ InPairs(s(x))[2*k - 1] = s(x)[k].name /\ InPairs(s(x))[2*k] = s(x)[k].value
            /\ InPairs(s(y))[2*k - 1] = s(y)[k].name /\ InPairs(s(y))[2*k] = s(y)[k].value
        BY <1>3, <2>1
      <4> QED
        BY <1>8, <4>1, Zenon
    <3> QED
      BY <3>1, <3>2 DEF Pairs
  <2> QED
    BY <1>4, <2>1, <2>2
<1> QED
  BY <1>8, <1>9 DEF s

\* Permuted defines without a name twice define each name the same way, with
\* the constants of the permutation behind them.
LEMMA SameMacros ==
    ASSUME NEW P, NEW a \in Seq(P), NEW b \in Seq(P), NEW S, NEW c \in Seq(S), NEW n,
           ~Duplicates(a),
           NEW q \in Bijection(DOMAIN a, DOMAIN b), \A i \in DOMAIN a : b[q[i]] = a[i],
           Len(a) = Len(b)
    PROVE  SameDefinitions(a \o c, b \o c, n)
<1> DEFINE A == a \o c
           B == b \o c
           f == [i \in Places(A, n) |-> IF i <= Len(a) THEN q[i] ELSE i]
<1>1. /\ DOMAIN a = 1..Len(a) /\ DOMAIN b = 1..Len(a) /\ DOMAIN c = 1..Len(c)
      /\ Len(a) \in Nat /\ Len(c) \in Nat
  OBVIOUS
<1>2. /\ DOMAIN A = 1 .. Len(a) + Len(c) /\ DOMAIN B = 1 .. Len(a) + Len(c)
      /\ \A i \in 1 .. Len(a) : A[i] = a[i] /\ B[i] = b[i]
      /\ \A i \in Len(a) + 1 .. Len(a) + Len(c) : A[i] = B[i]
  OBVIOUS
<1>3. /\ \A i \in 1 .. Len(a) : q[i] \in 1 .. Len(a) /\ b[q[i]] = a[i]
      /\ \A i, j \in 1 .. Len(a) : q[i] = q[j] => i = j
      /\ \A j \in 1 .. Len(a) : \E i \in 1 .. Len(a) : q[i] = j
  BY <1>1 DEF Bijection, Injection, Surjection, IsInjective
<1>4. \A i, j \in 1 .. Len(a) : a[i].name = n /\ a[j].name = n => i = j
  BY <1>1 DEF Duplicates
<1> HIDE DEF A, B
<1>5. /\ \A i : i \in Places(A, n) <=> i \in 1 .. Len(a) + Len(c) /\ A[i].name = n
      /\ \A i : i \in Places(B, n) <=> i \in 1 .. Len(a) + Len(c) /\ B[i].name = n
  BY <1>2 DEF Places
<1>6. \A i \in Places(A, n) : f[i] = IF i <= Len(a) THEN q[i] ELSE i
  OBVIOUS
<1>7. DOMAIN f = Places(A, n) /\ f = [i \in Places(A, n) |-> f[i]]
  OBVIOUS
<1> HIDE DEF f
<1>8. ASSUME NEW i \in Places(A, n)
      PROVE  /\ f[i] \in Places(B, n) /\ B[f[i]] = A[i]
             /\ i <= Len(a) => f[i] \in 1 .. Len(a) /\ f[i] = q[i]
             /\ i > Len(a) => f[i] = i
             /\ i \in Nat /\ f[i] \in Nat
  <2>1. i \in 1 .. Len(a) + Len(c) /\ A[i].name = n
    BY <1>5
  <2>2. CASE i <= Len(a)
    <3>1. i \in 1 .. Len(a) /\ f[i] = q[i]
      BY <1>1, <1>6, <2>1, <2>2
    <3>2. q[i] \in 1 .. Len(a) /\ B[q[i]] = A[i]
      BY <1>2, <1>3, <3>1
    <3>3. q[i] \in 1 .. Len(a) + Len(c)
      BY <1>1, <3>2
    <3>4. f[i] \in Places(B, n)
      BY <1>5, <2>1, <3>1, <3>2, <3>3
    <3> QED
      BY <1>1, <2>2, <3>1, <3>2, <3>4
  <2>3. CASE i > Len(a)
    <3>1. i \in Len(a) + 1 .. Len(a) + Len(c) /\ f[i] = i
      BY <1>1, <1>6, <2>1, <2>3
    <3>2. A[i] = B[i]
      BY <1>2, <3>1
    <3>3. i \in Places(B, n)
      BY <1>5, <2>1, <3>2
    <3> QED
      BY <1>1, <2>3, <3>1, <3>2, <3>3
  <2> QED
    BY <1>1, <2>1, <2>2, <2>3
<1>9. ASSUME NEW i \in Places(A, n), NEW j \in Places(A, n), i < j
      PROVE  f[i] < f[j]
  <2>1. i \in 1 .. Len(a) + Len(c) /\ j \in 1 .. Len(a) + Len(c)
    BY <1>5
  <2>2. i \in 1 .. Len(a) => a[i].name = n
    BY <1>2, <1>5
  <2>3. j \in 1 .. Len(a) => a[j].name = n
    BY <1>2, <1>5
  <2>4. ~(j <= Len(a))
    BY <1>1, <1>4, <1>9, <2>1, <2>2, <2>3
  <2> QED
    BY SMTT(60), <1>1, <1>8, <1>9, <2>1, <2>4
<1>10. ASSUME NEW j \in Places(B, n)
       PROVE  \E i \in Places(A, n) : f[i] = j
  <2>1. j \in 1 .. Len(a) + Len(c) /\ B[j].name = n
    BY <1>5
  <2>2. CASE j \in 1 .. Len(a)
    <3>1. PICK i \in 1 .. Len(a) : q[i] = j
      BY <1>3, <2>2
    <3>2. A[i] = B[j]
      BY <1>2, <1>3, <2>2, <3>1
    <3>3. i \in 1 .. Len(a) + Len(c)
      BY <1>1
    <3>4. i \in Places(A, n)
      BY <1>5, <2>1, <3>2, <3>3
    <3> QED
      BY <1>1, <1>8, <3>1, <3>4
  <2>3. CASE j \in Len(a) + 1 .. Len(a) + Len(c)
    <3>1. j \in Places(A, n)
      BY <1>2, <1>5, <2>1, <2>3
    <3> QED
      BY <1>1, <1>8, <2>3, <3>1
  <2> QED
    BY <1>1, <2>1, <2>2, <2>3
<1>11. f \in [Places(A, n) -> Places(B, n)]
  BY <1>7, <1>8
<1>12. \A i, j \in Places(A, n) : f[i] = f[j] => i = j
  BY SMTT(60), <1>8, <1>9
<1>13. f \in Bijection(Places(A, n), Places(B, n))
  BY <1>7, <1>10, <1>11, <1>12 DEF Bijection, Injection, Surjection, IsInjective
<1>14. SameDefinitions(A, B, n)
  BY <1>8, <1>9, <1>13 DEF SameDefinitions
<1> QED
  BY <1>14 DEF A, B

\* Options with one fingerprint give Slang the same session, for any options:
\* the same paths, and the same definitions of every macro.
THEOREM FingerprintIsEnough == Spec => []FingerprintDecides
<1>1. StepInv /\ SessionInv => FingerprintDecides
  <2> SUFFICES ASSUME StepInv, SessionInv, pc = "session", NEW other \in Jobs,
                      SameWork(other, job), ~Duplicates(job.defines),
                      Len(other.includePaths) = Len(job.includePaths),
                      Fingerprint(other) = Fingerprint(job),
                      NEW n
               PROVE  /\ other.entryPoint = job.entryPoint
                      /\ other.emitReflection = job.emitReflection
                      /\ desc.profile = ProfileOf(other)
                      /\ desc.languageVersion = VersionOf(other)
                      /\ desc.searchPaths = SearchPaths(other.includePaths)
                      /\ SameDefinitions(desc.macros, Macros(other.defines, other.constants), n)
    BY DEF FingerprintDecides
  <2>1. /\ job \in Jobs /\ desc.searchPaths = job.includePaths
        /\ desc.macros = job.defines \o job.constants
    BY DEF SessionInv, SessionStringsIntact
  <2>2. /\ Fixed(other) = Fixed(job) /\ other.includePaths = job.includePaths
        /\ Sorted(other.defines) = Sorted(job.defines)
    BY <2>1, FingerprintParts
  <2>3. other.includePaths \in Seq(STRING)
    BY JobsAssumption
  <2>4. desc.searchPaths = SearchPaths(other.includePaths)
    BY <2>1, <2>2, <2>3, ReservedIsIntact DEF SearchPaths
  <2>5. /\ job.defines \in Seq(Pairs) /\ other.defines \in Seq(Pairs)
        /\ job.constants \in Seq([name : STRING, value : STRING])
    BY <2>1, StringsAssumption DEF Pairs
  <2>6. PICK q \in Bijection(DOMAIN job.defines, DOMAIN other.defines) :
          \A i \in DOMAIN job.defines : other.defines[q[i]] = job.defines[i]
    BY <2>2, <2>5, SameSorted
  <2>7. Len(job.defines) = Len(other.defines)
    BY <2>2, <2>5, SortedHas
  <2>8. SameDefinitions(job.defines \o job.constants, other.defines \o job.constants, n)
    BY <2>5, <2>6, <2>7, SameMacros
  <2>9. other.constants = job.constants
    BY DEF SameWork
  <2>10. /\ desc.profile = ProfileOf(job) /\ desc.languageVersion = VersionOf(job)
         /\ other.profile = job.profile /\ other.entryPoint = job.entryPoint
         /\ other.emitReflection = job.emitReflection
         /\ other.languageVersion = job.languageVersion
    <3>1. ~refused
      BY DEF StepInv
    <3> QED
      BY <2>2, <3>1 DEF StepInv, Fixed
  <2> QED
    BY <2>1, <2>2, <2>4, <2>8, <2>9, <2>10 DEF Macros, ProfileOf, VersionOf
<1> QED
  BY <1>1, StepInvariant, SessionInvariant, PTL
=============================================================================
