--------------------------- MODULE MCCompileSteps ---------------------------
(***************************************************************************)
(* Up to three include paths, short and long; up to three type parameters  *)
(* and arguments, types and expressions, in every order; modules Slang     *)
(* cannot bind; no, one and two entry points, which Slang returns or fails *)
(* to return; dependencies with and without a path; known and unknown      *)
(* profiles and language versions; up to two paths and defines that share  *)
(* their strings.                                                          *)
(***************************************************************************)
EXTENDS OptionsHash

Params == {"T", "U", "V"}
Values == {"Wood", "Array<Wood, 4>", "Vec<Wood>"}

MCShort == {"inc", "lib", "A", "0", "Vec<Wood>", "Array<Wood, 4>"}

Unit(params, other, null, eps) ==
    [typeParams |-> params, otherParams |-> other, nullParam |-> null, layout |-> TRUE,
     types |-> {"Wood"}, entryPoints |-> eps, failing |-> {},
     dependencies |-> {"s.slang", "lib.slang"}, pathless |-> {}]

Def(name, value) == [name |-> name, value |-> value]

Job(includePaths, typeArgs, unit, entryPoint) ==
    [defines |-> <<Def("G", "1")>>, constants |-> <<Def("A", "0"), Def("B", "1")>>, includePaths |-> includePaths,
     typeArgs |-> typeArgs, entryPoint |-> entryPoint, unit |-> unit,
     profile |-> "", languageVersion |-> "", readable |-> TRUE, emitReflection |-> TRUE]

Args == BoundedSeq([name : Params, value : Values], 3)

Specializations ==
    {Job(<<>>, args, Unit(params, 0, FALSE, {"main"}), "")
       : args \in Args,
         params \in {<<>>, <<"T">>, <<"U", "T">>, <<"V", "T", "U">>}}

Paths == BoundedSeq({"inc", "lib", "a/rather/long/path"}, 3)

Sessions == {Job(paths, <<>>, Unit(<<>>, 0, FALSE, {"main"}), "") : paths \in Paths}

OneArg == <<[name |-> "T", value |-> "Wood"]>>

Others ==
    {[Job(<<>>, OneArg, Unit(<<"T">>, other, null, eps), entryPoint)
        EXCEPT !.readable = readable, !.emitReflection = reflection, !.unit.layout = layout]
       : other \in 0..1, null \in BOOLEAN, eps \in {{}, {"main"}, {"main", "other"}},
         entryPoint \in {"", "main"}, readable \in BOOLEAN, reflection \in BOOLEAN,
         layout \in BOOLEAN}

\* What Slang does not return.
Skips ==
    {[Job(<<>>, <<>>, Unit(<<>>, 0, FALSE, eps), entryPoint)
        EXCEPT !.unit.failing = failing, !.unit.pathless = pathless]
       : eps \in {{"main"}, {"main", "other"}}, entryPoint \in {"", "main", "other"},
         failing \in SUBSET {"main", "other"}, pathless \in SUBSET {"s.slang", "lib.slang"}}

\* Options Slang understands and others.
Versions ==
    {[Job(<<>>, <<>>, Unit(<<>>, 0, FALSE, {"main"}), "")
        EXCEPT !.profile = profile, !.languageVersion = version]
       : profile \in {"", "sm_6_6", "sm_9"}, version \in {"", "2025", "2025b", "latest"}}

MCProfiles == {"sm_6_6"}

\* A string that begins with an integer is one.
MCStoi == [v \in {"2025", "2025b"} |-> 2025]

\* The strings of paths and defines, in their order.
MCStrings == <<"0", "1", "A", "B", "G">>

OptionSets ==
    {[Job(paths, <<>>, Unit(<<>>, 0, FALSE, {"main"}), "") EXCEPT !.defines = defines]
       : paths \in BoundedSeq({"A", "0"}, 2),
         defines \in BoundedSeq([name : {"A", "B"}, value : {"0", "1"}], 2)}

MCJobs == Specializations \cup Sessions \cup Others \cup Skips \cup Versions \cup OptionSets
=============================================================================
