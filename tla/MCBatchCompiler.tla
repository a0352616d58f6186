--------------------------- MODULE MCBatchCompiler ---------------------------
(***************************************************************************)
(* A source file in four versions:                                         *)
(*   "plain"    one axis with two values: p0, and p1, which includes the   *)
(*              header                                                     *)
(*   "noRefl"   no directive, "// [noreflection]"                          *)
(*   "dupAxes"  two directives for that axis                               *)
(*   "broken"   as plain without the header, and p0 does not compile       *)
(* The command line may narrow the axis to p1.                             *)
(***************************************************************************)
EXTENDS BatchCompiler, TLC

MCContents  == {"plain", "noRefl", "dupAxes", "broken", "header1", "header2"}
MCVersions  ==
    "main"      :> {"plain", "noRefl", "dupAxes", "broken", Absent}
    @@ "header" :> {"header1", "header2", Absent}

MCKey(p) == IF p = DefaultPerm THEN "" ELSE p

MCScript(content, override) ==
    [dup |-> content = "dupAxes" /\ override = "none",
     perms |-> IF override = "p1 only" THEN <<"p1">>
               ELSE IF content \in {"plain", "broken"} THEN <<"p0", "p1">>
               ELSE <<DefaultPerm>>]

MCNoReflection(content) == content = "noRefl"

MCOptionsHash(t, f, r) == <<t, f, r>>

MCContentHash(content) ==
    CHOOSE n \in 1 .. 6 :
        content = <<"plain", "noRefl", "dupAxes", "broken", "header1", "header2">>[n]

MCCodes ==
    [options : [target : Targets, flags : Flags, refl : BOOLEAN], perm : Perms,
     text : Contents, header : MaybeContent] \cup {EmptyCode}

MCSlang(o, p, fs) ==
    LET text     == fs[o.input]
        includes == text = "plain" /\ p = "p1"
        ok       == /\ text # Absent
                    /\ includes => fs["header"] # Absent
                    /\ ~(text = "broken" /\ p = "p0")
    IN  [success |-> ok,
         code    |-> IF ok
                     THEN [options |-> [target |-> o.target, flags |-> o.flags,
                                        refl |-> o.refl],
                           perm |-> p, text |-> text,
                           header |-> IF includes THEN fs["header"] ELSE Absent]
                     ELSE EmptyCode,
         deps    |-> IF includes THEN <<o.input, "header">> ELSE <<o.input>>]

\* The calls vary one setting at a time.
Usual ==
    [source |-> "main", target |-> "SPIRV", flags |-> "O1", refl |-> TRUE,
     override |-> "none", incremental |-> TRUE, keepGoing |-> FALSE,
     compress |-> FALSE]

MCCalls ==
    {Usual, [Usual EXCEPT !.target = "DXIL"], [Usual EXCEPT !.flags = "O2"],
     [Usual EXCEPT !.refl = FALSE], [Usual EXCEPT !.override = "p1 only"],
     [Usual EXCEPT !.incremental = FALSE], [Usual EXCEPT !.keepGoing = TRUE]}

\* For the runs that look for a violation.
MCFewCalls == {Usual, [Usual EXCEPT !.override = "p1 only"]}

\* Two source files that are compiled into one output file.
MCTwoVersions == "main" :> {"plain"} @@ "copy" :> {"broken"} @@ "header" :> {"header1"}
MCTwoCalls    == {Usual, [Usual EXCEPT !.source = "copy"]}
=============================================================================
