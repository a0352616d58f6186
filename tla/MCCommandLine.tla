--------------------------- MODULE MCCommandLine ----------------------------
(***************************************************************************)
(* Three families of command lines.  Layouts: one file of up to 4 pieces   *)
(* of comments, directives and code.  Lists: one value list of up to       *)
(* MaxList characters, in the file and as an option.  Trees: a directory   *)
(* with two sources of one name, a header and a directory called x.slang,  *)
(* or one file, under the options that matter.                             *)
(***************************************************************************)
EXTENDS CommandLine

CONSTANT MaxList

MCMarkers == ("A={" :> [kind |-> "constant", name |-> "A"]) @@
             ("B={" :> [kind |-> "constant", name |-> "B"]) @@
             ("T={" :> [kind |-> "type", name |-> "T"])

MCNames == <<"A", "B", "T">>

Path(dir, stem, ext) == [dir |-> dir, stem |-> stem, ext |-> ext]
File(text)           == [regular |-> TRUE, text |-> text]
Arg(kind, name, rest) == [kind |-> kind, name |-> name, rest |-> rest]

Single == Path("", "s", "slang")

Command(text, perms) ==
    [dump |-> "no", wellFormed |-> TRUE, isDirectory |-> FALSE, outputIsFile |-> TRUE,
     input |-> Single, output |-> Path("", "o", "bin"), keepGoing |-> FALSE,
     perms |-> perms, tree |-> (Single :> File(text)), old |-> {}]

Directive(m, list) == <<"/", "/", " ", m>> \o list \o <<"}">>

Pieces == {<<"/">>, <<"/", "/">>, <<"/", "*">>, <<"*", "/">>, <<NewLine>>,
           <<"x">>, <<NoReflection>>, <<"A={", "1", "}">>}

Layouts == {Command(FlattenSeq(pieces), <<>>) : pieces \in BoundedSeq(Pieces, 4)}

ListChars == {"1", ",", "<", ">", "{", "}", "(", "\"", "\\"}

Lists ==
    {Command(Directive(m, list), <<Arg(MCMarkers[m].kind, MCMarkers[m].name,
                                       <<"{">> \o list \o <<"}">>)>>)
       : m \in {"A={", "T={"}, list \in BoundedSeq(ListChars, MaxList)}

Two(a, b) == <<a, ",", b>>

SomeTexts == {<<"x">>,
              Directive("A={", Two("0", "1")),
              Directive("A={", Two("0", "1")) \o <<NewLine>> \o Directive("T={", Two("u", "v")),
              Directive("B={", <<"0">>) \o <<NewLine>> \o Directive("B={", <<"1">>)}

SomePerms == {<<>>,
              <<Arg("constant", "A", <<"{", "0", ",", "0", "}">>)>>,
              <<Arg("constant", "B", <<"{", "2", "}">>), Arg("type", "T", <<"{", "w", "}">>)>>,
              <<Arg("constant", "A", <<"{", "1", "=", "}">>), Arg("type", "A", <<"{", "1", "}">>)>>,
              <<Arg("constant", "", <<"{", "1", "}">>)>>,
              <<Arg("constant", "A", <<"1">>)>>}

Tree(t1, t2) ==
    (Path("", "a", "slang") :> File(t1)) @@
    (Path("d", "a", "slang") :> File(t2)) @@
    (Path("d", "h", "slangh") :> File(<<"x">>)) @@
    (Path("", "x", "slang") :> [regular |-> FALSE, text |-> <<>>])

Trees ==
    {[dump |-> dump, wellFormed |-> wellFormed, isDirectory |-> TRUE,
      outputIsFile |-> outputIsFile, input |-> Single, output |-> Path("", "o", "bin"),
      keepGoing |-> keepGoing, perms |-> perms, tree |-> Tree(t1, t2),
      old |-> {Path("", "a", "bin"), Path("", "gone", "bin")}]
       : dump \in {"no", "valid", "invalid"}, wellFormed \in BOOLEAN,
         outputIsFile \in BOOLEAN, keepGoing \in BOOLEAN, perms \in SomePerms,
         t1 \in SomeTexts, t2 \in SomeTexts}

\* A file that is not there.
Absent == {[Command(<<>>, perms) EXCEPT !.tree = <<>>, !.keepGoing = keepGoing]
             : perms \in SomePerms, keepGoing \in BOOLEAN}

MCInvocations == Layouts \cup Lists \cup Trees \cup Absent
=============================================================================
