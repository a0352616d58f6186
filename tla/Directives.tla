----------------------------- MODULE Directives -----------------------------
(***************************************************************************)
(* Permutation directives (src/src/slangmake_util.cpp): block comments are *)
(* stripped, a line that starts a comment with a marker declares an axis,  *)
(* the value list of an axis is found and split, axes of a file and of the *)
(* command line are merged and multiplied out.                             *)
(*                                                                         *)
(* A text is a sequence of characters, except that the fixed start of a    *)
(* directive, "[permutation] A={" with its blanks, is one symbol: a member *)
(* of DOMAIN Markers, or NoReflection for "[noreflection]".                *)
(***************************************************************************)
EXTENDS Naturals, Sequences, SequencesExt, FiniteSetsExt, Loops

CONSTANTS
    Markers,      \* the axis (kind and name) a directive's start declares
    NoReflection, \* the symbol for "[noreflection]"
    Names         \* the axis names in the order of std::string

Blank   == {" ", "\t", "\r"}
NewLine == "\n"

\* The start of a directive is no blank.
ASSUME MarkersAssumption == DOMAIN Markers \cap (Blank \cup {NewLine}) = {}

\* At(s, i) is what s has at i, if it is that long.
At(s, i) == IF i \in 1..Len(s) THEN s[i] ELSE ""

IsPair(s, i, a, b) == At(s, i) = a /\ At(s, i + 1) = b

\* The first position from i on that satisfies P, one past the end if none.
FirstFrom(s, i, P(_)) ==
    LET here == {j \in i..Len(s) : P(j)}
    IN  IF here = {} THEN Len(s) + 1 ELSE Min(here)

SkipWs(s, i) == FirstFrom(s, i, LAMBDA j : s[j] \notin {" ", "\t"})

Trim(s) ==
    LET ink == {i \in 1..Len(s) : s[i] \notin Blank \cup {NewLine}}
    IN  IF ink = {} THEN <<>> ELSE SubSeq(s, Min(ink), Max(ink))

-----------------------------------------------------------------------------
(* The two scanners of a value list.  They count brackets of each kind on  *)
(* their own, angle brackets only in the list of a type axis, and nothing  *)
(* inside quotes.                                                          *)

Quotes   == {"\"", "'"}
Closers  == {")", "]", "}"}
OpenerOf == [c \in Closers |-> CASE c = ")" -> "(" [] c = "]" -> "[" [] c = "}" -> "{"]
Openers  == {OpenerOf[c] : c \in Closers}

ScanStart == [depth |-> [b \in Openers |-> 0], angle |-> 0, quote |-> "", escape |-> FALSE]

\* What one character does to the counters.
ScanChar(st, ch, nesting) ==
    IF st.quote # "" THEN
        IF st.escape THEN [st EXCEPT !.escape = FALSE]
        ELSE IF ch = "\\" THEN [st EXCEPT !.escape = TRUE]
        ELSE IF ch = st.quote THEN [st EXCEPT !.quote = ""] ELSE st
    ELSE CASE ch \in Quotes  -> [st EXCEPT !.quote = ch]
           [] ch = "<"       -> [st EXCEPT !.angle = IF nesting THEN @ + 1 ELSE @]
           [] ch = ">"       -> [st EXCEPT !.angle = IF nesting /\ @ > 0 THEN @ - 1 ELSE @]
           [] ch \in Openers -> [st EXCEPT !.depth[ch] = @ + 1]
           [] ch \in Closers /\ st.depth[OpenerOf[ch]] > 0
                             -> [st EXCEPT !.depth[OpenerOf[ch]] = @ - 1]
           [] OTHER          -> st

\* The counters before each character from start on, and after the last.
ScanFrom(s, start, nesting) ==
    LET at[i \in start..Len(s) + 1] ==
          IF i = start THEN ScanStart ELSE ScanChar(at[i - 1], s[i - 1], nesting)
    IN  at

Flat(st)          == st.angle = 0 /\ \A b \in Openers : st.depth[b] = 0
Unmatched(st, ch) == st.quote = "" /\ ch \in Closers /\ st.depth[OpenerOf[ch]] = 0

\* Mutant: the list ends at the first closing brace.
FindListEndFirst(s, start, nesting) ==
    LET i == FirstFrom(s, start, LAMBDA j : s[j] = "}") IN IF i > Len(s) THEN 0 ELSE i

\* findDirectiveValueListEnd: the closing brace that has no opening one, if
\* nothing else is open there and nothing else was closed before; else 0.
FindListEnd(s, start, nesting) ==
    LET at == ScanFrom(s, start, nesting)
        i  == FirstFrom(s, start, LAMBDA j : Unmatched(at[j], s[j]))
    IN  IF i <= Len(s) /\ s[i] = "}" /\ Flat(at[i]) THEN i ELSE 0

\* nullopt: no value of a list is empty.
NotAList == << <<>> >>

\* parsePermutationValueList: the values between commas at depth 0, without
\* blanks around them and without the empty ones.
ParseValueList(s, nesting) ==
    LET n        == Len(s)
        at       == ScanFrom(s, 1, nesting)
        cuts     == {i \in 1..n : s[i] = "," /\ at[i].quote = "" /\ Flat(at[i])}
        start(i) == Max({0} \cup {c \in cuts : c < i}) + 1
        token(i) == Trim(SubSeq(s, start(i), i - 1))
        ends     == {i \in cuts \cup {n + 1} : token(i) # <<>>}
    IN  IF \/ \E i \in 1..n : Unmatched(at[i], s[i])
           \/ at[n + 1].quote # "" \/ ~Flat(at[n + 1])
        THEN NotAList
        ELSE PushBacks([i \in ends |-> token(i)], n + 1)

-----------------------------------------------------------------------------
(* From a source text to its directives.                                   *)

\* Where the loop over a block comment that opens at i leaves off: after the
\* closing pair, or at the last character when there is none (of the symbols
\* for several characters that one says nothing).
BlockEnd(s, i) ==
    LET j == FirstFrom(s, i + 2, LAMBDA k : IsPair(s, k, "*", "/"))
    IN  CASE j < Len(s)     -> j + 2
          [] i + 2 > Len(s) -> i + 2
          [] OTHER -> IF s[Len(s)] \in DOMAIN Markers \cup {NoReflection}
                      THEN Len(s) + 1 ELSE Len(s)

\* Mutant: the search for the end starts at the star that opened the comment.
StripBlockCommentsShort(s) ==
    LET end(i) == LET j == FirstFrom(s, i + 1, LAMBDA k : IsPair(s, k, "*", "/"))
                  IN  IF j < Len(s) THEN j + 2 ELSE Len(s) + 1
        from[i \in 1..Len(s) + 2] ==
          IF i > Len(s) THEN <<>>
          ELSE IF IsPair(s, i, "/", "*") THEN <<" ">> \o from[end(i)]
          ELSE <<s[i]>> \o from[i + 1]
    IN  from[1]

\* A block comment becomes a blank.  "//" means nothing here.
StripBlockComments(s) ==
    LET from[i \in 1..Len(s) + 2] ==
          IF i > Len(s) THEN <<>>
          ELSE IF IsPair(s, i, "/", "*") THEN <<" ">> \o from[BlockEnd(s, i)]
          ELSE <<s[i]>> \o from[i + 1]
    IN  from[1]

Lines(s) ==
    LET ends == SetToSortSeq({i \in 1..Len(s) : s[i] = NewLine} \cup {Len(s) + 1}, <)
    IN  [k \in DOMAIN ends |-> SubSeq(s, IF k = 1 THEN 1 ELSE ends[k - 1] + 1, ends[k] - 1)]

\* Where a comment line has its first symbol, 0 if it is none.
CommentBody(line) ==
    LET i == SkipWs(line, 1)
    IN  IF IsPair(line, i, "/", "/") THEN SkipWs(line, i + 2) ELSE 0

\* The axis a line declares, as a sequence of at most one.
ParseLine(line) ==
    LET i == CommentBody(line)
    IN  IF i = 0 \/ At(line, i) \notin DOMAIN Markers THEN <<>>
        ELSE LET axis    == Markers[line[i]]
                 nesting == axis.kind = "type"
                 close   == FindListEnd(line, i + 1, nesting)
                 values  == ParseValueList(SubSeq(line, i + 1, close - 1), nesting)
             IN  IF close = 0 \/ values \in {NotAList, <<>>} THEN <<>>
                 ELSE <<[kind |-> axis.kind, name |-> axis.name, values |-> values]>>

\* PermutationParser::parse.
ParseDirectives(s) ==
    LET lines == Lines(StripBlockComments(s))
    IN  FlattenSeq([k \in DOMAIN lines |-> ParseLine(lines[k])])

\* sourceHasNoReflection.
SourceHasNoReflection(s) ==
    \E line \in ToSet(Lines(StripBlockComments(s))) :
      LET i == CommentBody(line) IN i # 0 /\ At(line, i) = NoReflection

-----------------------------------------------------------------------------
(* From axes to permutations.                                              *)

NamesOf(axes) == {axes[i].name : i \in DOMAIN axes}

\* mergePermutationDefines.
MergeDefines(fileAxes, cliAxes) ==
    SelectSeq(fileAxes, LAMBDA a : a.name \notin NamesOf(cliAxes)) \o cliAxes

HasDuplicateNames(axes) == \E i, j \in DOMAIN axes : i # j /\ axes[i].name = axes[j].name

Rank(name) == CHOOSE i \in DOMAIN Names : Names[i] = name

\* PermutationExpander::expand: the last axis varies fastest; bindings are
\* then sorted by name.
Expand(axes) ==
    LET n == Len(axes)
        upTo[k \in 0..n] ==
          IF k = 0 THEN << <<>> >>
          ELSE FlattenSeq([p \in DOMAIN upTo[k - 1] |->
                 [v \in DOMAIN axes[k].values |->
                    Append(upTo[k - 1][p], [kind |-> axes[k].kind, name |-> axes[k].name,
                                            value |-> axes[k].values[v]])]])
    IN  [p \in DOMAIN upTo[n] |->
           SortSeq(upTo[n][p], LAMBDA x, y : Rank(x.name) < Rank(y.name))]

Join(bindings) ==
    FlattenSeq([i \in DOMAIN bindings |->
                  (IF i = 1 THEN <<>> ELSE <<"_">>)
                  \o <<bindings[i].name, "=">> \o bindings[i].value])

\* Mutant: type arguments are not part of the key.
KeyConstants(p) == Join(SelectSeq(p, LAMBDA b : b.kind = "constant"))

\* Permutation::key.
Key(p) ==
    LET of(kind) == SelectSeq(p, LAMBDA b : b.kind = kind)
    IN  Join(of("constant"))
        \o (IF of("type") = <<>> THEN <<>> ELSE <<"|">> \o Join(of("type")))

Keys(axes) == LET perms == Expand(axes) IN [i \in DOMAIN perms |-> Key(perms[i])]

-----------------------------------------------------------------------------
(* What the text means to the compiler: a comment is a line comment or a   *)
(* block comment, whichever opens first.                                   *)

\* The line comments, the line ends and the other symbols outside comments.
Lexed(s) ==
    LET from[i \in 1..Len(s) + 2] ==
          IF i > Len(s) THEN [line |-> {}, nl |-> {}, code |-> {}]
          ELSE IF IsPair(s, i, "/", "/") THEN
              LET rest == from[FirstFrom(s, i, LAMBDA j : s[j] = NewLine)]
              IN  [rest EXCEPT !.line = @ \cup {i}]
          ELSE IF IsPair(s, i, "/", "*") THEN
              LET j == FirstFrom(s, i + 2, LAMBDA k : IsPair(s, k, "*", "/"))
              IN  from[IF j > Len(s) THEN Len(s) + 1 ELSE j + 2]
          ELSE IF s[i] = NewLine THEN [from[i + 1] EXCEPT !.nl = @ \cup {i}]
          ELSE IF s[i] \in Blank THEN from[i + 1]
          ELSE [from[i + 1] EXCEPT !.code = @ \cup {i}]
    IN  from[1]

\* A block comment seems to open inside a line comment.
Misleading(s) ==
    LET lex == Lexed(s)
    IN  \E i \in lex.line :
          \E j \in i..FirstFrom(s, i, LAMBDA k : s[k] = NewLine) : IsPair(s, j, "/", "*")

\* The line comments that have their line to themselves.
OwnLineComments(s) ==
    LET lex == Lexed(s)
        own == {i \in lex.line :
                  \A c \in lex.code : c < i => \E e \in lex.nl : c < e /\ e < i}
    IN  [k \in 1..Cardinality(own) |->
           LET i == SetToSortSeq(own, <)[k]
           IN  SubSeq(s, i, FirstFrom(s, i, LAMBDA j : s[j] = NewLine) - 1)]
=============================================================================
