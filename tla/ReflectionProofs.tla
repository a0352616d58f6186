--------------------------- MODULE ReflectionProofs ---------------------------
(***************************************************************************)
(* TLAPS proofs about ReflectionSerializer, for any programs of the shape  *)
(* that ReflectionAssumption gives Slang's objects.                        *)
(***************************************************************************)
EXTENDS ReflectionView, FiniteSetTheorems, TLAPS

\* The objects that get an index, and what a step may add.
Indexed(p) == {o \in DOMAIN p : p[o].kind \notin {"root", "entryPoint"}}
Targets(p) == (DOMAIN p \ {"root"}) \cup {Nil}

\* The kinds below which there are no layouts.
Plain == {"type", "var", "generic"}

Attributes == [name : Text, args : Seq(Nat)] \cup {Nil}

\* The fields of a row.
FieldNames ==
    {"", "parent", "name", "fields", "element", "result", "type", "sizes", "container",
     "elementLayout", "elementVar", "counter", "ranges", "sets", "subs", "modifiers",
     "attributes", "generic", "var", "typeLayout", "offsets", "spaces", "params",
     "typeParams", "valueParams", "constraints", "outer", "payload", "children",
     "varLayout", "resultLayout", "function", "globalParams"}

Ops == {"ref", "list", "name", "mods", "attrs", "add", "hash", "mark", "range", "set", "sub"}

\* Step s of an object x of program p is well formed.
StepOK(p, x, s) ==
    /\ s.op \in Ops /\ s.field \in FieldNames /\ s.to \in Seq(Targets(p))
    /\ s.op # "add" => s.to \in Seq(Indexed(p) \cup {Nil})
    /\ s.op \in {"add", "hash"} => x.kind = "root"
    /\ s.op \in {"ref", "add", "range", "sub"} => Len(s.to) = 1
    /\ s.op \in {"name", "mods", "attrs", "hash", "mark", "set"} => s.to = <<>>
    /\ s.op \in {"list", "mods", "set"} => s.data \in Seq(Nat)
    /\ s.op \in {"name", "hash"} => s.data[1] \in Text \cup {Nil}
    /\ s.op = "attrs" => s.data \in Seq(Attributes)
    /\ s.op = "mark" => s.data = x
    /\ s.op \in {"mark", "range", "set", "sub"} => x.kind = "typeLayout"
    /\ s.op = "range" => s.data \in [type : Nat, var : Pointers(p, {"var"}),
                                     leaf : Pointers(p, {"typeLayout"})]
    /\ s.op = "range" => s.to = <<s.data.var>>
    /\ s.op = "sub" => s.to = <<s.data.offset>>
    /\ s.op = "sub" => s.data \in [range : Nat, offset : Pointers(p, {"varLayout"})]
    /\ x.kind \in Plain \/ s.op = "range" =>
          \A j \in 1 .. Len(s.to) : s.to[j] = Nil \/ p[s.to[j]].kind \in Plain

\* The fields of the row that step s assigns.
Assigns(s) ==
    IF s.op \in {"ref", "list", "name", "mods", "attrs"} THEN {s.field}
    ELSE IF s.op = "mark" THEN {"ranges", "sets", "subs"} ELSE {}

\* The steps sc of an object x are well formed and assign no field twice.
StepsOK(p, x, sc) ==
    /\ Len(sc) \in Nat /\ DOMAIN sc = 1 .. Len(sc)
    /\ \A m \in 1 .. Len(sc) : StepOK(p, x, sc[m])
    /\ \A m, n \in 1 .. Len(sc) : m # n => Assigns(sc[m]) \cap Assigns(sc[n]) = {}

-----------------------------------------------------------------------------
(* The steps.                                                              *)

LEMMA ProgramFacts ==
    ASSUME NEW p \in Programs
    PROVE  /\ Invalid \in Nat /\ Nil \notin Text /\ "root" \in DOMAIN p /\ Nil \notin DOMAIN p
           /\ \A o \in DOMAIN p : /\ p[o].kind \in Kinds \cup {"root"}
                                  /\ Typed(p, p[o])
                                  /\ p[o].kind = "root" <=> o = "root"
BY ReflectionAssumption

LEMMA PointerFacts ==
    ASSUME NEW p \in Programs, NEW kinds, "root" \notin kinds, NEW t \in Pointers(p, kinds)
    PROVE  /\ t \in Targets(p)
           /\ "entryPoint" \notin kinds => t \in Indexed(p) \cup {Nil}
           /\ t = Nil \/ (t \in DOMAIN p /\ p[t].kind \in kinds)
BY ProgramFacts DEF Pointers, Targets, Indexed

LEMMA SeqPointerFacts ==
    ASSUME NEW p \in Programs, NEW kinds, "root" \notin kinds, NEW ts \in Seq(Pointers(p, kinds))
    PROVE  /\ ts \in Seq(Targets(p))
           /\ "entryPoint" \notin kinds => ts \in Seq(Indexed(p) \cup {Nil})
           /\ \A j \in 1 .. Len(ts) : ts[j] = Nil \/ p[ts[j]].kind \in kinds
<1> DEFINE S == Pointers(p, kinds)
<1>1. \A t \in S : /\ t \in Targets(p) /\ ("entryPoint" \notin kinds => t \in Indexed(p) \cup {Nil})
                   /\ t = Nil \/ p[t].kind \in kinds
  BY PointerFacts
<1> HIDE DEF S
<1>2. ts \in Seq(S)
  BY DEF S
<1> QED
  BY <1>1, <1>2

LEMMA EmptySeqs ==
    /\ Len(<<>>) = 0 /\ \A S : <<>> \in Seq(S)
    /\ \A x : Len(<<x>>) = 1 /\ <<x>>[1] = x
    /\ \A S : \A x \in S : <<x>> \in Seq(S)
OBVIOUS

LEMMA RefOK ==
    ASSUME NEW p \in Programs, NEW x, NEW f \in FieldNames, NEW kinds, NEW t \in Pointers(p, kinds),
           "root" \notin kinds, "entryPoint" \notin kinds,
           x.kind \in Plain => kinds \subseteq Plain
    PROVE  StepOK(p, x, Ref(f, t)) /\ Assigns(Ref(f, t)) = {f}
<1>1. t \in Indexed(p) \cup {Nil} /\ t \in Targets(p) /\ (t = Nil \/ p[t].kind \in kinds)
  BY PointerFacts
<1> QED
  BY <1>1 DEF StepOK, Ref, Step, Assigns, Ops

LEMMA ListOK ==
    ASSUME NEW p \in Programs, NEW x, NEW f \in FieldNames, NEW kinds, NEW ts \in Seq(Pointers(p, kinds)),
           "root" \notin kinds, "entryPoint" \notin kinds,
           x.kind \in Plain => kinds \subseteq Plain
    PROVE  StepOK(p, x, List(f, ts)) /\ Assigns(List(f, ts)) = {f}
<1>1. /\ ts \in Seq(Indexed(p) \cup {Nil}) /\ ts \in Seq(Targets(p))
      /\ \A j \in 1 .. Len(ts) : ts[j] = Nil \/ p[ts[j]].kind \in kinds
  BY SeqPointerFacts
<1>2. <<>> \in Seq(Nat)
  OBVIOUS
<1> QED
  BY <1>1, <1>2 DEF StepOK, List, Step, Assigns, Ops

LEMMA WordsOK ==
    ASSUME NEW p, NEW x, NEW f \in FieldNames, NEW ws \in Seq(Nat)
    PROVE  StepOK(p, x, Words(f, ws)) /\ Assigns(Words(f, ws)) = {f}
BY EmptySeqs DEF StepOK, Words, Step, Assigns, Ops

LEMMA NameOK ==
    ASSUME NEW p, NEW x, NEW f \in FieldNames, NEW s \in Text \cup {Nil}
    PROVE  StepOK(p, x, Name(f, s)) /\ Assigns(Name(f, s)) = {f}
BY EmptySeqs DEF StepOK, Name, Step, Assigns, Ops

LEMMA ModsOK ==
    ASSUME NEW p, NEW x, NEW ms \in Seq(Nat)
    PROVE  StepOK(p, x, Mods(ms)) /\ Assigns(Mods(ms)) = {"modifiers"}
BY EmptySeqs DEF FieldNames, StepOK, Mods, Step, Assigns, Ops

LEMMA AttrsOK ==
    ASSUME NEW p, NEW x, NEW ats \in Seq(Attributes)
    PROVE  StepOK(p, x, Attrs(ats)) /\ Assigns(Attrs(ats)) = {"attributes"}
BY EmptySeqs DEF FieldNames, StepOK, Attrs, Step, Assigns, Ops

LEMMA AddOK ==
    ASSUME NEW p \in Programs, NEW x, x.kind = "root", NEW kinds, NEW t \in Pointers(p, kinds),
           "root" \notin kinds
    PROVE  StepOK(p, x, Add(t)) /\ Assigns(Add(t)) = {}
<1>1. t \in Targets(p)
  BY PointerFacts
<1>2. x.kind \notin Plain /\ "" \in FieldNames
  BY DEF Plain, FieldNames
<1> DEFINE s == Add(t)
<1>3. s.op = "add" /\ s.field = "" /\ s.to = <<t>> /\ Len(s.to) = 1 /\ s.to \in Seq(Targets(p))
  BY <1>1 DEF Add, Step
<1> HIDE DEF s
<1>4. StepOK(p, x, s) /\ Assigns(s) = {}
  BY <1>2, <1>3 DEF StepOK, Assigns, Ops
<1> QED
  BY <1>4 DEF s

LEMMA HashOK ==
    ASSUME NEW p, NEW x, x.kind = "root", NEW s \in Text \cup {Nil}
    PROVE  LET h == Step("hash", "", <<>>, <<s>>)
           IN  StepOK(p, x, h) /\ Assigns(h) = {}
BY EmptySeqs DEF FieldNames, StepOK, Step, Assigns, Ops

LEMMA MarkOK ==
    ASSUME NEW p, NEW x, x.kind = "typeLayout"
    PROVE  StepOK(p, x, Mark(x)) /\ Assigns(Mark(x)) = {"ranges", "sets", "subs"}
BY EmptySeqs DEF FieldNames, StepOK, Mark, Step, Assigns, Ops, Plain

LEMMA RangeOK ==
    ASSUME NEW p \in Programs, NEW x, x.kind = "typeLayout",
           NEW r \in [type : Nat, var : Pointers(p, {"var"}), leaf : Pointers(p, {"typeLayout"})]
    PROVE  LET s == Step("range", "", <<r.var>>, r)
           IN  StepOK(p, x, s) /\ Assigns(s) = {}
<1>1. r.var \in Pointers(p, {"var"})
  OBVIOUS
<1>2. r.var \in Indexed(p) \cup {Nil} /\ r.var \in Targets(p) /\ (r.var = Nil \/ p[r.var].kind = "var")
  BY <1>1, PointerFacts
<1> QED
  BY <1>2 DEF StepOK, FieldNames, Step, Assigns, Ops, Plain

LEMMA SetOK ==
    ASSUME NEW p, NEW x, x.kind = "typeLayout", NEW ws \in Seq(Nat)
    PROVE  LET s == Step("set", "", <<>>, ws)
           IN  StepOK(p, x, s) /\ Assigns(s) = {}
BY EmptySeqs DEF FieldNames, StepOK, Step, Assigns, Ops, Plain

LEMMA SubOK ==
    ASSUME NEW p \in Programs, NEW x, x.kind = "typeLayout",
           NEW r \in [range : Nat, offset : Pointers(p, {"varLayout"})]
    PROVE  LET s == Step("sub", "", <<r.offset>>, r)
           IN  StepOK(p, x, s) /\ Assigns(s) = {}
<1>1. r.offset \in Pointers(p, {"varLayout"})
  OBVIOUS
<1>2. r.offset \in Indexed(p) \cup {Nil} /\ r.offset \in Targets(p)
  BY <1>1, PointerFacts
<1> QED
  BY <1>2 DEF StepOK, FieldNames, Step, Assigns, Ops, Plain

-----------------------------------------------------------------------------
(* The scripts.                                                            *)

LEMMA FieldFacts ==
    /\ "" \in FieldNames
    /\ "parent" \in FieldNames /\ "name" \in FieldNames /\ "fields" \in FieldNames
    /\ "element" \in FieldNames /\ "result" \in FieldNames /\ "type" \in FieldNames
    /\ "sizes" \in FieldNames /\ "container" \in FieldNames /\ "elementLayout" \in FieldNames
    /\ "elementVar" \in FieldNames /\ "counter" \in FieldNames /\ "modifiers" \in FieldNames
    /\ "attributes" \in FieldNames /\ "generic" \in FieldNames /\ "var" \in FieldNames
    /\ "typeLayout" \in FieldNames /\ "offsets" \in FieldNames /\ "spaces" \in FieldNames
    /\ "params" \in FieldNames /\ "typeParams" \in FieldNames /\ "valueParams" \in FieldNames
    /\ "constraints" \in FieldNames /\ "outer" \in FieldNames /\ "payload" \in FieldNames
    /\ "children" \in FieldNames /\ "varLayout" \in FieldNames /\ "resultLayout" \in FieldNames
    /\ "function" \in FieldNames /\ "globalParams" \in FieldNames /\ "ranges" \in FieldNames
    /\ "sets" \in FieldNames /\ "subs" \in FieldNames
BY DEF FieldNames

LEMMA EmptyPointers == \A p, kinds : <<>> \in Seq(Pointers(p, kinds))
OBVIOUS

\* The kinds that pointers of Slang's classes go to.
LEMMA KindFacts ==
    /\ \A k \in Kinds : "root" \notin {k}
    /\ \A k \in Kinds : k # "entryPoint" => "entryPoint" \notin {k}
    /\ {"type"} \subseteq Plain /\ {"var"} \subseteq Plain /\ {"generic"} \subseteq Plain
    /\ {"var", "type"} \subseteq Plain
    /\ \A k \in {"type", "var", "generic"} : k \in Plain
    /\ \A k \in {"root", "typeLayout", "varLayout", "func", "decl", "entryPoint"} : k \notin Plain
    /\ "root" \notin {"var", "type"} /\ "entryPoint" \notin {"var", "type"}
    /\ "root" \notin {"type", "func", "var", "generic"}
    /\ "entryPoint" \notin {"type", "func", "var", "generic"}
BY DEF Kinds, Plain

\* RefOK and ListOK for the kinds of the model.
LEMMA RefTo ==
    ASSUME NEW p \in Programs, NEW x, NEW k \in Kinds \ {"entryPoint"}, x.kind \in Plain => k \in Plain
    PROVE  \A f \in FieldNames : \A t \in Pointers(p, {k}) :
              StepOK(p, x, Ref(f, t)) /\ Assigns(Ref(f, t)) = {f}
<1>1. "root" \notin {k} /\ "entryPoint" \notin {k} /\ (x.kind \in Plain => {k} \subseteq Plain)
  BY DEF Kinds
<1> QED
  BY <1>1, RefOK

LEMMA ListTo ==
    ASSUME NEW p \in Programs, NEW x, NEW k \in Kinds \ {"entryPoint"}, x.kind \in Plain => k \in Plain
    PROVE  \A f \in FieldNames : \A ts \in Seq(Pointers(p, {k})) :
              StepOK(p, x, List(f, ts)) /\ Assigns(List(f, ts)) = {f}
<1>1. "root" \notin {k} /\ "entryPoint" \notin {k} /\ (x.kind \in Plain => {k} \subseteq Plain)
  BY DEF Kinds
<1> QED
  BY <1>1, ListOK

LEMMA TypeScript ==
    ASSUME NEW p \in Programs, NEW x, x.kind = "type", Typed(p, x)
    PROVE  StepsOK(p, x, AddType(x))
<1> DEFINE fs == IF x.struct THEN x.fields ELSE <<>>
<1>1. /\ x.name \in Text \cup {Nil} /\ fs \in Seq(Pointers(p, {"var"}))
      /\ x.element \in Pointers(p, {"type"}) /\ x.result \in Pointers(p, {"type"})
  BY EmptyPointers DEF Typed, Modified, Attributes
<1> HIDE DEF fs
<1>2. \A f \in FieldNames : \A t \in Pointers(p, {"type"}) :
         StepOK(p, x, Ref(f, t)) /\ Assigns(Ref(f, t)) = {f}
  <2>1. "type" \in Kinds \ {"entryPoint"} /\ (x.kind \in Plain => "type" \in Plain)
    BY DEF Kinds, Plain
  <2> QED
    BY <2>1, RefTo
<1>3. \A f \in FieldNames : \A ts \in Seq(Pointers(p, {"var"})) :
         StepOK(p, x, List(f, ts)) /\ Assigns(List(f, ts)) = {f}
  <2>1. "var" \in Kinds \ {"entryPoint"} /\ (x.kind \in Plain => "var" \in Plain)
    BY DEF Kinds, Plain
  <2> QED
    BY <2>1, ListTo
<1>4. StepOK(p, x, Name("name", x.name)) /\ Assigns(Name("name", x.name)) = {"name"}
  BY <1>1, FieldFacts, NameOK
<1>5. StepOK(p, x, List("fields", fs)) /\ Assigns(List("fields", fs)) = {"fields"}
  BY <1>1, <1>3, FieldFacts
<1>6. StepOK(p, x, Ref("element", x.element)) /\ Assigns(Ref("element", x.element)) = {"element"}
  BY <1>1, <1>2, FieldFacts
<1>7. StepOK(p, x, Ref("result", x.result)) /\ Assigns(Ref("result", x.result)) = {"result"}
  BY <1>1, <1>2, FieldFacts
<1>8. AddType(x) =
     <<Name("name", x.name), List("fields", fs), Ref("element", x.element),
       Ref("result", x.result)>>
  BY DEF AddType, fs
<1> HIDE DEF Ref, List, Words, Name, Mods, Attrs, Assigns
<1> QED
  BY <1>4, <1>5, <1>6, <1>7, <1>8 DEF StepsOK

LEMMA VariableScript ==
    ASSUME NEW p \in Programs, NEW x, x.kind = "var", Typed(p, x)
    PROVE  StepsOK(p, x, AddVariable(x))
<1>1. /\ x.name \in Text \cup {Nil} /\ x.type \in Pointers(p, {"type"})
      /\ x.mods \in Seq(Nat) /\ x.attrs \in Seq(Attributes)
      /\ x.generic \in Pointers(p, {"generic"})
  BY EmptyPointers DEF Typed, Modified, Attributes
<1>2. \A f \in FieldNames : \A t \in Pointers(p, {"generic"}) :
         StepOK(p, x, Ref(f, t)) /\ Assigns(Ref(f, t)) = {f}
  <2>1. "generic" \in Kinds \ {"entryPoint"} /\ (x.kind \in Plain => "generic" \in Plain)
    BY DEF Kinds, Plain
  <2> QED
    BY <2>1, RefTo
<1>3. \A f \in FieldNames : \A t \in Pointers(p, {"type"}) :
         StepOK(p, x, Ref(f, t)) /\ Assigns(Ref(f, t)) = {f}
  <2>1. "type" \in Kinds \ {"entryPoint"} /\ (x.kind \in Plain => "type" \in Plain)
    BY DEF Kinds, Plain
  <2> QED
    BY <2>1, RefTo
<1>4. StepOK(p, x, Name("name", x.name)) /\ Assigns(Name("name", x.name)) = {"name"}
  BY <1>1, FieldFacts, NameOK
<1>5. StepOK(p, x, Ref("type", x.type)) /\ Assigns(Ref("type", x.type)) = {"type"}
  BY <1>1, <1>3, FieldFacts
<1>6. StepOK(p, x, Mods(x.mods)) /\ Assigns(Mods(x.mods)) = {"modifiers"}
  BY <1>1, ModsOK
<1>7. StepOK(p, x, Attrs(x.attrs)) /\ Assigns(Attrs(x.attrs)) = {"attributes"}
  BY <1>1, AttrsOK
<1>8. StepOK(p, x, Ref("generic", x.generic)) /\ Assigns(Ref("generic", x.generic)) = {"generic"}
  BY <1>1, <1>2, FieldFacts
<1>9. AddVariable(x) =
     <<Name("name", x.name), Ref("type", x.type), Mods(x.mods), Attrs(x.attrs),
       Ref("generic", x.generic)>>
  BY DEF AddVariable
<1> HIDE DEF Ref, List, Words, Name, Mods, Attrs, Assigns
<1> QED
  BY <1>4, <1>5, <1>6, <1>7, <1>8, <1>9 DEF StepsOK

LEMMA VarLayoutScript ==
    ASSUME NEW p \in Programs, NEW x, x.kind = "varLayout", Typed(p, x), NEW v, Modified(v)
    PROVE  StepsOK(p, x, AddVarLayout(x, v))
<1>1. /\ x.var \in Pointers(p, {"var"}) /\ x.typeLayout \in Pointers(p, {"typeLayout"})
      /\ x.offsets \in Seq(Nat) /\ x.spaces \in Seq(Nat)
      /\ v.mods \in Seq(Nat) /\ v.attrs \in Seq(Attributes)
  BY EmptyPointers DEF Typed, Modified, Attributes
<1>2. \A f \in FieldNames : \A t \in Pointers(p, {"typeLayout"}) :
         StepOK(p, x, Ref(f, t)) /\ Assigns(Ref(f, t)) = {f}
  <2>1. "typeLayout" \in Kinds \ {"entryPoint"} /\ (x.kind \in Plain => "typeLayout" \in Plain)
    BY DEF Kinds, Plain
  <2> QED
    BY <2>1, RefTo
<1>3. \A f \in FieldNames : \A t \in Pointers(p, {"var"}) :
         StepOK(p, x, Ref(f, t)) /\ Assigns(Ref(f, t)) = {f}
  <2>1. "var" \in Kinds \ {"entryPoint"} /\ (x.kind \in Plain => "var" \in Plain)
    BY DEF Kinds, Plain
  <2> QED
    BY <2>1, RefTo
<1>4. StepOK(p, x, Ref("var", x.var)) /\ Assigns(Ref("var", x.var)) = {"var"}
  BY <1>1, <1>3, FieldFacts
<1>5. StepOK(p, x, Ref("typeLayout", x.typeLayout)) /\ Assigns(Ref("typeLayout", x.typeLayout)) = {"typeLayout"}
  BY <1>1, <1>2, FieldFacts
<1>6. StepOK(p, x, Words("offsets", x.offsets)) /\ Assigns(Words("offsets", x.offsets)) = {"offsets"}
  BY <1>1, FieldFacts, WordsOK
<1>7. StepOK(p, x, Words("spaces", x.spaces)) /\ Assigns(Words("spaces", x.spaces)) = {"spaces"}
  BY <1>1, FieldFacts, WordsOK
<1>8. StepOK(p, x, Mods(v.mods)) /\ Assigns(Mods(v.mods)) = {"modifiers"}
  BY <1>1, ModsOK
<1>9. StepOK(p, x, Attrs(v.attrs)) /\ Assigns(Attrs(v.attrs)) = {"attributes"}
  BY <1>1, AttrsOK
<1>10. AddVarLayout(x, v) =
     <<Ref("var", x.var), Ref("typeLayout", x.typeLayout), Words("offsets", x.offsets),
       Words("spaces", x.spaces), Mods(v.mods), Attrs(v.attrs)>>
  BY DEF AddVarLayout
<1> HIDE DEF Ref, List, Words, Name, Mods, Attrs, Assigns
<1> QED
  BY <1>4, <1>5, <1>6, <1>7, <1>8, <1>9, <1>10 DEF StepsOK

LEMMA FunctionScript ==
    ASSUME NEW p \in Programs, NEW x, x.kind = "func", Typed(p, x)
    PROVE  StepsOK(p, x, AddFunction(x))
<1>1. /\ x.name \in Text \cup {Nil} /\ x.result \in Pointers(p, {"type"})
      /\ x.params \in Seq(Pointers(p, {"var"})) /\ x.mods \in Seq(Nat)
      /\ x.attrs \in Seq(Attributes) /\ x.generic \in Pointers(p, {"generic"})
  BY EmptyPointers DEF Typed, Modified, Attributes
<1>2. \A f \in FieldNames : \A t \in Pointers(p, {"generic"}) :
         StepOK(p, x, Ref(f, t)) /\ Assigns(Ref(f, t)) = {f}
  <2>1. "generic" \in Kinds \ {"entryPoint"} /\ (x.kind \in Plain => "generic" \in Plain)
    BY DEF Kinds, Plain
  <2> QED
    BY <2>1, RefTo
<1>3. \A f \in FieldNames : \A t \in Pointers(p, {"type"}) :
         StepOK(p, x, Ref(f, t)) /\ Assigns(Ref(f, t)) = {f}
  <2>1. "type" \in Kinds \ {"entryPoint"} /\ (x.kind \in Plain => "type" \in Plain)
    BY DEF Kinds, Plain
  <2> QED
    BY <2>1, RefTo
<1>4. \A f \in FieldNames : \A ts \in Seq(Pointers(p, {"var"})) :
         StepOK(p, x, List(f, ts)) /\ Assigns(List(f, ts)) = {f}
  <2>1. "var" \in Kinds \ {"entryPoint"} /\ (x.kind \in Plain => "var" \in Plain)
    BY DEF Kinds, Plain
  <2> QED
    BY <2>1, ListTo
<1>5. StepOK(p, x, Name("name", x.name)) /\ Assigns(Name("name", x.name)) = {"name"}
  BY <1>1, FieldFacts, NameOK
<1>6. StepOK(p, x, Ref("result", x.result)) /\ Assigns(Ref("result", x.result)) = {"result"}
  BY <1>1, <1>3, FieldFacts
<1>7. StepOK(p, x, List("params", x.params)) /\ Assigns(List("params", x.params)) = {"params"}
  BY <1>1, <1>4, FieldFacts
<1>8. StepOK(p, x, Mods(x.mods)) /\ Assigns(Mods(x.mods)) = {"modifiers"}
  BY <1>1, ModsOK
<1>9. StepOK(p, x, Attrs(x.attrs)) /\ Assigns(Attrs(x.attrs)) = {"attributes"}
  BY <1>1, AttrsOK
<1>10. StepOK(p, x, Ref("generic", x.generic)) /\ Assigns(Ref("generic", x.generic)) = {"generic"}
  BY <1>1, <1>2, FieldFacts
<1>11. AddFunction(x) =
     <<Name("name", x.name), Ref("result", x.result), List("params", x.params),
       Mods(x.mods), Attrs(x.attrs), Ref("generic", x.generic)>>
  BY DEF AddFunction
<1> HIDE DEF Ref, List, Words, Name, Mods, Attrs, Assigns
<1> QED
  BY <1>5, <1>6, <1>7, <1>8, <1>9, <1>10, <1>11 DEF StepsOK

LEMMA GenericScript ==
    ASSUME NEW p \in Programs, NEW x, x.kind = "generic", Typed(p, x)
    PROVE  StepsOK(p, x, AddGeneric(x))
<1>1. /\ x.name \in Text \cup {Nil} /\ x.typeParams \in Seq(Pointers(p, {"var"}))
      /\ x.valueParams \in Seq(Pointers(p, {"var"})) /\ x.constraints \in Seq(Pointers(p, {"var", "type"}))
      /\ x.outer \in Pointers(p, {"generic"})
  BY EmptyPointers DEF Typed, Modified, Attributes
<1>2. \A f \in FieldNames : \A t \in Pointers(p, {"generic"}) :
         StepOK(p, x, Ref(f, t)) /\ Assigns(Ref(f, t)) = {f}
  <2>1. "generic" \in Kinds \ {"entryPoint"} /\ (x.kind \in Plain => "generic" \in Plain)
    BY DEF Kinds, Plain
  <2> QED
    BY <2>1, RefTo
<1>3. \A f \in FieldNames : \A ts \in Seq(Pointers(p, {"var"})) :
         StepOK(p, x, List(f, ts)) /\ Assigns(List(f, ts)) = {f}
  <2>1. "var" \in Kinds \ {"entryPoint"} /\ (x.kind \in Plain => "var" \in Plain)
    BY DEF Kinds, Plain
  <2> QED
    BY <2>1, ListTo
<1>4. \A f \in FieldNames : \A ts \in Seq(Pointers(p, {"var", "type"})) :
         StepOK(p, x, List(f, ts)) /\ Assigns(List(f, ts)) = {f}
  <2>1. "root" \notin {"var", "type"} /\ "entryPoint" \notin {"var", "type"} /\ {"var", "type"} \subseteq Plain
    BY DEF Plain
  <2> QED
    BY <2>1, ListOK
<1>5. StepOK(p, x, Name("name", x.name)) /\ Assigns(Name("name", x.name)) = {"name"}
  BY <1>1, FieldFacts, NameOK
<1>6. StepOK(p, x, List("typeParams", x.typeParams)) /\ Assigns(List("typeParams", x.typeParams)) = {"typeParams"}
  BY <1>1, <1>3, FieldFacts
<1>7. StepOK(p, x, List("valueParams", x.valueParams)) /\ Assigns(List("valueParams", x.valueParams)) = {"valueParams"}
  BY <1>1, <1>3, FieldFacts
<1>8. StepOK(p, x, List("constraints", x.constraints)) /\ Assigns(List("constraints", x.constraints)) = {"constraints"}
  BY <1>1, <1>4, FieldFacts
<1>9. StepOK(p, x, Ref("outer", x.outer)) /\ Assigns(Ref("outer", x.outer)) = {"outer"}
  BY <1>1, <1>2, FieldFacts
<1>10. AddGeneric(x) =
     <<Name("name", x.name), List("typeParams", x.typeParams),
       List("valueParams", x.valueParams), List("constraints", x.constraints),
       Ref("outer", x.outer)>>
  BY DEF AddGeneric
<1> HIDE DEF Ref, List, Words, Name, Mods, Attrs, Assigns
<1> QED
  BY <1>5, <1>6, <1>7, <1>8, <1>9, <1>10 DEF StepsOK

LEMMA DeclScript ==
    ASSUME NEW p \in Programs, NEW x, x.kind = "decl", Typed(p, x)
    PROVE  StepsOK(p, x, AddDecl(x))
<1>1. /\ x.name \in Text \cup {Nil} /\ x.payload \in Pointers(p, {"type", "func", "var", "generic"})
      /\ x.children \in Seq(Pointers(p, {"decl"}))
  BY EmptyPointers DEF Typed, Modified, Attributes
<1>2. \A f \in FieldNames : \A ts \in Seq(Pointers(p, {"decl"})) :
         StepOK(p, x, List(f, ts)) /\ Assigns(List(f, ts)) = {f}
  <2>1. "decl" \in Kinds \ {"entryPoint"} /\ (x.kind \in Plain => "decl" \in Plain)
    BY DEF Kinds, Plain
  <2> QED
    BY <2>1, ListTo
<1>3. \A f \in FieldNames : \A t \in Pointers(p, {"type", "func", "var", "generic"}) :
         StepOK(p, x, Ref(f, t)) /\ Assigns(Ref(f, t)) = {f}
  <2>1. "root" \notin {"type", "func", "var", "generic"} /\ "entryPoint" \notin {"type", "func", "var", "generic"}
        /\ x.kind \notin Plain
    BY DEF Plain
  <2> QED
    BY <2>1, RefOK
<1>4. StepOK(p, x, Name("name", x.name)) /\ Assigns(Name("name", x.name)) = {"name"}
  BY <1>1, FieldFacts, NameOK
<1>5. StepOK(p, x, Ref("payload", x.payload)) /\ Assigns(Ref("payload", x.payload)) = {"payload"}
  BY <1>1, <1>3, FieldFacts
<1>6. StepOK(p, x, List("children", x.children)) /\ Assigns(List("children", x.children)) = {"children"}
  BY <1>1, <1>2, FieldFacts
<1>7. AddDecl(x) =
     <<Name("name", x.name), Ref("payload", x.payload), List("children", x.children)>>
  BY DEF AddDecl
<1> HIDE DEF Ref, List, Words, Name, Mods, Attrs, Assigns
<1> QED
  BY <1>4, <1>5, <1>6, <1>7 DEF StepsOK

LEMMA EntryPointScript ==
    ASSUME NEW p \in Programs, NEW x, x.kind = "entryPoint", Typed(p, x), NEW fn, Modified(fn)
    PROVE  StepsOK(p, x, AddEntryPoint(x, fn))
<1>1. /\ x.name \in Text \cup {Nil} /\ x.varLayout \in Pointers(p, {"varLayout"})
      /\ x.typeLayout \in Pointers(p, {"typeLayout"}) /\ x.resultLayout \in Pointers(p, {"varLayout"})
      /\ x.function \in Pointers(p, {"func"}) /\ x.params \in Seq(Pointers(p, {"varLayout"}))
      /\ fn.attrs \in Seq(Attributes)
  BY EmptyPointers DEF Typed, Modified, Attributes
<1>2. \A f \in FieldNames : \A t \in Pointers(p, {"func"}) :
         StepOK(p, x, Ref(f, t)) /\ Assigns(Ref(f, t)) = {f}
  <2>1. "func" \in Kinds \ {"entryPoint"} /\ (x.kind \in Plain => "func" \in Plain)
    BY DEF Kinds, Plain
  <2> QED
    BY <2>1, RefTo
<1>3. \A f \in FieldNames : \A t \in Pointers(p, {"typeLayout"}) :
         StepOK(p, x, Ref(f, t)) /\ Assigns(Ref(f, t)) = {f}
  <2>1. "typeLayout" \in Kinds \ {"entryPoint"} /\ (x.kind \in Plain => "typeLayout" \in Plain)
    BY DEF Kinds, Plain
  <2> QED
    BY <2>1, RefTo
<1>4. \A f \in FieldNames : \A t \in Pointers(p, {"varLayout"}) :
         StepOK(p, x, Ref(f, t)) /\ Assigns(Ref(f, t)) = {f}
  <2>1. "varLayout" \in Kinds \ {"entryPoint"} /\ (x.kind \in Plain => "varLayout" \in Plain)
    BY DEF Kinds, Plain
  <2> QED
    BY <2>1, RefTo
<1>5. \A f \in FieldNames : \A ts \in Seq(Pointers(p, {"varLayout"})) :
         StepOK(p, x, List(f, ts)) /\ Assigns(List(f, ts)) = {f}
  <2>1. "varLayout" \in Kinds \ {"entryPoint"} /\ (x.kind \in Plain => "varLayout" \in Plain)
    BY DEF Kinds, Plain
  <2> QED
    BY <2>1, ListTo
<1>6. StepOK(p, x, Name("name", x.name)) /\ Assigns(Name("name", x.name)) = {"name"}
  BY <1>1, FieldFacts, NameOK
<1>7. StepOK(p, x, Ref("varLayout", x.varLayout)) /\ Assigns(Ref("varLayout", x.varLayout)) = {"varLayout"}
  BY <1>1, <1>4, FieldFacts
<1>8. StepOK(p, x, Ref("typeLayout", x.typeLayout)) /\ Assigns(Ref("typeLayout", x.typeLayout)) = {"typeLayout"}
  BY <1>1, <1>3, FieldFacts
<1>9. StepOK(p, x, Ref("resultLayout", x.resultLayout)) /\ Assigns(Ref("resultLayout", x.resultLayout)) = {"resultLayout"}
  BY <1>1, <1>4, FieldFacts
<1>10. StepOK(p, x, Ref("function", x.function)) /\ Assigns(Ref("function", x.function)) = {"function"}
  BY <1>1, <1>2, FieldFacts
<1>11. StepOK(p, x, List("params", x.params)) /\ Assigns(List("params", x.params)) = {"params"}
  BY <1>1, <1>5, FieldFacts
<1>12. StepOK(p, x, Attrs(fn.attrs)) /\ Assigns(Attrs(fn.attrs)) = {"attributes"}
  BY <1>1, AttrsOK
<1>13. AddEntryPoint(x, fn) =
     <<Name("name", x.name), Ref("varLayout", x.varLayout),
       Ref("typeLayout", x.typeLayout), Ref("resultLayout", x.resultLayout),
       Ref("function", x.function), List("params", x.params), Attrs(fn.attrs)>>
  BY DEF AddEntryPoint
<1> HIDE DEF Ref, List, Words, Name, Mods, Attrs, Assigns
<1> QED
  BY <1>6, <1>7, <1>8, <1>9, <1>10, <1>11, <1>12, <1>13 DEF StepsOK

LEMMA LayoutRefsScript ==
    ASSUME NEW p \in Programs, NEW x, x.kind = "typeLayout", Typed(p, x)
    PROVE  StepsOK(p, x, LayoutRefs(x))
<1> DEFINE fs == IF x.shape = "struct" THEN x.fields ELSE <<>>
<1>1. /\ x.type \in Pointers(p, {"type"}) /\ x.sizes \in Seq(Nat)
      /\ fs \in Seq(Pointers(p, {"varLayout"})) /\ x.container \in Pointers(p, {"varLayout"})
      /\ x.element \in Pointers(p, {"typeLayout"}) /\ x.elementVar \in Pointers(p, {"varLayout"})
      /\ x.counter \in Pointers(p, {"varLayout"})
  BY EmptyPointers DEF Typed, Modified, Attributes
<1> HIDE DEF fs
<1>2. \A f \in FieldNames : \A t \in Pointers(p, {"type"}) :
         StepOK(p, x, Ref(f, t)) /\ Assigns(Ref(f, t)) = {f}
  <2>1. "type" \in Kinds \ {"entryPoint"} /\ (x.kind \in Plain => "type" \in Plain)
    BY DEF Kinds, Plain
  <2> QED
    BY <2>1, RefTo
<1>3. \A f \in FieldNames : \A t \in Pointers(p, {"typeLayout"}) :
         StepOK(p, x, Ref(f, t)) /\ Assigns(Ref(f, t)) = {f}
  <2>1. "typeLayout" \in Kinds \ {"entryPoint"} /\ (x.kind \in Plain => "typeLayout" \in Plain)
    BY DEF Kinds, Plain
  <2> QED
    BY <2>1, RefTo
<1>4. \A f \in FieldNames : \A t \in Pointers(p, {"varLayout"}) :
         StepOK(p, x, Ref(f, t)) /\ Assigns(Ref(f, t)) = {f}
  <2>1. "varLayout" \in Kinds \ {"entryPoint"} /\ (x.kind \in Plain => "varLayout" \in Plain)
    BY DEF Kinds, Plain
  <2> QED
    BY <2>1, RefTo
<1>5. \A f \in FieldNames : \A ts \in Seq(Pointers(p, {"varLayout"})) :
         StepOK(p, x, List(f, ts)) /\ Assigns(List(f, ts)) = {f}
  <2>1. "varLayout" \in Kinds \ {"entryPoint"} /\ (x.kind \in Plain => "varLayout" \in Plain)
    BY DEF Kinds, Plain
  <2> QED
    BY <2>1, ListTo
<1>6. StepOK(p, x, Ref("type", x.type)) /\ Assigns(Ref("type", x.type)) = {"type"}
  BY <1>1, <1>2, FieldFacts
<1>7. StepOK(p, x, Words("sizes", x.sizes)) /\ Assigns(Words("sizes", x.sizes)) = {"sizes"}
  BY <1>1, FieldFacts, WordsOK
<1>8. StepOK(p, x, List("fields", fs)) /\ Assigns(List("fields", fs)) = {"fields"}
  BY <1>1, <1>5, FieldFacts
<1>9. StepOK(p, x, Ref("container", x.container)) /\ Assigns(Ref("container", x.container)) = {"container"}
  BY <1>1, <1>4, FieldFacts
<1>10. StepOK(p, x, Ref("elementLayout", x.element)) /\ Assigns(Ref("elementLayout", x.element)) = {"elementLayout"}
  BY <1>1, <1>3, FieldFacts
<1>11. StepOK(p, x, Ref("elementVar", x.elementVar)) /\ Assigns(Ref("elementVar", x.elementVar)) = {"elementVar"}
  BY <1>1, <1>4, FieldFacts
<1>12. StepOK(p, x, Ref("counter", x.counter)) /\ Assigns(Ref("counter", x.counter)) = {"counter"}
  BY <1>1, <1>4, FieldFacts
<1>13. LayoutRefs(x) =
     <<Ref("type", x.type), Words("sizes", x.sizes), List("fields", fs),
       Ref("container", x.container), Ref("elementLayout", x.element),
       Ref("elementVar", x.elementVar), Ref("counter", x.counter)>>
  BY DEF LayoutRefs, fs
<1> HIDE DEF Ref, List, Words, Name, Mods, Attrs, Assigns
<1> QED
  BY <1>6, <1>7, <1>8, <1>9, <1>10, <1>11, <1>12, <1>13 DEF StepsOK

\* s is a sequence of whatever elements.
Listing(s) == \E S : s \in Seq(S)

LEMMA Mapped ==
    ASSUME NEW n \in Nat, NEW g, DOMAIN g = 1 .. n, g = [i \in DOMAIN g |-> g[i]]
    PROVE  Listing(g) /\ Len(g) = n
<1> DEFINE S == {g[i] : i \in 1 .. n}
<1>1. g \in [1 .. n -> S]
  OBVIOUS
<1>2. g \in Seq(S)
  BY <1>1
<1> QED
  BY <1>2 DEF Listing

\* c is a and then b.
Joined(a, b, c) ==
    /\ Listing(c) /\ Len(a) \in Nat /\ Len(b) \in Nat
    /\ Len(c) = Len(a) + Len(b) /\ DOMAIN c = 1 .. Len(a) + Len(b)
    /\ \A i \in 1 .. Len(a) : c[i] = a[i]
    /\ \A i \in 1 .. Len(b) : c[Len(a) + i] = b[i]

LEMMA Concat == \A a, b : Listing(a) /\ Listing(b) => Joined(a, b, a \o b)
<1> SUFFICES ASSUME NEW a, NEW b, Listing(a), Listing(b)
             PROVE  Joined(a, b, a \o b)
  OBVIOUS
<1>1. PICK A : a \in Seq(A)
  BY DEF Listing
<1>2. PICK B : b \in Seq(B)
  BY DEF Listing
<1> DEFINE S == A \cup B
<1>3. a \in Seq(S) /\ b \in Seq(S)
  BY <1>1, <1>2
<1> HIDE DEF S
<1>4. a \o b \in Seq(S)
  BY <1>3
<1>5. Listing(a \o b)
  BY <1>4 DEF Listing
<1> QED
  BY <1>3, <1>5 DEF Joined

LEMMA StepsConcat ==
    ASSUME NEW p, NEW x, NEW a, NEW b, Listing(a), Listing(b), StepsOK(p, x, a), StepsOK(p, x, b),
           \A m \in 1 .. Len(a), n \in 1 .. Len(b) : Assigns(a[m]) \cap Assigns(b[n]) = {}
    PROVE  StepsOK(p, x, a \o b) /\ Listing(a \o b)
<1> DEFINE c == a \o b
<1>1. /\ Listing(c) /\ Len(a) \in Nat /\ Len(b) \in Nat
      /\ Len(c) = Len(a) + Len(b) /\ DOMAIN c = 1 .. Len(a) + Len(b)
      /\ \A i \in 1 .. Len(a) : c[i] = a[i]
      /\ \A i \in 1 .. Len(b) : c[Len(a) + i] = b[i]
  BY Concat DEF Joined
<1> HIDE DEF c
<1>2. \A i \in 1 .. Len(c) : i \in 1 .. Len(a) \/ (\E j \in 1 .. Len(b) : i = Len(a) + j)
  <2> TAKE i \in 1 .. Len(c)
  <2>1. CASE i \in 1 .. Len(a)
    BY <2>1
  <2>2. CASE ~(i \in 1 .. Len(a))
    <3>1. i - Len(a) \in 1 .. Len(b) /\ i = Len(a) + (i - Len(a))
      BY <2>2, <1>1
    <3> QED
      BY <3>1
  <2> QED
    BY <2>1, <2>2
<1>3. \A i \in 1 .. Len(c) : StepOK(p, x, c[i])
  BY <1>1, <1>2 DEF StepsOK
<1>4. \A m, n \in 1 .. Len(c) : m # n => Assigns(c[m]) \cap Assigns(c[n]) = {}
  <2> TAKE m, n \in 1 .. Len(c)
  <2> HAVE m # n
  <2>1. CASE m \in 1 .. Len(a) /\ n \in 1 .. Len(a)
    BY <2>1, <1>1 DEF StepsOK
  <2>2. CASE m \in 1 .. Len(a) /\ n \notin 1 .. Len(a)
    <3>1. PICK j \in 1 .. Len(b) : n = Len(a) + j
      BY <2>2, <1>2
    <3> QED
      BY <2>2, <3>1, <1>1
  <2>3. CASE m \notin 1 .. Len(a) /\ n \in 1 .. Len(a)
    <3>1. PICK j \in 1 .. Len(b) : m = Len(a) + j
      BY <2>3, <1>2
    <3>2. Assigns(c[n]) \cap Assigns(c[m]) = {}
      BY <2>3, <3>1, <1>1
    <3> QED
      BY <3>2
  <2>4. CASE m \notin 1 .. Len(a) /\ n \notin 1 .. Len(a)
    <3>1. PICK j \in 1 .. Len(b) : m = Len(a) + j
      BY <2>4, <1>2
    <3>2. PICK k \in 1 .. Len(b) : n = Len(a) + k
      BY <2>4, <1>2
    <3>3. j # k
      BY <3>1, <3>2
    <3> QED
      BY <3>1, <3>2, <3>3, <1>1 DEF StepsOK
  <2> QED
    BY <2>1, <2>2, <2>3, <2>4
<1>5. StepsOK(p, x, c)
  BY <1>1, <1>3, <1>4 DEF StepsOK
<1> QED
  BY <1>1, <1>5 DEF c

\* Steps that assign nothing follow any others.
LEMMA StepsPlus ==
    ASSUME NEW p, NEW x, NEW a, NEW b, Listing(a), Listing(b), StepsOK(p, x, a),
           \A n \in 1 .. Len(b) : StepOK(p, x, b[n]) /\ Assigns(b[n]) = {}
    PROVE  StepsOK(p, x, a \o b) /\ Listing(a \o b)
<1>1. StepsOK(p, x, b)
  <2>1. PICK B : b \in Seq(B)
    BY DEF Listing
  <2>2. Len(b) \in Nat /\ DOMAIN b = 1 .. Len(b)
    BY <2>1
  <2>3. \A m, n \in 1 .. Len(b) : m # n => Assigns(b[m]) \cap Assigns(b[n]) = {}
    OBVIOUS
  <2> QED
    BY <2>2, <2>3 DEF StepsOK
<1>2. \A m \in 1 .. Len(a), n \in 1 .. Len(b) : Assigns(a[m]) \cap Assigns(b[n]) = {}
  OBVIOUS
<1> QED
  BY <1>1, <1>2, StepsConcat

\* How many rows the binding tables of a layout get.
RangeCount(x) == IF WalkBindingTables(x) THEN Len(x.ranges) ELSE 0
SetCount(x)   == IF WalkBindingTables(x) THEN Len(x.sets) ELSE 0
SubCount(x)   == IF WalkBindingTables(x) THEN Len(x.subs) ELSE 0

RangeStep(r) == Step("range", "", <<r.var>>, r)
SetStep(ws)  == Step("set", "", <<>>, ws)
SubStep(r)   == Step("sub", "", <<r.offset>>, r)

\* The positions of the steps of addTypeLayout.
LayoutPositions(x, sc) ==
    LET r == RangeCount(x)
        s == SetCount(x)
        b == SubCount(x)
    IN  /\ r \in Nat /\ s \in Nat /\ b \in Nat /\ Len(sc) = 8 + r + s + b
        /\ \A i \in 1 .. 7 : sc[i].op \in {"ref", "list"} /\ sc[i] = LayoutRefs(x)[i]
        /\ sc[8] = Mark(x)
        /\ \A k \in 1 .. r : sc[8 + k] = RangeStep(x.ranges[k])
        /\ \A k \in 1 .. s : sc[8 + r + k] = SetStep(x.sets[k])
        /\ \A k \in 1 .. b : sc[8 + r + s + k] = SubStep(x.subs[k])

LEMMA LayoutHead ==
    ASSUME NEW p \in Programs, NEW x, x.kind = "typeLayout", Typed(p, x)
    PROVE  LET a == LayoutRefs(x) \o <<Mark(x)>>
           IN  /\ Listing(a) /\ StepsOK(p, x, a) /\ Len(a) = 8 /\ a[8] = Mark(x)
               /\ \A i \in 1 .. 7 : a[i].op \in {"ref", "list"} /\ a[i] = LayoutRefs(x)[i]
<1> DEFINE h == LayoutRefs(x)
           m == <<Mark(x)>>
<1>1. Listing(h) /\ Len(h) = 7 /\ \A i \in 1 .. 7 : h[i].op \in {"ref", "list"} /\ h[i].field \notin {"ranges", "sets", "subs"}
  <2>1. Len(h) = 7 /\ DOMAIN h = 1 .. 7 /\ h = [i \in DOMAIN h |-> h[i]]
    BY DEF LayoutRefs
  <2>2. \A i \in 1 .. 7 : h[i].op \in {"ref", "list"} /\ h[i].field \notin {"ranges", "sets", "subs"}
    BY DEF LayoutRefs, Ref, List, Words, Step
  <2> QED
    BY <2>1, <2>2, Mapped
<1>2. Listing(m) /\ Len(m) = 1 /\ m[1] = Mark(x)
  <2>1. Len(m) = 1 /\ DOMAIN m = 1 .. 1 /\ m = [i \in DOMAIN m |-> m[i]] /\ m[1] = Mark(x)
    OBVIOUS
  <2> QED
    BY <2>1, Mapped
<1>3. StepsOK(p, x, h)
  BY LayoutRefsScript
<1>4. StepOK(p, x, Mark(x)) /\ Assigns(Mark(x)) = {"ranges", "sets", "subs"}
  BY MarkOK
<1>5. StepsOK(p, x, m)
  <2>1. DOMAIN m = 1 .. 1
    OBVIOUS
  <2> HIDE DEF m
  <2> QED
    BY <1>2, <1>4, <2>1 DEF StepsOK
<1>6. \A i \in 1 .. Len(h), j \in 1 .. Len(m) : Assigns(h[i]) \cap Assigns(m[j]) = {}
  <2> TAKE i \in 1 .. Len(h), j \in 1 .. Len(m)
  <2>1. i \in 1 .. 7 /\ j = 1
    BY <1>1, <1>2
  <2>2. Assigns(h[i]) = {h[i].field}
    BY <2>1, <1>1 DEF Assigns
  <2> QED
    BY <2>1, <2>2, <1>1, <1>2, <1>4
<1> HIDE DEF h, m
<1>7. StepsOK(p, x, h \o m) /\ Listing(h \o m)
  BY <1>1, <1>2, <1>3, <1>5, <1>6, StepsConcat
<1>8. /\ Len(h \o m) = 7 + 1
      /\ \A i \in 1 .. 7 : (h \o m)[i] = h[i]
      /\ \A i \in 1 .. 1 : (h \o m)[7 + i] = m[i]
  <2> DEFINE c == h \o m
  <2>1. c = h \o m
    OBVIOUS
  <2> HIDE DEF c
  <2>2. /\ Len(c) = Len(h) + Len(m)
        /\ \A i \in 1 .. Len(h) : c[i] = h[i]
        /\ \A i \in 1 .. Len(m) : c[Len(h) + i] = m[i]
    <3>1. Joined(h, m, c)
      BY <2>1, <1>1, <1>2, Concat
    <3> QED
      BY <3>1 DEF Joined
  <2> QED
    BY <2>1, <2>2, <1>1, <1>2
<1>9. (h \o m)[8] = Mark(x)
  BY <1>8, <1>2
<1> QED
  BY <1>1, <1>7, <1>8, <1>9 DEF h, m

LEMMA LayoutScript ==
    ASSUME NEW p \in Programs, NEW x, x.kind = "typeLayout", Typed(p, x)
    PROVE  StepsOK(p, x, AddTypeLayout(x)) /\ LayoutPositions(x, AddTypeLayout(x))
<1> DEFINE h  == LayoutRefs(x) \o <<Mark(x)>>
           rs == [r \in DOMAIN x.ranges |-> RangeStep(x.ranges[r])]
           ss == [s \in DOMAIN x.sets |-> SetStep(x.sets[s])]
           bs == [s \in DOMAIN x.subs |-> SubStep(x.subs[s])]
           R  == [type : Nat, var : Pointers(p, {"var"}), leaf : Pointers(p, {"typeLayout"})]
           B  == [range : Nat, offset : Pointers(p, {"varLayout"})]
<1>1. /\ Listing(h) /\ StepsOK(p, x, h) /\ Len(h) = 8 /\ h[8] = Mark(x)
      /\ \A i \in 1 .. 7 : h[i].op \in {"ref", "list"} /\ h[i] = LayoutRefs(x)[i]
  BY SMTT(60), LayoutHead
<1>2. /\ x.ranges \in Seq(R)
      /\ x.sets \in Seq(Seq(Nat))
      /\ x.subs \in Seq(B)
  BY DEF Typed
<1>12. /\ \A r \in R : StepOK(p, x, RangeStep(r)) /\ Assigns(RangeStep(r)) = {}
       /\ \A r \in B : StepOK(p, x, SubStep(r)) /\ Assigns(SubStep(r)) = {}
  BY RangeOK, SubOK DEF RangeStep, SubStep
<1> HIDE DEF R, B
<1>3. /\ Listing(rs) /\ Len(rs) = Len(x.ranges) /\ Len(x.ranges) \in Nat
      /\ \A k \in 1 .. Len(rs) : rs[k] = RangeStep(x.ranges[k]) /\ StepOK(p, x, rs[k]) /\ Assigns(rs[k]) = {}
  <2>1. Len(x.ranges) \in Nat /\ DOMAIN rs = 1 .. Len(x.ranges) /\ rs = [i \in DOMAIN rs |-> rs[i]]
    BY <1>2
  <2>2. \A r \in R :
           StepOK(p, x, RangeStep(r)) /\ Assigns(RangeStep(r)) = {}
    BY <1>12
  <2>3. \A k \in 1 .. Len(x.ranges) : rs[k] = RangeStep(x.ranges[k])
    BY <1>2
  <2>4. \A k \in 1 .. Len(x.ranges) : x.ranges[k] \in R
    BY <1>2
  <2> HIDE DEF rs
  <2> QED
    BY <2>1, <2>2, <2>3, <2>4, Mapped
<1>4. /\ Listing(ss) /\ Len(ss) = Len(x.sets) /\ Len(x.sets) \in Nat
      /\ \A k \in 1 .. Len(ss) : ss[k] = SetStep(x.sets[k]) /\ StepOK(p, x, ss[k]) /\ Assigns(ss[k]) = {}
  <2>1. Len(x.sets) \in Nat /\ DOMAIN ss = 1 .. Len(x.sets) /\ ss = [i \in DOMAIN ss |-> ss[i]]
    BY <1>2
  <2>2. \A ws \in Seq(Nat) : StepOK(p, x, SetStep(ws)) /\ Assigns(SetStep(ws)) = {}
    BY SetOK DEF SetStep
  <2>3. \A k \in 1 .. Len(x.sets) : ss[k] = SetStep(x.sets[k])
    BY <1>2
  <2>4. \A k \in 1 .. Len(x.sets) : x.sets[k] \in Seq(Nat)
    BY <1>2
  <2> HIDE DEF ss
  <2> QED
    BY <2>1, <2>2, <2>3, <2>4, Mapped
<1>5. /\ Listing(bs) /\ Len(bs) = Len(x.subs) /\ Len(x.subs) \in Nat
      /\ \A k \in 1 .. Len(bs) : bs[k] = SubStep(x.subs[k]) /\ StepOK(p, x, bs[k]) /\ Assigns(bs[k]) = {}
  <2>1. Len(x.subs) \in Nat /\ DOMAIN bs = 1 .. Len(x.subs) /\ bs = [i \in DOMAIN bs |-> bs[i]]
    BY <1>2
  <2>2. \A r \in B : StepOK(p, x, SubStep(r)) /\ Assigns(SubStep(r)) = {}
    BY <1>12
  <2>3. \A k \in 1 .. Len(x.subs) : bs[k] = SubStep(x.subs[k])
    BY <1>2
  <2>4. \A k \in 1 .. Len(x.subs) : x.subs[k] \in B
    BY <1>2
  <2> HIDE DEF bs
  <2> QED
    BY <2>1, <2>2, <2>3, <2>4, Mapped
<1>6. CASE ~WalkBindingTables(x)
  <2>1. AddTypeLayout(x) = h \o <<>>
    BY <1>6 DEF AddTypeLayout, BindingTables, h
  <2>2. Listing(<<>>) /\ Len(<<>>) = 0
    BY DEF Listing
  <2> HIDE DEF h
  <2>3. h \o <<>> = h
    BY <1>1 DEF Listing
  <2> QED
    BY <1>1, <1>6, <2>1, <2>3 DEF LayoutPositions, RangeCount, SetCount, SubCount
<1>7. CASE WalkBindingTables(x)
  <2>1. AddTypeLayout(x) = h \o ((rs \o ss) \o bs)
    BY <1>7 DEF AddTypeLayout, BindingTables, h, RangeStep, SetStep, SubStep
  <2> HIDE DEF h, rs, ss, bs
  <2> DEFINE n1 == Len(rs)
             n2 == Len(ss)
             n3 == Len(bs)
             b1 == rs \o ss
             b2 == b1 \o bs
             sc == h \o b2
  <2>20. b1 = rs \o ss /\ b2 = b1 \o bs /\ sc = h \o b2
    OBVIOUS
  <2>21. n1 \in Nat /\ n2 \in Nat /\ n3 \in Nat /\ n1 = Len(rs) /\ n2 = Len(ss) /\ n3 = Len(bs)
    BY <1>3, <1>4, <1>5
  <2> HIDE DEF b1, b2, sc, n1, n2, n3
  <2>2. /\ Listing(b1) /\ Len(b1) = n1 + n2 /\ n1 \in Nat /\ n2 \in Nat
        /\ \A i \in 1 .. n1 : b1[i] = rs[i]
        /\ \A i \in 1 .. n2 : b1[n1 + i] = ss[i]
    <3>1. Joined(rs, ss, b1)
      BY <2>20, <1>3, <1>4, Concat
    <3> QED
      BY <3>1, <2>21 DEF Joined
  <2>3. /\ Listing(b2) /\ Len(b2) = n1 + n2 + n3 /\ n3 \in Nat
        /\ \A i \in 1 .. n1 + n2 : b2[i] = b1[i]
        /\ \A i \in 1 .. n3 : b2[n1 + n2 + i] = bs[i]
    <3>1. /\ Listing(b2) /\ Len(b2) = Len(b1) + Len(bs)
          /\ \A i \in 1 .. Len(b1) : b2[i] = b1[i]
          /\ \A i \in 1 .. Len(bs) : b2[Len(b1) + i] = bs[i]
      <4>1. Joined(b1, bs, b2)
        BY <2>20, <2>2, <1>5, Concat
      <4> QED
        BY <4>1 DEF Joined
    <3> QED
      BY <3>1, <2>2, <2>21
  <2>4. /\ Listing(sc) /\ Len(sc) = 8 + n1 + n2 + n3
        /\ \A i \in 1 .. 8 : sc[i] = h[i]
        /\ \A i \in 1 .. n1 + n2 + n3 : sc[8 + i] = b2[i]
    <3>1. /\ Listing(sc) /\ Len(sc) = Len(h) + Len(b2)
          /\ \A i \in 1 .. Len(h) : sc[i] = h[i]
          /\ \A i \in 1 .. Len(b2) : sc[Len(h) + i] = b2[i]
      <4>1. Joined(h, b2, sc)
        BY <2>20, <2>3, <1>1, Concat
      <4> QED
        BY <4>1 DEF Joined
    <3> QED
      BY <3>1, <2>3, <2>2, <1>1
  <2>5. \A k \in 1 .. n1 : b2[k] = rs[k]
    BY <2>2, <2>3
  <2>6. \A k \in 1 .. n2 : b2[n1 + k] = ss[k]
    BY <2>2, <2>3
  <2>7. \A n \in 1 .. Len(b2) : StepOK(p, x, b2[n]) /\ Assigns(b2[n]) = {}
    <3> TAKE n \in 1 .. Len(b2)
    <3>1. CASE n \in 1 .. n1
      BY <3>1, <2>5, <2>21, <1>3
    <3>2. CASE n \in n1 + 1 .. n1 + n2
      <4>1. n - n1 \in 1 .. n2 /\ n = n1 + (n - n1)
        BY <3>2, <2>2
      <4> QED
        BY ZenonT(60), <4>1, <2>6, <2>21, <1>4
    <3>3. CASE n \in n1 + n2 + 1 .. n1 + n2 + n3
      <4>1. n - (n1 + n2) \in 1 .. n3 /\ n = n1 + n2 + (n - (n1 + n2))
        BY <3>3, <2>2, <2>3
      <4>2. b2[n] = bs[n - (n1 + n2)]
        BY <4>1, <2>3
      <4> QED
        BY <4>1, <4>2, <2>21, <1>5
    <3> QED
      BY <3>1, <3>2, <3>3, <2>2, <2>3
  <2>8. StepsOK(p, x, sc)
    BY <2>20, <1>1, <2>3, <2>7, StepsPlus
  <2>9. \A k \in 1 .. n1 : sc[8 + k] = rs[k]
    BY <2>4, <2>5, <2>2, <2>3
  <2>10. \A k \in 1 .. n2 : sc[8 + n1 + k] = ss[k]
    <3> TAKE k \in 1 .. n2
    <3>1. n1 + k \in 1 .. n1 + n2 + n3 /\ 8 + n1 + k = 8 + (n1 + k)
      BY <2>2, <2>3
    <3> QED
      BY <3>1, <2>4, <2>6
  <2>11. \A k \in 1 .. n3 : sc[8 + n1 + n2 + k] = bs[k]
    <3> TAKE k \in 1 .. n3
    <3>1. n1 + n2 + k \in 1 .. n1 + n2 + n3 /\ 8 + n1 + n2 + k = 8 + (n1 + n2 + k)
      BY <2>2, <2>3
    <3> QED
      BY <3>1, <2>4, <2>3
  <2>12. RangeCount(x) = n1 /\ SetCount(x) = n2 /\ SubCount(x) = n3
    BY <1>3, <1>4, <1>5, <1>7, <2>21 DEF RangeCount, SetCount, SubCount
  <2>13. \A i \in 1 .. 7 : sc[i].op \in {"ref", "list"} /\ sc[i] = LayoutRefs(x)[i]
    BY SMTT(60), <2>4, <1>1
  <2>14. sc[8] = Mark(x)
    BY <2>4, <1>1
  <2>15. LayoutPositions(x, sc)
    BY ZenonT(60), <2>2, <2>3, <2>4, <2>9, <2>10, <2>11, <2>12, <2>13, <2>14, <2>21, <1>3, <1>4, <1>5
       DEF LayoutPositions
  <2> QED
    BY SMTT(60), <2>1, <2>8, <2>15, <2>20
<1> QED
  BY <1>6, <1>7

LEMMA RootScript ==
    ASSUME NEW p \in Programs, NEW x, x.kind = "root", Typed(p, x)
    PROVE  StepsOK(p, x, Serialize(x))
<1> DEFINE ps == [k \in DOMAIN x.params |-> Add(x.params[k])]
           ms == <<Ref("globalParams", x.global), Add(x.module)>>
           es == [k \in DOMAIN x.entryPoints |-> Add(x.entryPoints[k])]
           hs == [k \in DOMAIN x.hashed |-> Step("hash", "", <<>>, <<x.hashed[k]>>)]
           T  == Text \cup {Nil}
<1>1. /\ x.params \in Seq(Pointers(p, {"varLayout"})) /\ x.global \in Pointers(p, {"varLayout"})
      /\ x.module \in Pointers(p, {"decl"}) /\ x.entryPoints \in Seq(Pointers(p, {"entryPoint"}))
      /\ x.hashed \in Seq(T)
  BY DEF Typed
<1>12. Len(x.hashed) \in Nat /\ DOMAIN x.hashed = 1 .. Len(x.hashed) /\ \A k \in 1 .. Len(x.hashed) : x.hashed[k] \in T
  <2> HIDE DEF T
  <2> QED
    BY <1>1
<1>2. "root" \notin {"varLayout"} /\ "root" \notin {"decl"} /\ "root" \notin {"entryPoint"}
      /\ "root" \notin Plain /\ "varLayout" \in Kinds \ {"entryPoint"} /\ "globalParams" \in FieldNames
  BY DEF Plain, Kinds, FieldNames
<1>3. /\ Listing(ps) /\ \A n \in 1 .. Len(ps) : StepOK(p, x, ps[n]) /\ Assigns(ps[n]) = {}
  <2>1. Len(x.params) \in Nat /\ DOMAIN ps = 1 .. Len(x.params) /\ ps = [i \in DOMAIN ps |-> ps[i]]
    BY <1>1
  <2>2. \A t \in Pointers(p, {"varLayout"}) : StepOK(p, x, Add(t)) /\ Assigns(Add(t)) = {}
    BY <1>2, AddOK
  <2>3. \A k \in 1 .. Len(x.params) : ps[k] = Add(x.params[k]) /\ x.params[k] \in Pointers(p, {"varLayout"})
    BY <1>1
  <2> HIDE DEF ps
  <2> QED
    BY <2>1, <2>2, <2>3, Mapped
<1>4. /\ Listing(es) /\ \A n \in 1 .. Len(es) : StepOK(p, x, es[n]) /\ Assigns(es[n]) = {}
  <2>1. Len(x.entryPoints) \in Nat /\ DOMAIN es = 1 .. Len(x.entryPoints) /\ es = [i \in DOMAIN es |-> es[i]]
    BY <1>1
  <2>2. \A t \in Pointers(p, {"entryPoint"}) : StepOK(p, x, Add(t)) /\ Assigns(Add(t)) = {}
    BY <1>2, AddOK
  <2>3. \A k \in 1 .. Len(x.entryPoints) : es[k] = Add(x.entryPoints[k]) /\ x.entryPoints[k] \in Pointers(p, {"entryPoint"})
    BY <1>1
  <2> HIDE DEF es
  <2> QED
    BY <2>1, <2>2, <2>3, Mapped
<1>5. /\ Listing(hs) /\ \A n \in 1 .. Len(hs) : StepOK(p, x, hs[n]) /\ Assigns(hs[n]) = {}
  <2> HIDE DEF T
  <2>1. Len(x.hashed) \in Nat /\ DOMAIN hs = 1 .. Len(x.hashed) /\ hs = [i \in DOMAIN hs |-> hs[i]]
    BY <1>12
  <2>2. \A s \in T : LET h == Step("hash", "", <<>>, <<s>>) IN StepOK(p, x, h) /\ Assigns(h) = {}
    BY HashOK DEF T
  <2>3. \A k \in 1 .. Len(x.hashed) : hs[k] = Step("hash", "", <<>>, <<x.hashed[k]>>) /\ x.hashed[k] \in T
    BY <1>12
  <2> HIDE DEF hs
  <2> QED
    BY <2>1, <2>2, <2>3, Mapped
<1>6. Listing(ms) /\ StepsOK(p, x, ms)
  <2>1. Len(ms) = 2 /\ DOMAIN ms = 1 .. 2 /\ ms = [i \in DOMAIN ms |-> ms[i]]
        /\ ms[1] = Ref("globalParams", x.global) /\ ms[2] = Add(x.module)
    OBVIOUS
  <2>2. \A f \in FieldNames : \A t \in Pointers(p, {"varLayout"}) :
           StepOK(p, x, Ref(f, t)) /\ Assigns(Ref(f, t)) = {f}
    BY <1>2, RefTo
  <2>3. StepOK(p, x, ms[1])
    BY <1>1, <1>2, <2>1, <2>2
  <2>4. StepOK(p, x, ms[2]) /\ Assigns(ms[2]) = {}
    BY <1>1, <1>2, <2>1, AddOK
  <2> HIDE DEF ms
  <2>5. Listing(ms)
    BY <2>1, Mapped
  <2> QED
    BY <2>1, <2>3, <2>4, <2>5 DEF StepsOK
<1>7. Serialize(x) = ((ps \o ms) \o es) \o hs
  BY DEF Serialize
<1> HIDE DEF ps, ms, es, hs
<1>8. StepsOK(p, x, ps)
  <2>1. Listing(<<>>) /\ Len(<<>>) = 0 /\ DOMAIN <<>> = 1 .. 0
    BY DEF Listing
  <2>2. StepsOK(p, x, <<>>)
    BY <2>1 DEF StepsOK
  <2>3. <<>> \o ps = ps
    BY <1>3 DEF Listing
  <2> QED
    BY <2>1, <2>2, <2>3, <1>3, StepsPlus
<1>9. StepsOK(p, x, ps \o ms) /\ Listing(ps \o ms)
  <2>1. \A m \in 1 .. Len(ps), n \in 1 .. Len(ms) : Assigns(ps[m]) \cap Assigns(ms[n]) = {}
    BY <1>3
  <2> QED
    BY <2>1, <1>3, <1>6, <1>8, StepsConcat
<1>10. StepsOK(p, x, (ps \o ms) \o es) /\ Listing((ps \o ms) \o es)
  BY <1>9, <1>4, StepsPlus
<1>11. StepsOK(p, x, ((ps \o ms) \o es) \o hs)
  BY <1>10, <1>5, StepsPlus
<1> QED
  BY <1>7, <1>11

\* Every script is well formed.
LEMMA Scripts ==
    ASSUME NEW p \in Programs, NEW o \in DOMAIN p
    PROVE  StepsOK(p, p[o], Script(p, o))
<1> DEFINE x == p[o]
<1>1. x.kind \in Kinds \cup {"root"} /\ Typed(p, x) /\ Nil \notin DOMAIN p
  BY ProgramFacts
<1>2. CASE x.kind = "type"
  <2>1. Script(p, o) = AddType(x)
    BY <1>2 DEF Script
  <2> QED
    BY <1>1, <1>2, <2>1, TypeScript
<1>3. CASE x.kind = "typeLayout"
  <2>1. Script(p, o) = AddTypeLayout(x)
    BY <1>3 DEF Script
  <2> QED
    BY <1>1, <1>3, <2>1, LayoutScript
<1>4. CASE x.kind = "var"
  <2>1. Script(p, o) = AddVariable(x)
    BY <1>4 DEF Script
  <2> QED
    BY <1>1, <1>4, <2>1, VariableScript
<1>5. CASE x.kind = "varLayout"
  <2>1. Script(p, o) = AddVarLayout(x, Annotated(p, x.var))
    BY <1>5 DEF Script
  <2>2. x.var \in Pointers(p, {"var"})
    BY <1>1, <1>5 DEF Typed
  <2>3. Modified(Annotated(p, x.var))
    <3>1. CASE x.var = Nil
      BY <3>1 DEF Annotated, Modified
    <3>2. CASE x.var # Nil
      <4>1. x.var \in DOMAIN p /\ p[x.var].kind = "var"
        BY <2>2, <3>2 DEF Pointers
      <4>2. Typed(p, p[x.var])
        BY <4>1, ProgramFacts
      <4>3. Modified(p[x.var])
        BY <4>1, <4>2 DEF Typed
      <4> QED
        BY <4>3, <3>2 DEF Annotated
    <3> QED
      BY <3>1, <3>2
  <2> QED
    BY <1>1, <1>5, <2>1, <2>3, VarLayoutScript
<1>6. CASE x.kind = "func"
  <2>1. Script(p, o) = AddFunction(x)
    BY <1>6 DEF Script
  <2> QED
    BY <1>1, <1>6, <2>1, FunctionScript
<1>7. CASE x.kind = "generic"
  <2>1. Script(p, o) = AddGeneric(x)
    BY <1>7 DEF Script
  <2> QED
    BY <1>1, <1>7, <2>1, GenericScript
<1>8. CASE x.kind = "decl"
  <2>1. Script(p, o) = AddDecl(x)
    BY <1>8 DEF Script
  <2> QED
    BY <1>1, <1>8, <2>1, DeclScript
<1>9. CASE x.kind = "entryPoint"
  <2>1. Script(p, o) = AddEntryPoint(x, Annotated(p, x.function))
    BY <1>9 DEF Script
  <2>2. x.function \in Pointers(p, {"func"})
    BY <1>1, <1>9 DEF Typed
  <2>3. Modified(Annotated(p, x.function))
    <3>1. CASE x.function = Nil
      BY <3>1 DEF Annotated, Modified
    <3>2. CASE x.function # Nil
      <4>1. x.function \in DOMAIN p /\ p[x.function].kind = "func"
        BY <2>2, <3>2 DEF Pointers
      <4>2. Typed(p, p[x.function])
        BY <4>1, ProgramFacts
      <4>3. Modified(p[x.function])
        BY <4>1, <4>2 DEF Typed
      <4> QED
        BY <4>3, <3>2 DEF Annotated
    <3> QED
      BY <3>1, <3>2
  <2> QED
    BY <1>1, <1>9, <2>1, <2>3, EntryPointScript
<1>10. CASE x.kind = "root"
  <2>1. Script(p, o) = Serialize(x)
    BY <1>10 DEF Script
  <2> QED
    BY <1>1, <1>10, <2>1, RootScript
<1> QED
  BY <1>1, <1>2, <1>3, <1>4, <1>5, <1>6, <1>7, <1>8, <1>9, <1>10 DEF Kinds

-----------------------------------------------------------------------------
(* The shape of a state.                                                   *)

\* What the fields of a row hold: numbers and slices.
Slices  == [off : Nat, count : Nat]
Values  == Nat \cup Slices
Records == UNION {[S -> Values] : S \in SUBSET FieldNames}

\* What the pools hold.
Items(q) ==
    CASE q \in {"u32", "modifier", "attrArg", "hashedStr", "descriptorRange"} -> Nat
      [] q = "string"         -> Text
      [] q = "attr"           -> [name : Nat, off : Nat, count : Nat]
      [] q = "bindingRange"   -> [type : Nat, var : Nat, leaf : Nat]
      [] q = "descriptorSet"  -> Slices
      [] q = "subObjectRange" -> [range : Nat, offset : Nat]

PoolsOK(pl)  == DOMAIN pl = Pools /\ \A q \in Pools : pl[q] \in Seq(Items(q))
TablesOK(tb) == DOMAIN tb = Kinds /\ \A k \in Kinds : tb[k] \in Seq(Records)

\* Every object with an index has a row, and no other has it.
IndexOK(p, ix, tb) ==
    /\ DOMAIN ix \subseteq Indexed(p)
    /\ \A o \in DOMAIN ix : ix[o] \in Nat /\ ix[o] < Len(tb[p[o].kind])
    /\ \A o, n \in DOMAIN ix : p[o].kind = p[n].kind /\ ix[o] = ix[n] => o = n

Frames(p) == [obj : DOMAIN p, step : Nat \ {0}, got : Seq(Nat), row : Records]

\* Frame f has steps left, and which is the next.
Busy(p, f)   == f.step <= Len(Script(p, f.obj))
StepOf(p, f) == Script(p, f.obj)[f.step]

\* Frame f has an object to add, and which.
Waits(p, f)   == Busy(p, f) /\ Len(f.got) < Len(StepOf(p, f).to)
Awaited(p, f) == StepOf(p, f).to[Len(f.got) + 1]

FrameOK(p, f) ==
    /\ f.step <= Len(Script(p, f.obj)) + 1
    /\ Busy(p, f) /\ StepOf(p, f).op # "attrs" => Len(f.got) <= Len(StepOf(p, f).to)

\* Each frame but the last waits for the object of the one above it.
StackOK(p, st) ==
    /\ st \in Seq(Frames(p))
    /\ \A n \in 1 .. Len(st) : FrameOK(p, st[n])
    /\ \A n \in 1 .. Len(st) - 1 : Waits(p, st[n]) /\ st[n + 1].obj = Awaited(p, st[n])
    /\ st # <<>> => st[1].obj = "root"

\* The objects of the frames are in the map, but for the root and for an
\* entry point.
Registered(p, st, ix) ==
    \A n \in 1 .. Len(st) :
      p[st[n].obj].kind \notin {"root", "entryPoint"} => st[n].obj \in DOMAIN ix

OnceOnStack(st) == \A m, n \in 1 .. Len(st) : st[m].obj = st[n].obj => m = n

\* Nothing above a frame that keeps layouts away adds a layout.
KeepsLayoutsAway(p, f) ==
    p[f.obj].kind \in Plain \/ (Busy(p, f) /\ StepOf(p, f).op = "range")
PlainAbove(p, st) ==
    \A m, n \in 1 .. Len(st) : m < n /\ KeepsLayoutsAway(p, st[m]) => p[st[n].obj].kind \in Plain

Shape ==
    /\ prog \in Programs
    /\ StackOK(prog, stack) /\ Registered(prog, stack, index) /\ OnceOnStack(stack)
    /\ PlainAbove(prog, stack)
    /\ IndexOK(prog, index, table) /\ TablesOK(table) /\ PoolsOK(pool)
    /\ file # NoFile => stack = <<>>
    /\ prog["root"].layout \/ DOMAIN index = {}

-----------------------------------------------------------------------------
(* What a completed step leaves in the row of its object.                  *)

\* Names, for an index map that is given.
NamesIn(ix, i, x) == IF x = Nil THEN i = Invalid ELSE x \in DOMAIN ix /\ i = ix[x]

\* Step m of object o is done in row.
StepDone(p, o, m, row, ix, pl) ==
    LET s == Script(p, o)[m]
        r == row[s.field]
    IN  /\ s.op \in {"ref", "list", "name", "mods", "attrs"} => s.field \in DOMAIN row
        /\ s.op = "ref" => NamesIn(ix, r, s.to[1])
        /\ s.op = "list" =>
             /\ r \in Slices /\ r.count = Len(s.to) + Len(s.data)
             /\ r.count > 0 => r.off + r.count <= Len(pl["u32"])
             /\ \A k \in 1 .. Len(s.to) : NamesIn(ix, pl["u32"][r.off + k], s.to[k])
             /\ \A k \in 1 .. Len(s.data) : pl["u32"][r.off + Len(s.to) + k] = s.data[k]
        /\ s.op = "name" =>
             /\ s.data[1] = Nil => r = Invalid
             /\ s.data[1] # Nil => /\ r \in Nat /\ r < Len(pl["string"])
                                  /\ pl["string"][r + 1] = s.data[1]
        /\ s.op = "mods" =>
             /\ r \in Slices /\ r.count = Len(s.data)
             /\ r.count > 0 => r.off + r.count <= Len(pl["modifier"])
             /\ \A k \in 1 .. Len(s.data) : pl["modifier"][r.off + k] = s.data[k]
        /\ s.op = "attrs" => r \in Slices /\ r.count = Len(s.data)
        /\ s.op = "mark" =>
             /\ {"ranges", "sets", "subs"} \subseteq DOMAIN row
             /\ row["ranges"] \in Slices /\ row["ranges"].count = RangeCount(p[o])
             /\ row["sets"] \in Slices /\ row["sets"].count = SetCount(p[o])
             /\ row["subs"] \in Slices /\ row["subs"].count = SubCount(p[o])

\* Frame f knows the index of every object its step has added.
GotOK(p, f, ix) ==
    Busy(p, f) /\ StepOf(p, f).op # "attrs" =>
      \A k \in 1 .. Len(f.got) :
        StepOf(p, f).to[k] \in Indexed(p) \cup {Nil} => NamesIn(ix, f.got[k], StepOf(p, f).to[k])

FrameDone(p, f, ix, pl) ==
    GotOK(p, f, ix) /\ \A m \in 1 .. f.step - 1 : StepDone(p, f.obj, m, f.row, ix, pl)

FramesDone(p, st, ix, pl) == \A n \in 1 .. Len(st) : FrameDone(p, st[n], ix, pl)

OnStack(o, st) == \E n \in 1 .. Len(st) : st[n].obj = o

RowDone(p, o, row, ix, pl) == \A m \in 1 .. Len(Script(p, o)) : StepDone(p, o, m, row, ix, pl)

TablesDone(p, st, ix, tb, pl) ==
    \A o \in DOMAIN ix : OnStack(o, st) \/ RowDone(p, o, tb[p[o].kind][ix[o] + 1], ix, pl)

Progress == FramesDone(prog, stack, index, pool) /\ TablesDone(prog, stack, index, table, pool)

-----------------------------------------------------------------------------
-----------------------------------------------------------------------------
(* The binding tables of layouts.                                          *)

IsLayout(p, o) == p[o].kind = "typeLayout"

\* Row k of the binding ranges, of the descriptor sets and of the sub-objects
\* of layout o is the one it should be.
RangeDone(p, o, k, row, ix, pl) ==
    LET j == row["ranges"].off + k
        b == pl["bindingRange"][j]
        d == p[o].ranges[k]
    IN  /\ j <= Len(pl["bindingRange"])
        /\ b.type = d.type /\ NamesIn(ix, b.var, d.var)
        /\ b.leaf = Invalid \/ NamesIn(ix, b.leaf, d.leaf)

SetDone(p, o, k, row, pl) ==
    LET j == row["sets"].off + k
        b == pl["descriptorSet"][j]
        d == p[o].sets[k]
    IN  /\ j <= Len(pl["descriptorSet"])
        /\ b.count = Len(d) /\ b.off + b.count <= Len(pl["descriptorRange"])
        /\ \A i \in 1 .. Len(d) : pl["descriptorRange"][b.off + i] = d[i]

SubDone(p, o, k, row, ix, pl) ==
    LET j == row["subs"].off + k
        b == pl["subObjectRange"][j]
        d == p[o].subs[k]
    IN  /\ j <= Len(pl["subObjectRange"])
        /\ b.range = d.range /\ NamesIn(ix, b.offset, d.offset)

\* A layout being added has marked its slices; how far it is with each.
Marked(p, f)   == IsLayout(p, f.obj) /\ f.step > 8
RangesIn(p, f) == f.step - 9
SetsIn(p, f)   == f.step - 9 - RangeCount(p[f.obj])
SubsIn(p, f)   == f.step - 9 - RangeCount(p[f.obj]) - SetCount(p[f.obj])
InSubs(p, f)   == Marked(p, f) /\ SubsIn(p, f) >= 0

\* A layout adds its binding ranges and descriptor sets undisturbed.
Undisturbed(p, f, pl) ==
    /\ RangesIn(p, f) < RangeCount(p[f.obj]) =>
         /\ Len(pl["bindingRange"]) = f.row["ranges"].off + RangesIn(p, f)
         /\ Len(pl["descriptorSet"]) = f.row["sets"].off
    /\ SetsIn(p, f) >= 0 /\ SetsIn(p, f) < SetCount(p[f.obj]) =>
         Len(pl["descriptorSet"]) = f.row["sets"].off + SetsIn(p, f)
    /\ SubsIn(p, f) < 0 => Len(pl["subObjectRange"]) = f.row["subs"].off

BindingFrame(p, f, ix, pl) ==
    Marked(p, f) =>
      /\ Undisturbed(p, f, pl) /\ f.row["subs"].off <= Len(pl["subObjectRange"])
      /\ \A k \in 1 .. RangeCount(p[f.obj]) : k <= RangesIn(p, f) => RangeDone(p, f.obj, k, f.row, ix, pl)
      /\ \A k \in 1 .. SetCount(p[f.obj]) : k <= SetsIn(p, f) => SetDone(p, f.obj, k, f.row, pl)

BindingRow(p, o, row, ix, pl) ==
    /\ row["subs"].off <= Len(pl["subObjectRange"])
    /\ \A k \in 1 .. RangeCount(p[o]) : RangeDone(p, o, k, row, ix, pl)
    /\ \A k \in 1 .. SetCount(p[o]) : SetDone(p, o, k, row, pl)

Bindings(p, st, ix, tb, pl) ==
    /\ \A n \in 1 .. Len(st) : BindingFrame(p, st[n], ix, pl)
    /\ \A o \in DOMAIN ix : IsLayout(p, o) =>
         OnStack(o, st) \/ BindingRow(p, o, tb["typeLayout"][ix[o] + 1], ix, pl)

-----------------------------------------------------------------------------
(* The sub-objects of layouts.                                             *)

\* The slice c of sub-objects that layout g has marked.
HasSubs(g, c, st, ix, tb) ==
    \/ \E n \in 1 .. Len(st) : st[n].obj = g /\ st[n].step > 8 /\ st[n].row["subs"] = c
    \/ ~OnStack(g, st) /\ tb["typeLayout"][ix[g] + 1]["subs"] = c

\* Another layout has put its sub-objects between those of slice d, whose
\* layout has index i.
Intruded(p, i, d, st, ix, tb) ==
    \E g \in DOMAIN ix, c \in Slices :
      /\ IsLayout(p, g) /\ ix[g] > i /\ HasSubs(g, c, st, ix, tb)
      /\ c.count > 0 /\ d.off <= c.off /\ c.off < d.off + d.count

\* Frame f has its sub-objects so far next to one another, and at the end.
SubsExact(p, f, ix, pl) ==
    /\ SubsIn(p, f) < SubCount(p[f.obj]) => Len(pl["subObjectRange"]) = f.row["subs"].off + SubsIn(p, f)
    /\ \A k \in 1 .. SubCount(p[f.obj]) : k <= SubsIn(p, f) => SubDone(p, f.obj, k, f.row, ix, pl)

SubRow(p, o, row, ix, pl) == \A k \in 1 .. SubCount(p[o]) : SubDone(p, o, k, row, ix, pl)

\* A layout is met before those above it on the stack.
InOrder(p, st, ix) ==
    \A m, n \in 1 .. Len(st) :
      m < n /\ IsLayout(p, st[m].obj) /\ IsLayout(p, st[n].obj) => ix[st[m].obj] < ix[st[n].obj]

SubFrames(p, st, ix, tb, pl) ==
    \A n \in 1 .. Len(st) : InSubs(p, st[n]) =>
      \/ Intruded(p, ix[st[n].obj], st[n].row["subs"], st, ix, tb)
      \/ SubsExact(p, st[n], ix, pl)

\* A layout with sub-objects that has marked its slices above one that adds
\* its sub-objects has come between them.
SubsBetween(p, st, ix, tb) ==
    \A m, n \in 1 .. Len(st) :
      m < n /\ InSubs(p, st[m]) /\ Marked(p, st[n]) /\ st[n].row["subs"].count > 0 =>
        Intruded(p, ix[st[m].obj], st[m].row["subs"], st, ix, tb)

SubRows(p, st, ix, tb, pl) ==
    \A o \in DOMAIN ix : IsLayout(p, o) =>
      LET row == tb["typeLayout"][ix[o] + 1]
      IN  \/ OnStack(o, st)
          \/ Intruded(p, ix[o], row["subs"], st, ix, tb)
          \/ SubRow(p, o, row, ix, pl)

SubObjects(p, st, ix, tb, pl) ==
    /\ InOrder(p, st, ix) /\ SubFrames(p, st, ix, tb, pl)
    /\ SubsBetween(p, st, ix, tb) /\ SubRows(p, st, ix, tb, pl)

LayoutsInv ==
    Bindings(prog, stack, index, table, pool) /\ SubObjects(prog, stack, index, table, pool)

(* Rows, and the operations on the stack.                                  *)

LEMMA BlankRecord == Blank \in Records /\ DOMAIN Blank = {}
<1>1. Blank = [x \in {} |-> 0] /\ DOMAIN Blank = {}
  BY DEF Blank
<1>2. Blank \in [{} -> Values]
  BY <1>1
<1>3. {} \in SUBSET FieldNames
  OBVIOUS
<1> QED
  BY <1>1, <1>2, <1>3 DEF Records

\* Row r2 is row with field f set to v.
Assigned(row, r2, f, v) ==
    /\ DOMAIN r2 = DOMAIN row \cup {f} /\ r2[f] = v
    /\ \A g \in DOMAIN row : g # f => r2[g] = row[g]

LEMMA WithFacts == \A row, f, v : Assigned(row, With(row, f, v), f, v)
BY DEF With, Assigned

LEMMA WithRecord ==
    ASSUME NEW row \in Records, NEW f \in FieldNames, NEW v \in Values
    PROVE  With(row, f, v) \in Records
<1>1. PICK S \in SUBSET FieldNames : row \in [S -> Values]
  BY DEF Records
<1>2. With(row, f, v) \in [S \cup {f} -> Values]
  BY <1>1 DEF With
<1>3. S \cup {f} \in SUBSET FieldNames
  BY <1>1
<1> QED
  BY <1>2, <1>3 DEF Records

\* How an operation changes the stack.
SameBelow(st, s2, n) == \A k \in 1 .. n : s2[k] = st[k]

Pushed(st, s2, o, row) ==
    Len(s2) = Len(st) + 1 /\ SameBelow(st, s2, Len(st)) /\ s2[Len(s2)] = Frame(o, row)
Given(st, s2, i) ==
    /\ Len(s2) = Len(st) /\ SameBelow(st, s2, Len(st) - 1)
    /\ LET f == st[Len(st)]
           g == s2[Len(st)]
       IN  g.obj = f.obj /\ g.step = f.step /\ g.row = f.row /\ g.got = Append(f.got, i)
Advanced(st, s2, row) ==
    /\ Len(s2) = Len(st) /\ SameBelow(st, s2, Len(st) - 1)
    /\ LET f == st[Len(st)]
           g == s2[Len(st)]
       IN  g.obj = f.obj /\ g.step = f.step + 1 /\ g.row = row /\ g.got = <<>>
Popped(st, s2) == Len(s2) = Len(st) - 1 /\ SameBelow(st, s2, Len(st) - 1)

LEMMA StackFacts ==
    ASSUME NEW p \in Programs, NEW st, StackOK(p, st), st # <<>>
    PROVE  /\ Len(st) \in Nat \ {0} /\ DOMAIN st = 1 .. Len(st)
           /\ \A n \in 1 .. Len(st) :
                /\ st[n] \in Frames(p) /\ st[n].obj \in DOMAIN p /\ st[n].step \in Nat \ {0}
                /\ st[n].got \in Seq(Nat) /\ Len(st[n].got) \in Nat /\ st[n].row \in Records
                /\ StepsOK(p, p[st[n].obj], Script(p, st[n].obj))
                /\ Busy(p, st[n]) => StepOK(p, p[st[n].obj], StepOf(p, st[n]))
           /\ \A n \in 2 .. Len(st) : st[n].obj # "root"
<1>1. Len(st) \in Nat \ {0} /\ DOMAIN st = 1 .. Len(st)
      /\ \A n \in 1 .. Len(st) : st[n] \in Frames(p)
  BY DEF StackOK
<1>2. ASSUME NEW n \in 1 .. Len(st)
      PROVE  /\ st[n] \in Frames(p) /\ st[n].obj \in DOMAIN p /\ st[n].step \in Nat \ {0}
             /\ st[n].got \in Seq(Nat) /\ Len(st[n].got) \in Nat /\ st[n].row \in Records
  BY <1>1 DEF Frames
<1>3. ASSUME NEW n \in 1 .. Len(st)
      PROVE  /\ StepsOK(p, p[st[n].obj], Script(p, st[n].obj))
             /\ Busy(p, st[n]) => StepOK(p, p[st[n].obj], StepOf(p, st[n]))
  <2>1. StepsOK(p, p[st[n].obj], Script(p, st[n].obj))
    BY <1>2, Scripts
  <2> DEFINE sc == Script(p, st[n].obj)
             k  == st[n].step
  <2>2. ASSUME Busy(p, st[n]) PROVE StepOK(p, p[st[n].obj], StepOf(p, st[n]))
    <3>1. k <= Len(sc) /\ k \in Nat \ {0} /\ Len(sc) \in Nat
      BY <2>1, <2>2, <1>2 DEF Busy, StepsOK
    <3>2. k \in 1 .. Len(sc)
      BY <3>1
    <3>3. StepOf(p, st[n]) = sc[k]
      BY DEF StepOf
    <3> HIDE DEF sc, k
    <3> QED
      BY <3>2, <3>3, <2>1 DEF StepsOK, sc
  <2> QED
    BY <2>1, <2>2
<1>4. ASSUME NEW n \in 2 .. Len(st) PROVE st[n].obj # "root"
  <2>1. n - 1 \in 1 .. Len(st) - 1 /\ n - 1 \in 1 .. Len(st) /\ n = (n - 1) + 1
    BY <1>1
  <2>2. Waits(p, st[n - 1]) /\ st[n].obj = Awaited(p, st[n - 1])
    BY <2>1 DEF StackOK
  <2> DEFINE f == st[n - 1]
  <2>3. StepOf(p, f).to \in Seq(Targets(p))
    BY <2>1, <2>2, <1>3 DEF Waits, StepOK
  <2>4. Len(f.got) + 1 \in 1 .. Len(StepOf(p, f).to)
    BY SMTT(60), <2>1, <2>2, <2>3, <1>2 DEF Waits
  <2>5. Awaited(p, f) \in Targets(p)
    BY <2>3, <2>4 DEF Awaited
  <2>6. "root" \in DOMAIN p /\ Nil \notin DOMAIN p
    BY ProgramFacts
  <2> QED
    BY <2>2, <2>5, <2>6 DEF Targets
<1> QED
  BY <1>1, <1>2, <1>3, <1>4

\* What a frame waits for.
LEMMA AwaitedFacts ==
    ASSUME NEW p \in Programs, NEW f \in Frames(p), Waits(p, f)
    PROVE  /\ Awaited(p, f) \in Targets(p) /\ Awaited(p, f) # "root"
           /\ Awaited(p, f) # Nil => Awaited(p, f) \in DOMAIN p
           /\ StepOK(p, p[f.obj], StepOf(p, f))
           /\ Len(f.got) + 1 \in 1 .. Len(StepOf(p, f).to)
           /\ Awaited(p, f) # Nil /\ Awaited(p, f) \notin Indexed(p) => f.obj = "root"
           /\ Awaited(p, f) # Nil /\ KeepsLayoutsAway(p, f) => p[Awaited(p, f)].kind \in Plain
<1>1. f.obj \in DOMAIN p /\ f.step \in Nat \ {0} /\ f.got \in Seq(Nat) /\ Len(f.got) \in Nat
  BY DEF Frames
<1>2. StepsOK(p, p[f.obj], Script(p, f.obj))
  BY <1>1, Scripts
<1> DEFINE s == StepOf(p, f)
           t == Awaited(p, f)
<1>3. StepOK(p, p[f.obj], s)
  BY <1>1, <1>2 DEF StepsOK, Waits, Busy, StepOf
<1>4. s.to \in Seq(Targets(p)) /\ (s.op # "add" => s.to \in Seq(Indexed(p) \cup {Nil}))
      /\ (s.op = "add" => p[f.obj].kind = "root")
      /\ ((p[f.obj].kind \in Plain \/ s.op = "range") =>
             \A j \in 1 .. Len(s.to) : s.to[j] = Nil \/ p[s.to[j]].kind \in Plain)
  BY <1>3 DEF StepOK
<1>5. Len(f.got) + 1 \in 1 .. Len(s.to) /\ t = s.to[Len(f.got) + 1]
  BY <1>1, <1>4 DEF Waits, Awaited
<1> HIDE DEF s, t
<1>6. t \in Targets(p) /\ (s.op # "add" => t \in Indexed(p) \cup {Nil})
  BY <1>4, <1>5
<1>7. p[f.obj].kind = "root" => f.obj = "root"
  BY <1>1, ProgramFacts
<1>8. "root" \in DOMAIN p /\ Nil \notin DOMAIN p
  BY ProgramFacts
<1> QED
  BY <1>3, <1>4, <1>5, <1>6, <1>7, <1>8 DEF s, t, Targets, KeepsLayoutsAway

LEMMA PushStack ==
    ASSUME NEW p \in Programs, NEW st, StackOK(p, st), st # <<>>, NEW s2, NEW row \in Records,
           NEW t, t = Awaited(p, st[Len(st)]), Waits(p, st[Len(st)]), t # Nil,
           s2 = Append(st, Frame(t, row))
    PROVE  StackOK(p, s2) /\ Pushed(st, s2, t, row) /\ Frame(t, row) \in Frames(p)
<1>1. st \in Seq(Frames(p)) /\ Len(st) \in Nat \ {0}
  BY StackFacts DEF StackOK
<1>2. st[Len(st)] \in Frames(p)
  BY <1>1
<1>3. t \in DOMAIN p
  BY <1>2, AwaitedFacts
<1>4. Frame(t, row) \in Frames(p)
  BY <1>3 DEF Frame, Frames
<1>5. FrameOK(p, Frame(t, row))
  <2>1. StepsOK(p, p[t], Script(p, t))
    BY <1>3, Scripts
  <2>2. Len(Script(p, t)) \in Nat
    BY <2>1 DEF StepsOK
  <2>3. ASSUME Busy(p, Frame(t, row)) PROVE 0 <= Len(StepOf(p, Frame(t, row)).to)
    <3>1. StepOf(p, Frame(t, row)) = Script(p, t)[1] /\ 1 \in 1 .. Len(Script(p, t))
      BY SMTT(60), <2>2, <2>3 DEF Busy, StepOf, Frame
    <3>2. Script(p, t)[1].to \in Seq(Targets(p))
      BY <3>1, <2>1 DEF StepsOK, StepOK
    <3> QED
      BY <3>1, <3>2
  <2>4. Frame(t, row).obj = t /\ Frame(t, row).step = 1 /\ Frame(t, row).got = <<>>
    BY DEF Frame
  <2> QED
    BY <2>2, <2>3, <2>4 DEF FrameOK
<1> DEFINE f == Frame(t, row)
<1>6. f.obj = t
  BY DEF Frame
<1> HIDE DEF f
<1>7. s2 \in Seq(Frames(p)) /\ Len(s2) = Len(st) + 1 /\ s2[Len(st) + 1] = f
      /\ \A n \in 1 .. Len(st) : s2[n] = st[n]
  BY <1>1, <1>4 DEF f
<1>8. \A n \in 1 .. Len(s2) : FrameOK(p, s2[n])
  BY <1>1, <1>5, <1>7 DEF f, StackOK
<1>9. \A n \in 1 .. Len(s2) - 1 : Waits(p, s2[n]) /\ s2[n + 1].obj = Awaited(p, s2[n])
  <2> TAKE n \in 1 .. Len(s2) - 1
  <2>1. CASE n = Len(st)
    BY <2>1, <1>1, <1>6, <1>7
  <2>2. CASE n # Len(st)
    <3>1. n \in 1 .. Len(st) - 1 /\ n \in 1 .. Len(st) /\ n + 1 \in 1 .. Len(st)
      BY <2>2, <1>1, <1>7
    <3> QED
      BY <3>1, <1>7 DEF StackOK
  <2> QED
    BY <2>1, <2>2
<1>10. s2[1].obj = "root"
  BY SMTT(60), <1>1, <1>7 DEF StackOK
<1> QED
  BY <1>1, <1>4, <1>7, <1>8, <1>9, <1>10 DEF StackOK, Pushed, SameBelow, f

\* The last element of a sequence is replaced.
LEMMA LastReplaced ==
    ASSUME NEW S, NEW s \in Seq(S), s # <<>>, NEW e \in S, NEW t, t = [s EXCEPT ![Len(s)] = e]
    PROVE  /\ t \in Seq(S) /\ Len(t) = Len(s) /\ t[Len(s)] = e
           /\ SameBelow(s, t, Len(s) - 1)
<1>1. Len(s) \in 1 .. Len(s) /\ Len(s) \in Nat
  OBVIOUS
<1>2. t \in Seq(S) /\ Len(t) = Len(s) /\ t[Len(s)] = e /\ \A k \in 1 .. Len(s) : k # Len(s) => t[k] = s[k]
  BY <1>1
<1>3. \A k \in 1 .. Len(s) - 1 : k \in 1 .. Len(s) /\ k # Len(s)
  BY SMTT(60), <1>1
<1>4. SameBelow(s, t, Len(s) - 1)
  BY <1>2, <1>3 DEF SameBelow
<1> QED
  BY <1>2, <1>4

\* The last frame is replaced by one for the same object.
LEMMA ReplaceTop ==
    ASSUME NEW p \in Programs, NEW st, StackOK(p, st), st # <<>>, NEW f \in Frames(p),
           f.obj = st[Len(st)].obj, FrameOK(p, f),
           NEW s2 \in Seq(Frames(p)), Len(s2) = Len(st), SameBelow(st, s2, Len(st) - 1), s2[Len(st)] = f
    PROVE  StackOK(p, s2)
<1>1. Len(st) \in Nat \ {0} /\ 1 \in 1 .. Len(st)
  BY StackFacts
<1>2. \A n \in 1 .. Len(st) : n # Len(st) => n \in 1 .. Len(st) - 1 /\ s2[n] = st[n]
  BY <1>1 DEF SameBelow
<1>3. \A n \in 1 .. Len(s2) : FrameOK(p, s2[n]) /\ s2[n].obj = st[n].obj
  BY <1>1, <1>2 DEF StackOK
<1>4. \A n \in 1 .. Len(s2) - 1 : Waits(p, s2[n]) /\ s2[n + 1].obj = Awaited(p, s2[n])
  <2> TAKE n \in 1 .. Len(s2) - 1
  <2>1. n \in 1 .. Len(st) - 1 /\ n \in 1 .. Len(st) /\ n # Len(st) /\ n + 1 \in 1 .. Len(s2)
    BY <1>1
  <2> QED
    BY <2>1, <1>2, <1>3 DEF StackOK
<1>5. s2[1].obj = "root"
  BY <1>1, <1>3 DEF StackOK
<1> QED
  BY <1>1, <1>3, <1>4, <1>5 DEF StackOK

LEMMA GiveStack ==
    ASSUME NEW p \in Programs, NEW st, StackOK(p, st), st # <<>>, NEW i \in Nat,
           Busy(p, st[Len(st)]),
           StepOf(p, st[Len(st)]).op = "attrs" \/ Waits(p, st[Len(st)]),
           NEW s2, s2 = Give(st, i)
    PROVE  StackOK(p, s2) /\ Given(st, s2, i) /\ s2 # <<>>
<1> DEFINE f == st[Len(st)]
           g == [f EXCEPT !.got = Append(f.got, i)]
<1>1. st \in Seq(Frames(p)) /\ Len(st) \in Nat \ {0} /\ f \in Frames(p) /\ f.got \in Seq(Nat)
      /\ FrameOK(p, f) /\ Len(f.got) \in Nat /\ (Busy(p, f) => StepOK(p, p[f.obj], StepOf(p, f)))
  BY SMTT(60), StackFacts DEF StackOK
<1>2. s2 = [st EXCEPT ![Len(st)] = g]
  BY DEF Give
<1> HIDE DEF f
<1>3. g \in Frames(p) /\ g.obj = f.obj /\ g.step = f.step /\ g.row = f.row /\ g.got = Append(f.got, i)
  <2>1. Append(f.got, i) \in Seq(Nat)
    BY <1>1
  <2> DEFINE got == Append(f.got, i)
  <2>2. got \in Seq(Nat)
    BY <2>1
  <2>3. g = [f EXCEPT !.got = got]
    OBVIOUS
  <2> HIDE DEF got, g
  <2>4. g \in Frames(p) /\ g.obj = f.obj /\ g.step = f.step /\ g.row = f.row /\ g.got = got
    BY <1>1, <2>2, <2>3 DEF Frames
  <2> QED
    BY <2>4 DEF got
<1> HIDE DEF g
<1>4. Len(g.got) = Len(f.got) + 1
  BY <1>1, <1>3
<1>5. Busy(p, g) /\ StepOf(p, g) = StepOf(p, f) /\ Busy(p, f)
  BY <1>3 DEF Busy, StepOf, f
<1>6. Len(StepOf(p, f).to) \in Nat
  BY <1>1, <1>5 DEF StepOK
<1>7. FrameOK(p, g)
  BY <1>1, <1>3, <1>4, <1>5, <1>6 DEF FrameOK, Waits, f
<1>8. s2 \in Seq(Frames(p)) /\ Len(s2) = Len(st) /\ s2[Len(st)] = g /\ SameBelow(st, s2, Len(st) - 1)
  <2>2. st \in Seq(Frames(p)) /\ g \in Frames(p) /\ st # <<>>
    BY <1>1, <1>3
  <2> QED
    BY <1>2, <2>2, LastReplaced
<1>9. StackOK(p, s2)
  BY <1>3, <1>7, <1>8, ReplaceTop DEF f
<1>10. Given(st, s2, i)
  BY <1>3, <1>8 DEF Given, f
<1>11. s2 # <<>>
  BY <1>1, <1>8
<1> QED
  BY <1>9, <1>10, <1>11

LEMMA AdvanceStack ==
    ASSUME NEW p \in Programs, NEW st, StackOK(p, st), st # <<>>, NEW row \in Records,
           Busy(p, st[Len(st)]), NEW s2,
           s2 = [st EXCEPT ![Len(st)] = [obj |-> st[Len(st)].obj, step |-> st[Len(st)].step + 1,
                                         got |-> <<>>, row |-> row]]
    PROVE  StackOK(p, s2) /\ Advanced(st, s2, row) /\ s2 # <<>>
<1> DEFINE f == st[Len(st)]
           g == [obj |-> f.obj, step |-> f.step + 1, got |-> <<>>, row |-> row]
<1>1. st \in Seq(Frames(p)) /\ Len(st) \in Nat \ {0} /\ f \in Frames(p) /\ f.step \in Nat \ {0}
      /\ f.obj \in DOMAIN p /\ StepsOK(p, p[f.obj], Script(p, f.obj))
  BY SMTT(60), StackFacts DEF StackOK
<1>2. s2 = [st EXCEPT ![Len(st)] = g]
  OBVIOUS
<1>3. Busy(p, f)
  OBVIOUS
<1> HIDE DEF f
<1>4. g \in Frames(p) /\ g.obj = f.obj /\ g.step = f.step + 1 /\ g.row = row /\ g.got = <<>>
  BY <1>1 DEF Frames
<1> HIDE DEF g
<1>5. FrameOK(p, g)
  <2>1. Len(Script(p, f.obj)) \in Nat /\ f.step <= Len(Script(p, f.obj))
    BY <1>1, <1>3 DEF StepsOK, Busy
  <2>2. g.step <= Len(Script(p, g.obj)) + 1
    BY <2>1, <1>1, <1>4
  <2>3. ASSUME Busy(p, g) PROVE Len(g.got) <= Len(StepOf(p, g).to)
    <3>1. StepOf(p, g) = Script(p, f.obj)[f.step + 1] /\ f.step + 1 \in 1 .. Len(Script(p, f.obj))
      BY SMTT(60), <2>1, <2>3, <1>1, <1>4 DEF Busy, StepOf
    <3>2. Script(p, f.obj)[f.step + 1].to \in Seq(Targets(p))
      BY <3>1, <1>1 DEF StepsOK, StepOK
    <3> QED
      BY <3>1, <3>2, <1>4
  <2> QED
    BY <2>2, <2>3 DEF FrameOK
<1>6. s2 \in Seq(Frames(p)) /\ Len(s2) = Len(st) /\ s2[Len(st)] = g /\ SameBelow(st, s2, Len(st) - 1)
  BY ZenonT(60), <1>1, <1>2, <1>4, LastReplaced
<1>7. StackOK(p, s2)
  BY <1>4, <1>5, <1>6, ReplaceTop DEF f
<1>8. Advanced(st, s2, row)
  BY <1>4, <1>6 DEF Advanced, f
<1>9. s2 # <<>>
  BY <1>1, <1>6
<1> QED
  BY <1>7, <1>8, <1>9

LEMMA PopStack ==
    ASSUME NEW p \in Programs, NEW st, StackOK(p, st), Len(st) > 1, NEW s2,
           s2 = SubSeq(st, 1, Len(st) - 1)
    PROVE  /\ StackOK(p, s2) /\ Popped(st, s2) /\ s2 # <<>>
           /\ Waits(p, s2[Len(s2)]) /\ Awaited(p, s2[Len(s2)]) = st[Len(st)].obj
<1>1. st \in Seq(Frames(p)) /\ Len(st) \in Nat
  BY DEF StackOK
<1>2. s2 \in Seq(Frames(p)) /\ Len(s2) = Len(st) - 1 /\ \A k \in 1 .. Len(st) - 1 : s2[k] = st[k]
  BY <1>1
<1>3. Len(st) - 1 \in 1 .. Len(st) - 1 /\ 1 \in 1 .. Len(st) - 1
  BY <1>1
<1>4. \A n \in 1 .. Len(s2) : n \in 1 .. Len(st) /\ s2[n] = st[n]
  BY <1>1, <1>2
<1>5. \A n \in 1 .. Len(s2) - 1 : n \in 1 .. Len(st) - 1 /\ n \in 1 .. Len(s2) /\ n + 1 \in 1 .. Len(s2)
  BY <1>1, <1>2
<1>6. st # <<>>
  BY <1>1
<1>7. StackOK(p, s2)
  BY <1>2, <1>3, <1>4, <1>5, <1>6 DEF StackOK
<1>8. Popped(st, s2)
  BY <1>2 DEF Popped, SameBelow
<1>9. Waits(p, st[Len(st) - 1]) /\ st[(Len(st) - 1) + 1].obj = Awaited(p, st[Len(st) - 1])
  BY <1>3 DEF StackOK
<1>10. s2[Len(s2)] = st[Len(st) - 1] /\ (Len(st) - 1) + 1 = Len(st)
  BY <1>1, <1>2, <1>3
<1>11. s2 # <<>>
  <2>1. Len(s2) # 0
    BY <1>1, <1>2
  <2> QED
    BY <2>1, EmptySeqs
<1> QED
  BY <1>7, <1>8, <1>9, <1>10, <1>11

-----------------------------------------------------------------------------
(* What a step does to the row and to the pools.                           *)

\* t begins with s.
Extends(s, t) == Len(s) <= Len(t) /\ \A i \in 1 .. Len(s) : t[i] = s[i]

PoolGrown(pl, pl2) == \A q \in Pools : Extends(pl[q], pl2[q])

\* t is s and then the elements xs.
Extended(s, t, xs) ==
    Extends(s, t) /\ Len(t) = Len(s) + Len(xs) /\ \A k \in 1 .. Len(xs) : t[Len(s) + k] = xs[k]

LEMMA ExtendedBy ==
    ASSUME NEW S, NEW s \in Seq(S), NEW xs \in Seq(S), NEW t, t = s \o xs
    PROVE  t \in Seq(S) /\ Extended(s, t, xs) /\ Len(s) \in Nat /\ Len(xs) \in Nat
<1>1. t \in Seq(S) /\ Len(s) \in Nat /\ Len(xs) \in Nat /\ Len(t) = Len(s) + Len(xs)
  OBVIOUS
<1>2. \A i \in 1 .. Len(s) : t[i] = s[i]
  OBVIOUS
<1>3. \A k \in 1 .. Len(xs) : t[Len(s) + k] = xs[k]
  OBVIOUS
<1> QED
  BY <1>1, <1>2, <1>3 DEF Extended, Extends

\* t is s and then x.
AppendedTo(S, s, x, t) ==
    /\ t \in Seq(S) /\ Extends(s, t) /\ Len(s) \in Nat /\ Len(t) = Len(s) + 1
    /\ t[Len(s) + 1] = x

LEMMA ExtendedByOne ==
    \A S, s, x, t : s \in Seq(S) /\ x \in S /\ t = Append(s, x) => AppendedTo(S, s, x, t)
<1> SUFFICES ASSUME NEW S, NEW s \in Seq(S), NEW x \in S, NEW t, t = Append(s, x)
             PROVE  AppendedTo(S, s, x, t)
  OBVIOUS
<1> QED
  BY DEF Extends, AppendedTo

\* Pool q is now t.
Updated(pl, pl2, q, t) ==
    /\ PoolsOK(pl2) /\ PoolGrown(pl, pl2) /\ pl2[q] = t
    /\ \A r \in Pools : r # q => pl2[r] = pl[r]

LEMMA PoolUpdate ==
    \A pl, pl2, q, t :
      /\ PoolsOK(pl) /\ q \in Pools /\ t \in Seq(Items(q)) /\ Extends(pl[q], t)
      /\ pl2 = [pl EXCEPT ![q] = t]
      => Updated(pl, pl2, q, t)
<1> SUFFICES ASSUME NEW pl, PoolsOK(pl), NEW q \in Pools, NEW t \in Seq(Items(q)), Extends(pl[q], t),
                    NEW pl2, pl2 = [pl EXCEPT ![q] = t]
             PROVE  Updated(pl, pl2, q, t)
  OBVIOUS
<1>1. pl2[q] = t /\ DOMAIN pl2 = Pools /\ \A r \in Pools : r # q => pl2[r] = pl[r]
  BY DEF PoolsOK
<1>2. PoolsOK(pl2)
  BY <1>1 DEF PoolsOK
<1>3. \A r \in Pools : Extends(pl[r], pl2[r])
  <2> TAKE r \in Pools
  <2>1. Len(pl[r]) \in Nat
    BY DEF PoolsOK
  <2> QED
    BY <1>1, <2>1 DEF Extends
<1> QED
  BY <1>1, <1>2, <1>3 DEF PoolGrown, Updated

LEMMA GrownTwice ==
    ASSUME NEW a, NEW b, NEW c, PoolsOK(a), PoolsOK(b), PoolsOK(c), PoolGrown(a, b), PoolGrown(b, c)
    PROVE  PoolGrown(a, c)
<1> SUFFICES ASSUME NEW q \in Pools PROVE Extends(a[q], c[q])
  BY DEF PoolGrown
<1>1. Extends(a[q], b[q]) /\ Extends(b[q], c[q])
  BY DEF PoolGrown
<1>2. Len(a[q]) \in Nat /\ Len(b[q]) \in Nat /\ Len(c[q]) \in Nat
  BY DEF PoolsOK
<1> QED
  BY <1>1, <1>2 DEF Extends

LEMMA NotGrown ==
    ASSUME NEW a, PoolsOK(a)
    PROVE  PoolGrown(a, a)
<1>1. \A q \in Pools : Len(a[q]) \in Nat
  BY DEF PoolsOK
<1> QED
  BY <1>1 DEF PoolGrown, Extends

\* The binding tables after a step of op with data and indices got.
BindingEffect(s, got, row, ix, pl, pl2) ==
    /\ s.op # "range" => pl2["bindingRange"] = pl["bindingRange"]
    /\ s.op # "set" => /\ pl2["descriptorSet"] = pl["descriptorSet"]
                       /\ pl2["descriptorRange"] = pl["descriptorRange"]
    /\ s.op # "sub" => pl2["subObjectRange"] = pl["subObjectRange"]
    /\ s.op = "mark" =>
         /\ row["ranges"].off = Len(pl["bindingRange"])
         /\ row["sets"].off = Len(pl["descriptorSet"])
         /\ row["subs"].off = Len(pl["subObjectRange"])
    /\ s.op = "range" =>
         LET b == pl2["bindingRange"][Len(pl["bindingRange"]) + 1]
         IN  /\ Len(pl2["bindingRange"]) = Len(pl["bindingRange"]) + 1
             /\ b.type = s.data.type /\ NamesIn(ix, b.var, s.data.var)
             /\ b.leaf = Invalid \/ NamesIn(ix, b.leaf, s.data.leaf)
    /\ s.op = "set" =>
         LET b == pl2["descriptorSet"][Len(pl["descriptorSet"]) + 1]
         IN  /\ Len(pl2["descriptorSet"]) = Len(pl["descriptorSet"]) + 1
             /\ b.count = Len(s.data) /\ b.off + b.count <= Len(pl2["descriptorRange"])
             /\ \A i \in 1 .. Len(s.data) : pl2["descriptorRange"][b.off + i] = s.data[i]
    /\ s.op = "sub" =>
         LET b == pl2["subObjectRange"][Len(pl["subObjectRange"]) + 1]
         IN  /\ Len(pl2["subObjectRange"]) = Len(pl["subObjectRange"]) + 1
             /\ b.range = s.data.range /\ NamesIn(ix, b.offset, s.data.offset)

\* Frame f has done its step: row is its row, pl2 are the pools.
Effect(p, f, row, ix, pl, pl2) ==
    /\ row \in Records
    /\ StepDone(p, f.obj, f.step, row, ix, pl2)
    /\ \A g \in DOMAIN f.row : g \notin Assigns(StepOf(p, f)) => g \in DOMAIN row /\ row[g] = f.row[g]
    /\ PoolsOK(pl2) /\ PoolGrown(pl, pl2)
    /\ BindingEffect(StepOf(p, f), f.got, row, ix, pl, pl2)

\* Frame f is about to do a step of op.
Ready(p, f, ix, pl, op) ==
    /\ p \in Programs /\ f \in Frames(p) /\ Busy(p, f)
    /\ StepOK(p, p[f.obj], StepOf(p, f)) /\ StepOf(p, f).op = op
    /\ op # "attrs" => Len(f.got) = Len(StepOf(p, f).to)
    /\ GotOK(p, f, ix) /\ PoolsOK(pl)

LEMMA ReadyFacts ==
    ASSUME NEW p, NEW f, NEW ix, NEW pl, NEW op, Ready(p, f, ix, pl, op)
    PROVE  LET s == StepOf(p, f)
           IN  /\ f.got \in Seq(Nat) /\ f.row \in Records /\ s.field \in FieldNames
               /\ f.obj \in DOMAIN p /\ s = Script(p, f.obj)[f.step]
               /\ op \notin {"attrs", "add"} =>
                    \A k \in 1 .. Len(s.to) : NamesIn(ix, f.got[k], s.to[k])
               /\ op \in {"ref", "range", "sub"} => Len(s.to) = 1 /\ Len(f.got) = 1 /\ f.got[1] \in Nat
<1> DEFINE s == StepOf(p, f)
<1>1. f.got \in Seq(Nat) /\ f.row \in Records /\ f.obj \in DOMAIN p
  BY DEF Ready, Frames
<1>2. s.field \in FieldNames /\ s = Script(p, f.obj)[f.step] /\ s.op = op
  BY DEF Ready, StepOK, StepOf
<1>3. ASSUME op \notin {"attrs", "add"}, NEW k \in 1 .. Len(s.to)
      PROVE  NamesIn(ix, f.got[k], s.to[k])
  <2>1. s.to \in Seq(Indexed(p) \cup {Nil})
    BY <1>2, <1>3 DEF Ready, StepOK
  <2>2. s.to[k] \in Indexed(p) \cup {Nil}
    BY <2>1
  <2>3. Len(f.got) = Len(s.to) /\ Busy(p, f) /\ GotOK(p, f, ix) /\ s.op # "attrs"
    BY <1>2, <1>3 DEF Ready
  <2> QED
    BY <2>2, <2>3 DEF GotOK
<1>4. op \in {"ref", "range", "sub"} => Len(s.to) = 1 /\ Len(f.got) = 1 /\ f.got[1] \in Nat
  <2> SUFFICES ASSUME op \in {"ref", "range", "sub"} PROVE Len(s.to) = 1 /\ Len(f.got) = 1 /\ f.got[1] \in Nat
    OBVIOUS
  <2>1. Len(s.to) = 1 /\ Len(f.got) = 1
    BY DEF Ready, StepOK
  <2> QED
    BY <2>1, <1>1
<1> QED
  BY <1>1, <1>2, <1>3, <1>4

\* A step that leaves the pools alone and assigns nothing.
LEMMA AddEffect ==
    ASSUME NEW p, NEW f, NEW ix, NEW pl, Ready(p, f, ix, pl, "add")
    PROVE  Effect(p, f, f.row, ix, pl, pl)
<1>1. f.row \in Records /\ PoolsOK(pl) /\ StepOf(p, f).op = "add"
  BY ReadyFacts DEF Ready
<1>2. StepDone(p, f.obj, f.step, f.row, ix, pl)
  BY <1>1 DEF StepDone, StepOf
<1>3. BindingEffect(StepOf(p, f), f.got, f.row, ix, pl, pl)
  BY <1>1 DEF BindingEffect
<1> QED
  BY <1>1, <1>2, <1>3, NotGrown DEF Effect

\* A step that assigns v to its field and leaves the binding tables alone.
LEMMA AssignEffect ==
    ASSUME NEW p, NEW f, NEW ix, NEW pl, NEW op, Ready(p, f, ix, pl, op),
           op \in {"ref", "list", "name", "mods", "attrs"},
           NEW pl2, PoolsOK(pl2), PoolGrown(pl, pl2),
           pl2["bindingRange"] = pl["bindingRange"], pl2["descriptorSet"] = pl["descriptorSet"],
           pl2["descriptorRange"] = pl["descriptorRange"], pl2["subObjectRange"] = pl["subObjectRange"],
           NEW v \in Values, NEW row, row = With(f.row, StepOf(p, f).field, v),
           row[StepOf(p, f).field] = v /\ StepOf(p, f).field \in DOMAIN row =>
             StepDone(p, f.obj, f.step, row, ix, pl2)
    PROVE  Effect(p, f, row, ix, pl, pl2)
<1> DEFINE s == StepOf(p, f)
<1>1. f.row \in Records /\ s.op = op /\ s.field \in FieldNames
  BY ReadyFacts DEF Ready
<1>2. Assigned(f.row, row, s.field, v)
  BY WithFacts
<1>3. row \in Records
  BY <1>1, WithRecord
<1> HIDE DEF s
<1>4. StepDone(p, f.obj, f.step, row, ix, pl2)
  BY <1>2 DEF Assigned, s
<1>5. BindingEffect(s, f.got, row, ix, pl, pl2)
  BY <1>1 DEF BindingEffect
<1>6. \A g \in DOMAIN f.row : g \notin Assigns(s) => g \in DOMAIN row /\ row[g] = f.row[g]
  BY <1>1, <1>2 DEF Assigns, Assigned
<1> QED
  BY <1>3, <1>4, <1>5, <1>6 DEF Effect, s

LEMMA RefEffect ==
    ASSUME NEW p, NEW f, NEW ix, NEW pl, Ready(p, f, ix, pl, "ref"),
           NEW row, row = With(f.row, StepOf(p, f).field, f.got[1])
    PROVE  Effect(p, f, row, ix, pl, pl)
<1> DEFINE s == StepOf(p, f)
<1>1. /\ PoolsOK(pl) /\ s.op = "ref" /\ f.got[1] \in Values
      /\ NamesIn(ix, f.got[1], s.to[1]) /\ s = Script(p, f.obj)[f.step]
  BY SMTT(60), ReadyFacts DEF Ready, Values
<1>2. ASSUME row[s.field] = f.got[1], s.field \in DOMAIN row
      PROVE  StepDone(p, f.obj, f.step, row, ix, pl)
  <2> HIDE DEF s
  <2> QED
    BY <1>1, <1>2 DEF StepDone
<1> QED
  BY <1>1, <1>2, NotGrown, AssignEffect

\* An interned string, and its position.
LEMMA StringFacts ==
    ASSUME NEW ss \in Seq(Text), NEW s \in Text \cup {Nil}, NEW t, t = Strings(ss, s)
    PROVE  /\ t \in Seq(Text) /\ Extends(ss, t) /\ Position(t, s) \in Nat
           /\ s = Nil => Position(t, s) = Invalid
           /\ s # Nil => Position(t, s) < Len(t) /\ t[Position(t, s) + 1] = s
<1>1. Invalid \in Nat /\ Nil \notin Text
  BY ReflectionAssumption
<1>2. t \in Seq(Text) /\ Extends(ss, t)
  <2>1. CASE t = ss
    BY <2>1 DEF Extends
  <2>2. CASE t # ss
    <3>1. s \in Text /\ t = Append(ss, s)
      BY <2>2 DEF Strings
    <3>2. AppendedTo(Text, ss, s, t)
      BY <3>1, ExtendedByOne
    <3> QED
      BY <3>2 DEF AppendedTo
  <2> QED
    BY <2>1, <2>2
<1>3. CASE s = Nil
  BY <1>1, <1>2, <1>3 DEF Position
<1>4. CASE s # Nil
  <2>1. \E k \in DOMAIN t : t[k] = s
    <3>1. CASE t = ss
      BY <3>1, <1>4 DEF Strings
    <3>2. CASE t # ss
      <4>1. s \in Text /\ t = Append(ss, s)
        BY <3>2 DEF Strings
      <4>2. Len(ss) + 1 \in DOMAIN t /\ t[Len(ss) + 1] = s
        BY <4>1
      <4> QED
        BY <4>2
    <3> QED
      BY <3>1, <3>2
  <2> DEFINE k == CHOOSE j \in DOMAIN t : t[j] = s
  <2>2. k \in DOMAIN t /\ t[k] = s
    BY <2>1
  <2>3. Position(t, s) = k - 1
    BY <1>4 DEF Position
  <2> HIDE DEF k
  <2>4. k \in 1 .. Len(t) /\ Len(t) \in Nat
    BY <2>2, <1>2
  <2>5. k - 1 \in Nat /\ k - 1 < Len(t) /\ (k - 1) + 1 = k
    BY <2>4
  <2> QED
    BY <1>2, <1>4, <2>2, <2>3, <2>5
<1> QED
  BY <1>3, <1>4

\* The kinds of items in the pools.
LEMMA ItemFacts ==
    /\ "u32" \in Pools /\ "string" \in Pools /\ "modifier" \in Pools /\ "attr" \in Pools
    /\ "attrArg" \in Pools /\ "hashedStr" \in Pools /\ "bindingRange" \in Pools
    /\ "descriptorSet" \in Pools /\ "descriptorRange" \in Pools /\ "subObjectRange" \in Pools
    /\ Items("u32") = Nat /\ Items("modifier") = Nat /\ Items("attrArg") = Nat
    /\ Items("hashedStr") = Nat /\ Items("descriptorRange") = Nat /\ Items("string") = Text
    /\ Items("attr") = [name : Nat, off : Nat, count : Nat]
    /\ Items("bindingRange") = [type : Nat, var : Nat, leaf : Nat]
    /\ Items("descriptorSet") = Slices /\ Items("subObjectRange") = [range : Nat, offset : Nat]
BY DEF Pools, Items

LEMMA NameEffect ==
    ASSUME NEW p, NEW f, NEW ix, NEW pl, Ready(p, f, ix, pl, "name"), NEW pl2, NEW row, NEW t,
           t = Strings(pl["string"], StepOf(p, f).data[1]), pl2 = [pl EXCEPT !["string"] = t],
           row = With(f.row, StepOf(p, f).field, Position(pl2["string"], StepOf(p, f).data[1]))
    PROVE  Effect(p, f, row, ix, pl, pl2)
<1> DEFINE s == StepOf(p, f)
           v == Position(pl2["string"], s.data[1])
<1>1. PoolsOK(pl) /\ s.op = "name" /\ s.data[1] \in Text \cup {Nil} /\ s = Script(p, f.obj)[f.step]
  BY ReadyFacts DEF Ready, StepOK
<1>2. pl["string"] \in Seq(Text) /\ DOMAIN pl = Pools
  BY <1>1, ItemFacts DEF PoolsOK
<1>3. /\ t \in Seq(Text) /\ Extends(pl["string"], t) /\ Position(t, s.data[1]) \in Nat
      /\ s.data[1] = Nil => Position(t, s.data[1]) = Invalid
      /\ s.data[1] # Nil => /\ Position(t, s.data[1]) < Len(t)
                            /\ t[Position(t, s.data[1]) + 1] = s.data[1]
  BY ZenonT(60), <1>1, <1>2, StringFacts
<1>10. "string" \in Pools /\ t \in Seq(Items("string"))
  BY <1>3, ItemFacts
<1>4. pl2 = [pl EXCEPT !["string"] = t]
  OBVIOUS
<1>5. /\ PoolsOK(pl2) /\ PoolGrown(pl, pl2) /\ pl2["string"] = t
      /\ \A r \in Pools : r # "string" => pl2[r] = pl[r]
  <2>1. Updated(pl, pl2, "string", t)
    BY <1>1, <1>3, <1>4, <1>10, PoolUpdate
  <2> QED
    BY <2>1 DEF Updated
<1>11. v = Position(t, s.data[1])
  BY <1>5
<1>6. v \in Values
  BY <1>3, <1>11 DEF Values
<1>7. row = With(f.row, s.field, v)
  BY SMTT(60)
<1> HIDE DEF v
<1>8. ASSUME row[s.field] = v, s.field \in DOMAIN row
      PROVE  StepDone(p, f.obj, f.step, row, ix, pl2)
  <2> HIDE DEF s
  <2> QED
    BY <1>1, <1>3, <1>5, <1>8, <1>11 DEF StepDone
<1>9. /\ pl2["bindingRange"] = pl["bindingRange"] /\ pl2["descriptorSet"] = pl["descriptorSet"]
      /\ pl2["descriptorRange"] = pl["descriptorRange"] /\ pl2["subObjectRange"] = pl["subObjectRange"]
  BY <1>5, ItemFacts
<1> QED
  BY <1>5, <1>6, <1>7, <1>8, <1>9, AssignEffect

\* Slice c stands for ws, which starts behind n items.
SliceOf(c, n, ws) == c \in Slices /\ c.count = Len(ws) /\ (c.count > 0 => c.off = n)

LEMMA SliceFacts ==
    ASSUME NEW n \in Nat, NEW ws, Len(ws) \in Nat, NEW c,
           c = IF ws = <<>> THEN [off |-> 0, count |-> 0] ELSE [off |-> n, count |-> Len(ws)]
    PROVE  SliceOf(c, n, ws)
<1>1. CASE ws = <<>>
  BY <1>1, EmptySeqs DEF Slices, SliceOf
<1>2. CASE ws # <<>>
  BY <1>2 DEF Slices, SliceOf
<1> QED
  BY <1>1, <1>2

LEMMA ListEffect ==
    ASSUME NEW p, NEW f, NEW ix, NEW pl, Ready(p, f, ix, pl, "list"), NEW pl2, NEW row,
           NEW ws \in Seq(Nat), Extended(f.got, ws, StepOf(p, f).data),
           NEW t \in Seq(Nat), Extended(pl["u32"], t, ws), Updated(pl, pl2, "u32", t),
           NEW c, SliceOf(c, Len(pl["u32"]), ws), row = With(f.row, StepOf(p, f).field, c)
    PROVE  Effect(p, f, row, ix, pl, pl2)
<1> DEFINE s == StepOf(p, f)
           n == Len(pl["u32"])
<1>1. /\ PoolsOK(pl) /\ s.op = "list" /\ s.data \in Seq(Nat) /\ f.got \in Seq(Nat)
      /\ Len(f.got) = Len(s.to) /\ s = Script(p, f.obj)[f.step]
      /\ \A k \in 1 .. Len(s.to) : NamesIn(ix, f.got[k], s.to[k])
  BY ReadyFacts DEF Ready, StepOK
<1>2. n \in Nat /\ Len(ws) \in Nat /\ Len(s.to) \in Nat /\ Len(s.data) \in Nat
  <2>1. pl["u32"] \in Seq(Nat)
    BY SMTT(60), <1>1, ItemFacts DEF PoolsOK
  <2> QED
    BY SMTT(60), <1>1, <2>1
<1>3. /\ pl2["u32"] = t /\ Len(t) = n + Len(ws) /\ Len(ws) = Len(s.to) + Len(s.data)
      /\ \A k \in 1 .. Len(ws) : t[n + k] = ws[k]
      /\ \A k \in 1 .. Len(s.to) : ws[k] = f.got[k]
      /\ \A k \in 1 .. Len(s.data) : ws[Len(s.to) + k] = s.data[k]
  BY <1>1 DEF Extended, Extends, Updated
<1>4. c \in Slices /\ c.count = Len(ws) /\ (c.count > 0 => c.off = n)
  BY DEF SliceOf
<1>13. Len(pl2["u32"]) = n + Len(ws) /\ Len(ws) = Len(s.to) + Len(s.data)
  BY <1>3
<1> HIDE DEF s, n
<1> DEFINE m == Len(ws)
           i == Len(s.to)
           j == Len(s.data)
<1>14. n \in Nat /\ m \in Nat /\ i \in Nat /\ j \in Nat /\ m = i + j
  BY <1>2, <1>13
<1>15. Len(pl2["u32"]) = n + m /\ c.count = m
  BY <1>4, <1>13
<1> HIDE DEF m, i, j
<1>5. \A k \in 1 .. i : k \in 1 .. m /\ m > 0
  BY <1>14
<1>6. \A k \in 1 .. j : i + k \in 1 .. m /\ m > 0 /\ n + i + k = n + (i + k)
  BY <1>14
<1>7. c.count > 0 => c.off + c.count <= Len(pl2["u32"])
  BY SMTT(60), <1>14, <1>15, <1>4
<1>8. \A k \in 1 .. Len(s.to) : NamesIn(ix, pl2["u32"][c.off + k], s.to[k])
  <2> TAKE k \in 1 .. Len(s.to)
  <2>1. c.off = n /\ t[n + k] = f.got[k]
    BY <1>3, <1>4, <1>5, <1>15 DEF m, i
  <2> QED
    BY <2>1, <1>1, <1>3
<1>9. \A k \in 1 .. Len(s.data) : pl2["u32"][c.off + Len(s.to) + k] = s.data[k]
  <2> TAKE k \in 1 .. Len(s.data)
  <2>1. c.off = n /\ t[n + Len(s.to) + k] = s.data[k]
    BY <1>3, <1>4, <1>6, <1>15 DEF m, i, j
  <2> QED
    BY <2>1, <1>3
<1>10. ASSUME row[s.field] = c, s.field \in DOMAIN row
       PROVE  StepDone(p, f.obj, f.step, row, ix, pl2)
  BY ZenonT(60), <1>1, <1>3, <1>4, <1>7, <1>8, <1>9, <1>10 DEF StepDone
<1>11. /\ pl2["bindingRange"] = pl["bindingRange"] /\ pl2["descriptorSet"] = pl["descriptorSet"]
       /\ pl2["descriptorRange"] = pl["descriptorRange"] /\ pl2["subObjectRange"] = pl["subObjectRange"]
       /\ PoolsOK(pl2) /\ PoolGrown(pl, pl2)
  BY ItemFacts DEF Updated
<1>12. c \in Values
  BY <1>4 DEF Values
<1> QED
  BY SMTT(60), <1>10, <1>11, <1>12, AssignEffect DEF s

LEMMA ModsEffect ==
    ASSUME NEW p, NEW f, NEW ix, NEW pl, Ready(p, f, ix, pl, "mods"), NEW pl2, NEW row,
           NEW t \in Seq(Nat), Extended(pl["modifier"], t, StepOf(p, f).data),
           Updated(pl, pl2, "modifier", t),
           NEW c, SliceOf(c, Len(pl["modifier"]), StepOf(p, f).data),
           row = With(f.row, StepOf(p, f).field, c)
    PROVE  Effect(p, f, row, ix, pl, pl2)
<1> DEFINE s == StepOf(p, f)
           n == Len(pl["modifier"])
<1>1. /\ PoolsOK(pl) /\ s.op = "mods" /\ s.data \in Seq(Nat) /\ s = Script(p, f.obj)[f.step]
  BY ReadyFacts DEF Ready, StepOK
<1>2. n \in Nat /\ Len(s.data) \in Nat
  <2>1. pl["modifier"] \in Seq(Nat)
    BY SMTT(60), <1>1, ItemFacts DEF PoolsOK
  <2> QED
    BY <1>1, <2>1
<1>3. /\ pl2["modifier"] = t /\ Len(t) = n + Len(s.data)
      /\ \A k \in 1 .. Len(s.data) : t[n + k] = s.data[k]
  BY <1>1 DEF Extended, Extends, Updated
<1>4. c \in Slices /\ c.count = Len(s.data) /\ (c.count > 0 => c.off = n)
  BY DEF SliceOf
<1> HIDE DEF s, n
<1>5. \A k \in 1 .. Len(s.data) : c.off = n
  BY <1>2, <1>4
<1>7. c.count > 0 => c.off + c.count <= Len(pl2["modifier"])
  BY <1>2, <1>3, <1>4
<1>8. \A k \in 1 .. Len(s.data) : pl2["modifier"][c.off + k] = s.data[k]
  BY SMTT(60), <1>3, <1>5
<1>10. ASSUME row[s.field] = c, s.field \in DOMAIN row
       PROVE  StepDone(p, f.obj, f.step, row, ix, pl2)
  BY <1>1, <1>4, <1>7, <1>8, <1>10 DEF StepDone
<1>11. /\ pl2["bindingRange"] = pl["bindingRange"] /\ pl2["descriptorSet"] = pl["descriptorSet"]
       /\ pl2["descriptorRange"] = pl["descriptorRange"] /\ pl2["subObjectRange"] = pl["subObjectRange"]
       /\ PoolsOK(pl2) /\ PoolGrown(pl, pl2)
  BY ItemFacts DEF Updated
<1>12. c \in Values
  BY <1>4 DEF Values
<1> QED
  BY <1>10, <1>11, <1>12, AssignEffect DEF s

LEMMA AttrsEffect ==
    ASSUME NEW p, NEW f, NEW ix, NEW pl, Ready(p, f, ix, pl, "attrs"), NEW row, NEW c,
           Len(f.got) = Len(StepOf(p, f).data),
           c = [off |-> IF f.got = <<>> THEN 0 ELSE f.got[1], count |-> Len(f.got)],
           row = With(f.row, StepOf(p, f).field, c)
    PROVE  Effect(p, f, row, ix, pl, pl)
<1> DEFINE s == StepOf(p, f)
<1>1. PoolsOK(pl) /\ s.op = "attrs" /\ f.got \in Seq(Nat) /\ s = Script(p, f.obj)[f.step]
  BY ReadyFacts DEF Ready
<1>2. c \in Slices /\ c.count = Len(s.data)
  <2>1. f.got # <<>> => f.got[1] \in Nat
    BY <1>1
  <2>2. (IF f.got = <<>> THEN 0 ELSE f.got[1]) \in Nat /\ Len(f.got) \in Nat
    BY SMTT(60), <2>1, <1>1
  <2> QED
    BY <2>2 DEF Slices
<1>3. ASSUME row[s.field] = c, s.field \in DOMAIN row
      PROVE  StepDone(p, f.obj, f.step, row, ix, pl)
  <2> HIDE DEF s
  <2> QED
    BY <1>1, <1>2, <1>3 DEF StepDone
<1>4. c \in Values
  BY <1>2 DEF Values
<1> QED
  BY <1>1, <1>3, <1>4, NotGrown, AssignEffect

LEMMA TypedLayout ==
    ASSUME NEW p \in Programs, NEW o \in DOMAIN p, IsLayout(p, o)
    PROVE  /\ p[o].ranges \in Seq([type : Nat, var : Pointers(p, {"var"}), leaf : Pointers(p, {"typeLayout"})])
           /\ p[o].sets \in Seq(Seq(Nat))
           /\ p[o].subs \in Seq([range : Nat, offset : Pointers(p, {"varLayout"})])
           /\ RangeCount(p[o]) \in Nat /\ SetCount(p[o]) \in Nat /\ SubCount(p[o]) \in Nat
           /\ Script(p, o) = AddTypeLayout(p[o])
           /\ LayoutPositions(p[o], Script(p, o))
<1>1. p[o].kind = "typeLayout" /\ Typed(p, p[o])
  BY ProgramFacts DEF IsLayout
<1>2. /\ p[o].ranges \in Seq([type : Nat, var : Pointers(p, {"var"}), leaf : Pointers(p, {"typeLayout"})])
      /\ p[o].sets \in Seq(Seq(Nat))
      /\ p[o].subs \in Seq([range : Nat, offset : Pointers(p, {"varLayout"})])
  BY <1>1 DEF Typed
<1>3. Script(p, o) = AddTypeLayout(p[o])
  BY <1>1 DEF Script
<1>4. LayoutPositions(p[o], Script(p, o))
  BY <1>1, <1>3, LayoutScript
<1>5. RangeCount(p[o]) \in Nat /\ SetCount(p[o]) \in Nat /\ SubCount(p[o]) \in Nat
  BY <1>4 DEF LayoutPositions
<1> QED
  BY <1>2, <1>3, <1>4, <1>5

LEMMA MarkEffect ==
    ASSUME NEW p, NEW f, NEW ix, NEW pl, Ready(p, f, ix, pl, "mark"), NEW c1, NEW c2, NEW c3, NEW row,
           c1 = [off |-> Len(pl["bindingRange"]), count |-> RangeCount(p[f.obj])],
           c2 = [off |-> Len(pl["descriptorSet"]), count |-> SetCount(p[f.obj])],
           c3 = [off |-> Len(pl["subObjectRange"]), count |-> SubCount(p[f.obj])],
           row = With(With(With(f.row, "ranges", c1), "sets", c2), "subs", c3)
    PROVE  Effect(p, f, row, ix, pl, pl)
<1> DEFINE s == StepOf(p, f)
<1>1. /\ PoolsOK(pl) /\ s.op = "mark" /\ p \in Programs /\ f.obj \in DOMAIN p /\ IsLayout(p, f.obj)
      /\ f.row \in Records /\ s = Script(p, f.obj)[f.step]
  BY ZenonT(60), ReadyFacts DEF Ready, StepOK, IsLayout
<1>2. RangeCount(p[f.obj]) \in Nat /\ SetCount(p[f.obj]) \in Nat /\ SubCount(p[f.obj]) \in Nat
  BY <1>1, TypedLayout
<1>3. \A q \in Pools : Len(pl[q]) \in Nat
  BY <1>1 DEF PoolsOK
<1>4. /\ Len(pl["bindingRange"]) \in Nat /\ Len(pl["descriptorSet"]) \in Nat
      /\ Len(pl["subObjectRange"]) \in Nat
  BY <1>3, ItemFacts
<1>5. /\ c1 \in Slices /\ c1.off = Len(pl["bindingRange"]) /\ c1.count = RangeCount(p[f.obj])
      /\ c2 \in Slices /\ c2.off = Len(pl["descriptorSet"]) /\ c2.count = SetCount(p[f.obj])
      /\ c3 \in Slices /\ c3.off = Len(pl["subObjectRange"]) /\ c3.count = SubCount(p[f.obj])
  BY <1>2, <1>4 DEF Slices
<1> DEFINE r1 == With(f.row, "ranges", c1)
           r2 == With(r1, "sets", c2)
<1>6. row = With(r2, "subs", c3)
  OBVIOUS
<1>7. Assigned(f.row, r1, "ranges", c1) /\ Assigned(r1, r2, "sets", c2) /\ Assigned(r2, row, "subs", c3)
  BY <1>6, WithFacts
<1>8. c1 \in Values /\ c2 \in Values /\ c3 \in Values
  BY <1>5 DEF Values
<1>9. row \in Records
  <2>1. r1 \in Records
    BY <1>1, <1>8, FieldFacts, WithRecord
  <2> HIDE DEF r1
  <2>2. r2 \in Records
    BY <2>1, <1>8, FieldFacts, WithRecord
  <2> HIDE DEF r2
  <2> QED
    BY ZenonT(60), <2>2, <1>6, <1>8, FieldFacts, WithRecord
<1> HIDE DEF r1, r2, s
<1>10. /\ {"ranges", "sets", "subs"} \subseteq DOMAIN row
       /\ row["ranges"] = c1 /\ row["sets"] = c2 /\ row["subs"] = c3
       /\ \A g \in DOMAIN f.row : g \notin {"ranges", "sets", "subs"} => g \in DOMAIN row /\ row[g] = f.row[g]
  BY <1>7 DEF Assigned
<1>11. StepDone(p, f.obj, f.step, row, ix, pl)
  BY ZenonT(60), <1>1, <1>5, <1>10 DEF StepDone
<1>12. BindingEffect(s, f.got, row, ix, pl, pl)
  BY <1>1, <1>5, <1>10 DEF BindingEffect
<1>13. Assigns(s) = {"ranges", "sets", "subs"}
  BY <1>1 DEF Assigns
<1> QED
  BY <1>1, <1>9, <1>10, <1>11, <1>12, <1>13, NotGrown DEF Effect, s

\* A step that only fills one of the binding tables.
LEMMA TableEffect ==
    ASSUME NEW p, NEW f, NEW ix, NEW pl, NEW op \in {"hash", "range", "set", "sub"}, Ready(p, f, ix, pl, op),
           NEW pl2, PoolsOK(pl2), PoolGrown(pl, pl2), BindingEffect(StepOf(p, f), f.got, f.row, ix, pl, pl2)
    PROVE  Effect(p, f, f.row, ix, pl, pl2)
<1>1. f.row \in Records /\ StepOf(p, f).op = op
  BY SMTT(60), ReadyFacts DEF Ready
<1>2. StepDone(p, f.obj, f.step, f.row, ix, pl2)
  BY <1>1 DEF StepDone, StepOf
<1> QED
  BY <1>1, <1>2 DEF Effect

LEMMA RangeEffect ==
    ASSUME NEW p, NEW f, NEW ix, NEW pl, Ready(p, f, ix, pl, "range"), NEW pl2, NEW b, NEW t,
           Nil \notin DOMAIN ix, \A o \in DOMAIN ix : ix[o] \in Nat,
           b = [type |-> StepOf(p, f).data.type, var |-> f.got[1],
                leaf |-> IF StepOf(p, f).data.leaf \in DOMAIN ix THEN ix[StepOf(p, f).data.leaf] ELSE Invalid],
           t = Append(pl["bindingRange"], b), pl2 = [pl EXCEPT !["bindingRange"] = t]
    PROVE  Effect(p, f, f.row, ix, pl, pl2)
<1> DEFINE s == StepOf(p, f)
           l == IF s.data.leaf \in DOMAIN ix THEN ix[s.data.leaf] ELSE Invalid
<1>1. /\ PoolsOK(pl) /\ s.op = "range" /\ s.data.type \in Nat /\ s.to = <<s.data.var>>
      /\ f.got[1] \in Nat /\ Len(s.to) = 1 /\ p \in Programs /\ s.data.leaf \in Pointers(p, {"typeLayout"})
  BY ReadyFacts DEF Ready, StepOK
<1>2. NamesIn(ix, f.got[1], s.to[1])
  <2>1. \A k \in 1 .. Len(s.to) : NamesIn(ix, f.got[k], s.to[k])
    BY SMTT(60), ReadyFacts
  <2> HIDE DEF s
  <2>2. 1 \in 1 .. Len(s.to)
    BY <1>1
  <2> QED
    BY <2>1, <2>2
<1>3. s.to[1] = s.data.var
  BY <1>1
<1>4. l \in Nat /\ (l = Invalid \/ NamesIn(ix, l, s.data.leaf))
  <2>1. CASE s.data.leaf \in DOMAIN ix
    <3>1. CASE s.data.leaf = Nil
      BY <2>1, <3>1
    <3>2. CASE s.data.leaf # Nil
      BY <2>1, <3>2 DEF NamesIn
    <3> QED
      BY <3>1, <3>2
  <2>2. CASE s.data.leaf \notin DOMAIN ix
    BY <2>2, ReflectionAssumption
  <2> QED
    BY <2>1, <2>2
<1>5. b = [type |-> s.data.type, var |-> f.got[1], leaf |-> l]
  OBVIOUS
<1> HIDE DEF s, l
<1>6. b \in [type : Nat, var : Nat, leaf : Nat] /\ b.type = s.data.type /\ b.var = f.got[1] /\ b.leaf = l
  BY <1>1, <1>4, <1>5
<1>7. pl["bindingRange"] \in Seq(Items("bindingRange")) /\ b \in Items("bindingRange") /\ "bindingRange" \in Pools
  BY <1>1, <1>6, ItemFacts DEF PoolsOK
<1>8. /\ t \in Seq(Items("bindingRange")) /\ Extends(pl["bindingRange"], t) /\ Len(pl["bindingRange"]) \in Nat
      /\ Len(t) = Len(pl["bindingRange"]) + 1 /\ t[Len(pl["bindingRange"]) + 1] = b
  <2>1. AppendedTo(Items("bindingRange"), pl["bindingRange"], b, t)
    BY <1>7, ExtendedByOne
  <2> QED
    BY <2>1 DEF AppendedTo
<1>9. Updated(pl, pl2, "bindingRange", t)
  BY <1>1, <1>7, <1>8, PoolUpdate
<1>10. BindingEffect(s, f.got, f.row, ix, pl, pl2)
  <2>1. pl2["bindingRange"] = t /\ pl2["descriptorSet"] = pl["descriptorSet"]
        /\ pl2["descriptorRange"] = pl["descriptorRange"] /\ pl2["subObjectRange"] = pl["subObjectRange"]
    BY <1>9, ItemFacts DEF Updated
  <2> QED
    BY <2>1, <1>1, <1>2, <1>3, <1>4, <1>6, <1>8 DEF BindingEffect
<1> QED
  BY <1>9, <1>10, TableEffect DEF Updated, s

LEMMA SetEffect ==
    ASSUME NEW p, NEW f, NEW ix, NEW pl, Ready(p, f, ix, pl, "set"), NEW pl1, NEW pl2, NEW b, NEW t, NEW t2,
           b = [off |-> Len(pl["descriptorRange"]), count |-> Len(StepOf(p, f).data)],
           t = Append(pl["descriptorSet"], b), pl1 = [pl EXCEPT !["descriptorSet"] = t],
           t2 = pl["descriptorRange"] \o StepOf(p, f).data, pl2 = [pl1 EXCEPT !["descriptorRange"] = t2]
    PROVE  Effect(p, f, f.row, ix, pl, pl2)
<1> DEFINE s == StepOf(p, f)
           n == Len(pl["descriptorRange"])
<1>1. PoolsOK(pl) /\ s.op = "set" /\ s.data \in Seq(Nat)
  BY ReadyFacts DEF Ready, StepOK
<1>2. /\ pl["descriptorSet"] \in Seq(Items("descriptorSet")) /\ pl["descriptorRange"] \in Seq(Items("descriptorRange"))
      /\ s.data \in Seq(Items("descriptorRange")) /\ "descriptorSet" \in Pools /\ "descriptorRange" \in Pools
  BY <1>1, ItemFacts DEF PoolsOK
<1>3. n \in Nat /\ Len(s.data) \in Nat
  BY <1>2
<1>4. b \in Items("descriptorSet") /\ b.off = n /\ b.count = Len(s.data)
  BY <1>3, ItemFacts DEF Slices
<1>5. /\ t \in Seq(Items("descriptorSet")) /\ Extends(pl["descriptorSet"], t)
      /\ Len(t) = Len(pl["descriptorSet"]) + 1 /\ t[Len(pl["descriptorSet"]) + 1] = b
  <2>1. AppendedTo(Items("descriptorSet"), pl["descriptorSet"], b, t)
    BY <1>2, <1>4, ExtendedByOne
  <2> QED
    BY <2>1 DEF AppendedTo
<1>6. Updated(pl, pl1, "descriptorSet", t)
  BY <1>1, <1>2, <1>5, PoolUpdate
<1>7. t2 \in Seq(Items("descriptorRange")) /\ Extended(pl["descriptorRange"], t2, s.data)
  BY <1>2, ExtendedBy
<1>8. PoolsOK(pl1) /\ pl1["descriptorRange"] = pl["descriptorRange"] /\ Extends(pl1["descriptorRange"], t2)
  BY <1>6, <1>7, <1>2 DEF Updated, Extended
<1>9. Updated(pl1, pl2, "descriptorRange", t2)
  BY <1>2, <1>7, <1>8, PoolUpdate
<1>10. PoolsOK(pl2) /\ PoolGrown(pl, pl2)
  BY <1>1, <1>6, <1>9, GrownTwice DEF Updated
<1>11. /\ pl2["descriptorSet"] = t /\ pl2["descriptorRange"] = t2 /\ pl2["bindingRange"] = pl["bindingRange"]
       /\ pl2["subObjectRange"] = pl["subObjectRange"]
  BY <1>6, <1>9, ItemFacts DEF Updated
<1>12. Len(t2) = n + Len(s.data) /\ \A i \in 1 .. Len(s.data) : t2[n + i] = s.data[i]
  BY <1>7 DEF Extended
<1> HIDE DEF s, n
<1>13. n + Len(s.data) <= Len(t2)
  BY <1>3, <1>12
<1>14. BindingEffect(s, f.got, f.row, ix, pl, pl2)
  BY ZenonT(60), <1>1, <1>4, <1>5, <1>11, <1>12, <1>13 DEF BindingEffect
<1> QED
  BY <1>10, <1>14, TableEffect DEF s

LEMMA SubEffect ==
    ASSUME NEW p, NEW f, NEW ix, NEW pl, Ready(p, f, ix, pl, "sub"), NEW pl2, NEW b, NEW t,
           b = [range |-> StepOf(p, f).data.range, offset |-> f.got[1]],
           t = Append(pl["subObjectRange"], b), pl2 = [pl EXCEPT !["subObjectRange"] = t]
    PROVE  Effect(p, f, f.row, ix, pl, pl2)
<1> DEFINE s == StepOf(p, f)
<1>1. /\ PoolsOK(pl) /\ s.op = "sub" /\ s.data.range \in Nat /\ s.to = <<s.data.offset>>
      /\ f.got[1] \in Nat /\ Len(s.to) = 1
  BY ReadyFacts DEF Ready, StepOK
<1>2. NamesIn(ix, f.got[1], s.to[1])
  <2>1. \A k \in 1 .. Len(s.to) : NamesIn(ix, f.got[k], s.to[k])
    BY ReadyFacts
  <2> HIDE DEF s
  <2>2. 1 \in 1 .. Len(s.to)
    BY <1>1
  <2> QED
    BY <2>1, <2>2
<1>3. s.to[1] = s.data.offset
  BY <1>1
<1> HIDE DEF s
<1>6. b \in [range : Nat, offset : Nat] /\ b.range = s.data.range /\ b.offset = f.got[1]
  BY <1>1 DEF s
<1>7. pl["subObjectRange"] \in Seq(Items("subObjectRange")) /\ b \in Items("subObjectRange") /\ "subObjectRange" \in Pools
  BY <1>1, <1>6, ItemFacts DEF PoolsOK
<1>8. /\ t \in Seq(Items("subObjectRange")) /\ Extends(pl["subObjectRange"], t)
      /\ Len(t) = Len(pl["subObjectRange"]) + 1 /\ t[Len(pl["subObjectRange"]) + 1] = b
  <2>1. AppendedTo(Items("subObjectRange"), pl["subObjectRange"], b, t)
    BY <1>7, ExtendedByOne
  <2> QED
    BY <2>1 DEF AppendedTo
<1>9. Updated(pl, pl2, "subObjectRange", t)
  BY <1>1, <1>7, <1>8, PoolUpdate
<1>10. BindingEffect(s, f.got, f.row, ix, pl, pl2)
  <2>1. pl2["subObjectRange"] = t /\ pl2["descriptorSet"] = pl["descriptorSet"]
        /\ pl2["descriptorRange"] = pl["descriptorRange"] /\ pl2["bindingRange"] = pl["bindingRange"]
    BY <1>9, ItemFacts DEF Updated
  <2> QED
    BY <2>1, <1>1, <1>2, <1>3, <1>6, <1>8 DEF BindingEffect
<1> QED
  BY <1>9, <1>10, TableEffect DEF Updated, s

LEMMA HashEffect ==
    ASSUME NEW p, NEW f, NEW ix, NEW pl, Ready(p, f, ix, pl, "hash"), NEW pl1, NEW pl2, NEW t, NEW t2,
           t = Strings(pl["string"], StepOf(p, f).data[1]), pl1 = [pl EXCEPT !["string"] = t],
           t2 = Append(pl["hashedStr"], Position(t, StepOf(p, f).data[1])),
           pl2 = [pl1 EXCEPT !["hashedStr"] = t2]
    PROVE  Effect(p, f, f.row, ix, pl, pl2)
<1> DEFINE s == StepOf(p, f)
           v == Position(t, StepOf(p, f).data[1])
<1>1. PoolsOK(pl) /\ s.op = "hash" /\ s.data[1] \in Text \cup {Nil}
  BY ReadyFacts DEF Ready, StepOK
<1>2. pl["string"] \in Seq(Text) /\ pl["hashedStr"] \in Seq(Nat)
  BY <1>1, ItemFacts DEF PoolsOK
<1>3. t \in Seq(Text) /\ Extends(pl["string"], t) /\ v \in Nat
  BY <1>1, <1>2, StringFacts
<1>4. t2 = Append(pl["hashedStr"], v)
  OBVIOUS
<1> HIDE DEF v
<1>5. t2 \in Seq(Nat) /\ Extends(pl["hashedStr"], t2)
  <2>1. AppendedTo(Nat, pl["hashedStr"], v, t2)
    BY <1>2, <1>3, <1>4, ExtendedByOne
  <2> QED
    BY <2>1 DEF AppendedTo
<1>6. /\ "string" \in Pools /\ "hashedStr" \in Pools /\ t \in Seq(Items("string"))
      /\ t2 \in Seq(Items("hashedStr"))
  BY <1>3, <1>5, ItemFacts
<1>7. Updated(pl, pl1, "string", t)
  BY <1>1, <1>3, <1>6, PoolUpdate
<1>8. PoolsOK(pl1) /\ pl1["hashedStr"] = pl["hashedStr"] /\ Extends(pl1["hashedStr"], t2)
  BY <1>5, <1>6, <1>7 DEF Updated
<1>9. Updated(pl1, pl2, "hashedStr", t2)
  BY <1>6, <1>8, PoolUpdate
<1>10. PoolsOK(pl2) /\ PoolGrown(pl, pl2)
  BY <1>1, <1>7, <1>9, GrownTwice DEF Updated
<1>11. /\ pl2["descriptorSet"] = pl["descriptorSet"] /\ pl2["descriptorRange"] = pl["descriptorRange"]
       /\ pl2["bindingRange"] = pl["bindingRange"] /\ pl2["subObjectRange"] = pl["subObjectRange"]
  BY <1>7, <1>9, ItemFacts DEF Updated
<1>12. BindingEffect(s, f.got, f.row, ix, pl, pl2)
  BY <1>1, <1>11 DEF BindingEffect
<1> QED
  BY <1>10, <1>12, TableEffect DEF s


-----------------------------------------------------------------------------
(* The actions, as operations on the stack with an effect.                 *)

\* The running addX has done a step.
Taken(p, st, st2, ix, pl, pl2) ==
    \E row \in Records :
      /\ st # <<>> /\ Busy(p, st[Len(st)])
      /\ StepOf(p, st[Len(st)]).op # "attrs" => Len(st[Len(st)].got) = Len(StepOf(p, st[Len(st)]).to)
      /\ StackOK(p, st2) /\ st2 # <<>> /\ Advanced(st, st2, row)
      /\ Effect(p, st[Len(st)], row, ix, pl, pl2)

Same == UNCHANGED <<prog, index, table, file>>

LEMMA AtStepFacts ==
    ASSUME Shape, Progress, NEW op, AtStep(op)
    PROVE  /\ stack # <<>> /\ Busy(prog, Top) /\ Now = StepOf(prog, Top) /\ Top = stack[Len(stack)]
           /\ Ready(prog, Top, index, pool, op) /\ prog \in Programs
<1> DEFINE f == stack[Len(stack)]
<1>1. prog \in Programs /\ StackOK(prog, stack) /\ PoolsOK(pool) /\ FramesDone(prog, stack, index, pool)
  BY DEF Shape, Progress
<1>2. stack # <<>> /\ Top = f
  BY DEF AtStep, Running, Top
<1>3. /\ Len(stack) \in 1 .. Len(stack) /\ f \in Frames(prog) /\ f.obj \in DOMAIN prog
      /\ f.step \in Nat \ {0} /\ Len(f.got) \in Nat /\ StepsOK(prog, prog[f.obj], Script(prog, f.obj))
      /\ Busy(prog, f) => StepOK(prog, prog[f.obj], StepOf(prog, f))
  BY <1>1, <1>2, StackFacts
<1>4. FrameOK(prog, f) /\ GotOK(prog, f, index)
  BY <1>1, <1>3 DEF StackOK, FramesDone, FrameDone
<1>5. f.step \in DOMAIN Script(prog, f.obj) /\ Now = StepOf(prog, f) /\ Now.op = op
      /\ Len(f.got) >= Len(Now.to)
  BY <1>2 DEF AtStep, Now, Steps, StepOf
<1> HIDE DEF f
<1>6. Busy(prog, f)
  BY <1>3, <1>5 DEF Busy, StepsOK
<1>7. op # "attrs" => Len(f.got) <= Len(StepOf(prog, f).to)
  BY <1>4, <1>5, <1>6 DEF FrameOK
<1>8. Len(StepOf(prog, f).to) \in Nat
  BY <1>3, <1>6 DEF StepOK
<1>9. op # "attrs" => Len(f.got) = Len(StepOf(prog, f).to)
  BY <1>3, <1>5, <1>7, <1>8
<1>10. Ready(prog, f, index, pool, op)
  BY <1>1, <1>3, <1>4, <1>5, <1>6, <1>9 DEF Ready
<1> QED
  BY <1>1, <1>2, <1>5, <1>6, <1>10 DEF f

LEMMA AdvanceTaken ==
    ASSUME Shape, NEW op, NEW row, stack # <<>>, Ready(prog, Top, index, pool, op), Advance(row),
           Effect(prog, Top, row, index, pool, pool')
    PROVE  Taken(prog, stack, stack', index, pool, pool')
<1>1. prog \in Programs /\ StackOK(prog, stack) /\ row \in Records /\ Busy(prog, Top) /\ Top = stack[Len(stack)]
  BY DEF Shape, Effect, Ready, Top
<1>2. stack' = [stack EXCEPT ![Len(stack)] = [obj |-> stack[Len(stack)].obj, step |-> stack[Len(stack)].step + 1,
                                              got |-> <<>>, row |-> row]]
  BY <1>1 DEF Advance
<1>3. StackOK(prog, stack') /\ Advanced(stack, stack', row) /\ stack' # <<>>
  BY <1>1, <1>2, AdvanceStack
<1>4. StepOf(prog, Top).op # "attrs" => Len(Top.got) = Len(StepOf(prog, Top).to)
  BY DEF Ready
<1> QED
  BY <1>1, <1>3, <1>4 DEF Taken

LEMMA SetRefTaken ==
    ASSUME Shape, Progress, SetRef
    PROVE  Same /\ Taken(prog, stack, stack', index, pool, pool')
<1> DEFINE row == With(Top.row, Now.field, Top.got[1])
<1>1. stack # <<>> /\ Ready(prog, Top, index, pool, "ref") /\ Now = StepOf(prog, Top)
  BY AtStepFacts DEF SetRef
<1>2. Advance(row) /\ pool' = pool /\ Same
  BY DEF SetRef, Same
<1>3. row = With(Top.row, StepOf(prog, Top).field, Top.got[1])
  BY <1>1
<1> HIDE DEF row
<1>4. Effect(prog, Top, row, index, pool, pool')
  BY <1>1, <1>2, <1>3, RefEffect
<1> QED
  BY <1>1, <1>2, <1>4, AdvanceTaken

LEMMA IgnoreTaken ==
    ASSUME Shape, Progress, Ignore
    PROVE  Same /\ Taken(prog, stack, stack', index, pool, pool')
<1>1. stack # <<>> /\ Ready(prog, Top, index, pool, "add")
  BY AtStepFacts DEF Ignore
<1>2. Advance(Top.row) /\ pool' = pool /\ Same
  BY DEF Ignore, Same
<1>3. Effect(prog, Top, Top.row, index, pool, pool')
  BY <1>1, <1>2, AddEffect
<1> QED
  BY <1>1, <1>2, <1>3, AdvanceTaken

LEMMA PushU32ListTaken ==
    ASSUME Shape, Progress, PushU32List
    PROVE  Same /\ Taken(prog, stack, stack', index, pool, pool')
<1> DEFINE ws == Top.got \o Now.data
           t == pool["u32"] \o ws
           c == SliceOrNone("u32", ws)
           row == With(Top.row, Now.field, c)
<1>1. stack # <<>> /\ Ready(prog, Top, index, pool, "list") /\ Now = StepOf(prog, Top)
  BY AtStepFacts DEF PushU32List
<1>2. Advance(row) /\ pool' = [pool EXCEPT !["u32"] = t] /\ Same
  BY DEF PushU32List, Same
<1>3. Top.got \in Seq(Nat) /\ Now.data \in Seq(Nat) /\ PoolsOK(pool)
  BY <1>1, ReadyFacts DEF Ready, StepOK
<1>4. pool["u32"] \in Seq(Nat) /\ Items("u32") = Nat /\ "u32" \in Pools
  BY <1>3, ItemFacts DEF PoolsOK
<1>5. ws \in Seq(Nat) /\ Extended(Top.got, ws, Now.data) /\ Len(ws) \in Nat
  <2>1. ws \in Seq(Nat) /\ Extended(Top.got, ws, Now.data)
    BY <1>3, ExtendedBy
  <2> HIDE DEF ws
  <2> QED
    BY <2>1
<1>6. c = IF ws = <<>> THEN [off |-> 0, count |-> 0] ELSE [off |-> Len(pool["u32"]), count |-> Len(ws)]
  BY DEF SliceOrNone, Slice
<1> HIDE DEF ws
<1>7. t \in Seq(Nat) /\ Extended(pool["u32"], t, ws) /\ Len(pool["u32"]) \in Nat
  BY <1>4, <1>5, ExtendedBy
<1> HIDE DEF t, c
<1>8. Updated(pool, pool', "u32", t)
  BY <1>2, <1>3, <1>4, <1>7, PoolUpdate DEF Extended
<1>9. SliceOf(c, Len(pool["u32"]), ws)
  BY <1>5, <1>6, <1>7, SliceFacts
<1>10. row = With(Top.row, StepOf(prog, Top).field, c)
  BY <1>1
<1> HIDE DEF row
<1>11. Extended(Top.got, ws, StepOf(prog, Top).data)
  BY <1>1, <1>5
<1>12. Effect(prog, Top, row, index, pool, pool')
  BY <1>1, <1>5, <1>7, <1>8, <1>9, <1>10, <1>11, ListEffect
<1> QED
  BY <1>1, <1>2, <1>12, AdvanceTaken

LEMMA InternStrTaken ==
    ASSUME Shape, Progress, InternStr
    PROVE  Same /\ Taken(prog, stack, stack', index, pool, pool')
<1> DEFINE s == StepOf(prog, Top)
           t == Strings(pool["string"], s.data[1])
           row == With(Top.row, s.field, Position(pool'["string"], s.data[1]))
<1>1. stack # <<>> /\ Ready(prog, Top, index, pool, "name") /\ Now = s
  BY AtStepFacts DEF InternStr
<1>2. Advance(row) /\ pool' = [pool EXCEPT !["string"] = t] /\ Same
  BY <1>1 DEF InternStr, Same
<1>3. Effect(prog, Top, row, index, pool, pool')
  BY <1>1, <1>2, NameEffect
<1> QED
  BY <1>1, <1>2, <1>3, AdvanceTaken

LEMMA AddModifiersTaken ==
    ASSUME Shape, Progress, AddModifiers
    PROVE  Same /\ Taken(prog, stack, stack', index, pool, pool')
<1> DEFINE ws == Now.data
           t == pool["modifier"] \o ws
           c == SliceOrNone("modifier", ws)
           row == With(Top.row, Now.field, c)
<1>1. stack # <<>> /\ Ready(prog, Top, index, pool, "mods") /\ Now = StepOf(prog, Top)
  BY AtStepFacts DEF AddModifiers
<1>2. Advance(row) /\ pool' = [pool EXCEPT !["modifier"] = t] /\ Same
  BY DEF AddModifiers, Same
<1>3. Now.data \in Seq(Nat) /\ PoolsOK(pool)
  BY <1>1, ReadyFacts DEF Ready, StepOK
<1>4. pool["modifier"] \in Seq(Nat) /\ Items("modifier") = Nat /\ "modifier" \in Pools
  BY <1>3, ItemFacts DEF PoolsOK
<1>5. ws \in Seq(Nat) /\ Len(ws) \in Nat
  BY <1>3
<1>6. c = IF ws = <<>> THEN [off |-> 0, count |-> 0] ELSE [off |-> Len(pool["modifier"]), count |-> Len(ws)]
  BY DEF SliceOrNone, Slice
<1>7. t \in Seq(Nat) /\ Extended(pool["modifier"], t, ws) /\ Len(pool["modifier"]) \in Nat
  BY <1>4, <1>5, ExtendedBy
<1> HIDE DEF t, c
<1>8. Updated(pool, pool', "modifier", t)
  BY <1>2, <1>3, <1>4, <1>7, PoolUpdate DEF Extended
<1>9. SliceOf(c, Len(pool["modifier"]), ws)
  BY <1>5, <1>6, <1>7, SliceFacts
<1>10. row = With(Top.row, StepOf(prog, Top).field, c) /\ ws = StepOf(prog, Top).data
  BY <1>1
<1> HIDE DEF row, ws
<1>12. Effect(prog, Top, row, index, pool, pool')
  BY <1>1, <1>7, <1>8, <1>9, <1>10, ModsEffect
<1> QED
  BY <1>1, <1>2, <1>12, AdvanceTaken

LEMMA SetAttributesTaken ==
    ASSUME Shape, Progress, SetAttributes
    PROVE  Same /\ Taken(prog, stack, stack', index, pool, pool')
<1> DEFINE c == [off |-> IF Top.got = <<>> THEN 0 ELSE Top.got[1], count |-> Len(Top.got)]
           row == With(Top.row, StepOf(prog, Top).field, c)
<1>1. stack # <<>> /\ Ready(prog, Top, index, pool, "attrs") /\ Now = StepOf(prog, Top)
  BY AtStepFacts DEF SetAttributes
<1>2. Advance(row) /\ pool' = pool /\ Same /\ Len(Top.got) = Len(StepOf(prog, Top).data)
  BY <1>1 DEF SetAttributes, Same
<1>3. Effect(prog, Top, row, index, pool, pool')
  BY <1>1, <1>2, AttrsEffect
<1> QED
  BY <1>1, <1>2, <1>3, AdvanceTaken

LEMMA MarkSlicesTaken ==
    ASSUME Shape, Progress, MarkSlices
    PROVE  Same /\ Taken(prog, stack, stack', index, pool, pool')
<1> DEFINE tl == Now.data
           c1 == [off |-> Len(pool["bindingRange"]), count |-> RangeCount(tl)]
           c2 == [off |-> Len(pool["descriptorSet"]), count |-> SetCount(tl)]
           c3 == [off |-> Len(pool["subObjectRange"]), count |-> SubCount(tl)]
           row == With(With(With(Top.row, "ranges", c1), "sets", c2), "subs", c3)
<1>1. stack # <<>> /\ Ready(prog, Top, index, pool, "mark") /\ Now = StepOf(prog, Top)
  BY AtStepFacts DEF MarkSlices
<1>2. Advance(row) /\ pool' = pool /\ Same
  BY DEF MarkSlices, Same, RangeCount, SetCount, SubCount
<1>3. tl = prog[Top.obj]
  BY <1>1 DEF Ready, StepOK
<1> HIDE DEF tl
<1>4. Effect(prog, Top, row, index, pool, pool')
  BY <1>1, <1>2, <1>3, MarkEffect
<1> QED
  BY <1>1, <1>2, <1>4, AdvanceTaken

LEMMA AddBindingRangeTaken ==
    ASSUME Shape, Progress, AddBindingRange
    PROVE  Same /\ Taken(prog, stack, stack', index, pool, pool')
<1> DEFINE s == StepOf(prog, Top)
           b == [type |-> s.data.type, var |-> Top.got[1],
                 leaf |-> IF s.data.leaf \in DOMAIN index THEN index[s.data.leaf] ELSE Invalid]
           t == Append(pool["bindingRange"], b)
<1>1. stack # <<>> /\ Ready(prog, Top, index, pool, "range") /\ Now = s /\ prog \in Programs
  BY AtStepFacts DEF AddBindingRange
<1>2. Advance(Top.row) /\ pool' = [pool EXCEPT !["bindingRange"] = t] /\ Same
  BY <1>1 DEF AddBindingRange, Same
<1>3. (\A o \in DOMAIN index : index[o] \in Nat) /\ Nil \notin DOMAIN index
  BY <1>1, ProgramFacts DEF Shape, IndexOK, Indexed
<1>4. Effect(prog, Top, Top.row, index, pool, pool')
  BY <1>1, <1>2, <1>3, RangeEffect
<1> QED
  BY <1>1, <1>2, <1>4, AdvanceTaken

LEMMA AddDescriptorSetTaken ==
    ASSUME Shape, Progress, AddDescriptorSet
    PROVE  Same /\ Taken(prog, stack, stack', index, pool, pool')
<1> DEFINE s == StepOf(prog, Top)
           b == [off |-> Len(pool["descriptorRange"]), count |-> Len(s.data)]
           t == Append(pool["descriptorSet"], b)
           t2 == pool["descriptorRange"] \o s.data
           pl1 == [pool EXCEPT !["descriptorSet"] = t]
<1>1. stack # <<>> /\ Ready(prog, Top, index, pool, "set") /\ Now = s
  BY AtStepFacts DEF AddDescriptorSet
<1>2. Advance(Top.row) /\ pool' = [pl1 EXCEPT !["descriptorRange"] = t2] /\ Same
  BY <1>1 DEF AddDescriptorSet, Same, Slice
<1>4. Effect(prog, Top, Top.row, index, pool, pool')
  BY <1>1, <1>2, SetEffect
<1> QED
  BY <1>1, <1>2, <1>4, AdvanceTaken

LEMMA AddSubObjectRangeTaken ==
    ASSUME Shape, Progress, AddSubObjectRange
    PROVE  Same /\ Taken(prog, stack, stack', index, pool, pool')
<1> DEFINE s == StepOf(prog, Top)
           b == [range |-> s.data.range, offset |-> Top.got[1]]
           t == Append(pool["subObjectRange"], b)
<1>1. stack # <<>> /\ Ready(prog, Top, index, pool, "sub") /\ Now = s
  BY AtStepFacts DEF AddSubObjectRange
<1>2. Advance(Top.row) /\ pool' = [pool EXCEPT !["subObjectRange"] = t] /\ Same
  BY <1>1 DEF AddSubObjectRange, Same
<1>4. Effect(prog, Top, Top.row, index, pool, pool')
  BY <1>1, <1>2, SubEffect
<1> QED
  BY <1>1, <1>2, <1>4, AdvanceTaken

LEMMA AddHashedStrTaken ==
    ASSUME Shape, Progress, AddHashedStr
    PROVE  Same /\ Taken(prog, stack, stack', index, pool, pool')
<1> DEFINE s == StepOf(prog, Top)
           t == Strings(pool["string"], s.data[1])
           t2 == Append(pool["hashedStr"], Position(t, s.data[1]))
           pl1 == [pool EXCEPT !["string"] = t]
<1>1. stack # <<>> /\ Ready(prog, Top, index, pool, "hash") /\ Now = s
  BY AtStepFacts DEF AddHashedStr
<1>2. Advance(Top.row) /\ pool' = [pl1 EXCEPT !["hashedStr"] = t2] /\ Same
  BY <1>1 DEF AddHashedStr, Same
<1>4. Effect(prog, Top, Top.row, index, pool, pool')
  BY <1>1, <1>2, HashEffect
<1> QED
  BY <1>1, <1>2, <1>4, AdvanceTaken

\* The running addX has got index i.
Passed(p, st, st2, i, ix, pl, pl2) ==
    /\ st # <<>> /\ Busy(p, st[Len(st)]) /\ i \in Nat
    /\ StepOf(p, st[Len(st)]).op = "attrs" \/ Waits(p, st[Len(st)])
    /\ StackOK(p, st2) /\ st2 # <<>> /\ Given(st, st2, i)
    /\ PoolsOK(pl2) /\ PoolGrown(pl, pl2)
    /\ pl2["bindingRange"] = pl["bindingRange"] /\ pl2["descriptorSet"] = pl["descriptorSet"]
    /\ pl2["descriptorRange"] = pl["descriptorRange"] /\ pl2["subObjectRange"] = pl["subObjectRange"]
    /\ Waits(p, st[Len(st)]) /\ Awaited(p, st[Len(st)]) \in Indexed(p) \cup {Nil} =>
         NamesIn(ix, i, Awaited(p, st[Len(st)]))

LEMMA AddingFacts ==
    ASSUME Shape, Adding
    PROVE  /\ stack # <<>> /\ Top = stack[Len(stack)] /\ Top \in Frames(prog)
           /\ Waits(prog, Top) /\ Target = Awaited(prog, Top) /\ prog \in Programs
           /\ StackOK(prog, stack) /\ Busy(prog, Top) /\ StepOf(prog, Top).op # "attrs"
<1> DEFINE f == stack[Len(stack)]
<1>1. prog \in Programs /\ StackOK(prog, stack)
  BY DEF Shape
<1>2. stack # <<>> /\ Top = f
  BY DEF Adding, Running, Top
<1>3. /\ Len(stack) \in 1 .. Len(stack) /\ f \in Frames(prog)
      /\ f.step \in Nat \ {0} /\ Len(f.got) \in Nat /\ StepsOK(prog, prog[f.obj], Script(prog, f.obj))
      /\ Busy(prog, f) => StepOK(prog, prog[f.obj], StepOf(prog, f))
  BY <1>1, <1>2, StackFacts
<1>4. f.step \in DOMAIN Script(prog, f.obj) /\ Now = StepOf(prog, f) /\ Len(f.got) < Len(Now.to)
      /\ Target = Awaited(prog, f)
  BY <1>2 DEF Adding, Now, Steps, StepOf, Target, Awaited
<1> HIDE DEF f
<1>5. Busy(prog, f)
  BY <1>3, <1>4 DEF Busy, StepsOK
<1>6. Waits(prog, f)
  BY <1>4, <1>5 DEF Waits
<1>7. StepOf(prog, f).op # "attrs"
  BY <1>3, <1>4, <1>5, EmptySeqs DEF StepOK
<1> QED
  BY <1>1, <1>2, <1>3, <1>4, <1>5, <1>6, <1>7 DEF f

LEMMA AddKnownPassed ==
    ASSUME Shape, Progress, AddKnown
    PROVE  Same /\ \E i \in Nat : Passed(prog, stack, stack', i, index, pool, pool')
<1> DEFINE i == IF Target = Nil THEN Invalid ELSE index[Target]
<1>1. /\ stack # <<>> /\ Top = stack[Len(stack)] /\ Waits(prog, Top) /\ Target = Awaited(prog, Top)
      /\ prog \in Programs /\ StackOK(prog, stack) /\ Busy(prog, Top)
  BY AddingFacts DEF AddKnown
<1>2. stack' = Give(stack, i) /\ pool' = pool /\ Same /\ (Target = Nil \/ Target \in DOMAIN index)
  BY DEF AddKnown, Same
<1>3. i \in Nat /\ NamesIn(index, i, Target)
  BY <1>2, ReflectionAssumption DEF NamesIn, Shape, IndexOK
<1> HIDE DEF i
<1>4. StackOK(prog, stack') /\ Given(stack, stack', i) /\ stack' # <<>>
  BY <1>1, <1>2, <1>3, GiveStack
<1>5. PoolsOK(pool') /\ PoolGrown(pool, pool')
  BY <1>2, NotGrown DEF Shape
<1>6. Passed(prog, stack, stack', i, index, pool, pool')
  BY <1>1, <1>2, <1>3, <1>4, <1>5 DEF Passed
<1> QED
  BY <1>2, <1>3, <1>6

\* serializeAttributes, for one attribute.
LEMMA AttributeGrown ==
    ASSUME NEW pl, PoolsOK(pl), NEW a \in Attributes, NEW pl2, pl2 = PoolWithAttr(pl, a)
    PROVE  /\ PoolsOK(pl2) /\ PoolGrown(pl, pl2)
           /\ pl2["bindingRange"] = pl["bindingRange"] /\ pl2["descriptorSet"] = pl["descriptorSet"]
           /\ pl2["descriptorRange"] = pl["descriptorRange"] /\ pl2["subObjectRange"] = pl["subObjectRange"]
<1>1. /\ pl["attr"] \in Seq(Items("attr")) /\ pl["string"] \in Seq(Text) /\ pl["attrArg"] \in Seq(Nat)
      /\ "attr" \in Pools /\ "string" \in Pools /\ "attrArg" \in Pools /\ DOMAIN pl = Pools
  BY ItemFacts DEF PoolsOK
<1>2. CASE a = Nil
  <2> DEFINE b == [name |-> Invalid, off |-> 0, count |-> 0]
             t == Append(pl["attr"], b)
  <2>1. pl2 = [pl EXCEPT !["attr"] = t]
    BY <1>2 DEF PoolWithAttr
  <2>2. b \in Items("attr")
    BY ItemFacts, ReflectionAssumption
  <2>3. AppendedTo(Items("attr"), pl["attr"], b, t)
    BY <1>1, <2>2, ExtendedByOne
  <2>4. Updated(pl, pl2, "attr", t)
    BY <1>1, <2>1, <2>3, PoolUpdate DEF AppendedTo
  <2> QED
    BY <2>4, ItemFacts DEF Updated
<1>3. CASE a # Nil
  <2> DEFINE u == Strings(pl["string"], a.name)
             v == Position(u, a.name)
             w == pl["attrArg"] \o a.args
             b == [name |-> v, off |-> Len(pl["attrArg"]), count |-> Len(a.args)]
             t == Append(pl["attr"], b)
             p1 == [pl EXCEPT !["string"] = u]
             p2 == [p1 EXCEPT !["attrArg"] = w]
  <2>1. a.name \in Text /\ a.args \in Seq(Nat)
    BY <1>3 DEF Attributes
  <2>2. pl2 = [p2 EXCEPT !["attr"] = t]
    BY <1>3 DEF PoolWithAttr
  <2>3. u \in Seq(Text) /\ Extends(pl["string"], u) /\ v \in Nat
    BY <1>1, <2>1, StringFacts
  <2>4. w \in Seq(Nat) /\ Extended(pl["attrArg"], w, a.args) /\ Len(pl["attrArg"]) \in Nat /\ Len(a.args) \in Nat
    BY ZenonT(60), <1>1, <2>1, ExtendedBy
  <2>5. b \in Items("attr")
    BY <2>3, <2>4, ItemFacts
  <2>6. AppendedTo(Items("attr"), pl["attr"], b, t)
    BY <1>1, <2>5, ExtendedByOne
  <2> HIDE DEF u, v, w, b, t
  <2>7. Updated(pl, p1, "string", u)
    BY <1>1, <2>3, PoolUpdate, ItemFacts
  <2>8. p2 = [p1 EXCEPT !["attrArg"] = w]
    OBVIOUS
  <2> HIDE DEF p1
  <2>9. PoolsOK(p1) /\ p1["attrArg"] = pl["attrArg"] /\ p1["attr"] = pl["attr"]
    BY <1>1, <2>7 DEF Updated
  <2>10. Updated(p1, p2, "attrArg", w)
    BY <1>1, <2>4, <2>8, <2>9, PoolUpdate, ItemFacts DEF Extended
  <2> HIDE DEF p2
  <2>11. PoolsOK(p2) /\ p2["attr"] = pl["attr"]
    BY <1>1, <2>9, <2>10 DEF Updated
  <2>12. Updated(p2, pl2, "attr", t)
    BY <1>1, <2>2, <2>6, <2>11, PoolUpdate DEF AppendedTo
  <2>13. PoolGrown(pl, p1) /\ PoolGrown(p1, p2) /\ PoolGrown(p2, pl2) /\ PoolsOK(pl2)
    BY <2>7, <2>10, <2>12 DEF Updated
  <2>14. PoolGrown(pl, p2)
    BY <2>9, <2>11, <2>13, GrownTwice
  <2>15. PoolGrown(pl, pl2)
    BY <2>11, <2>13, <2>14, GrownTwice
  <2>16. \A q \in Pools : q \notin {"string", "attrArg", "attr"} => pl2[q] = pl[q]
    BY <2>7, <2>10, <2>12 DEF Updated
  <2> QED
    BY <2>13, <2>15, <2>16, ItemFacts
<1> QED
  BY <1>2, <1>3

LEMMA AddAttributePassed ==
    ASSUME Shape, Progress, AddAttribute
    PROVE  Same /\ \E i \in Nat : Passed(prog, stack, stack', i, index, pool, pool')
<1> DEFINE i == Len(pool["attr"])
           a == StepOf(prog, Top).data[Len(Top.got) + 1]
<1>1. /\ stack # <<>> /\ Busy(prog, Top) /\ Now = StepOf(prog, Top) /\ Top = stack[Len(stack)]
      /\ Ready(prog, Top, index, pool, "attrs") /\ prog \in Programs
  BY AtStepFacts DEF AddAttribute
<1>2. stack' = Give(stack, i) /\ pool' = PoolWithAttr(pool, a) /\ Same /\ Len(Top.got) < Len(StepOf(prog, Top).data)
  BY <1>1 DEF AddAttribute, Same
<1>3. /\ StepOf(prog, Top).op = "attrs" /\ StepOf(prog, Top).data \in Seq(Attributes)
      /\ StepOf(prog, Top).to = <<>> /\ Top.got \in Seq(Nat) /\ PoolsOK(pool)
  BY ZenonT(60), <1>1, ReadyFacts DEF Ready, StepOK
<1>4. a \in Attributes
  BY <1>2, <1>3
<1>5. i \in Nat
  BY <1>3, ItemFacts DEF PoolsOK
<1> HIDE DEF i, a
<1>6. StackOK(prog, stack') /\ Given(stack, stack', i) /\ stack' # <<>>
  BY <1>1, <1>2, <1>3, <1>5, GiveStack DEF Shape
<1>7. /\ PoolsOK(pool') /\ PoolGrown(pool, pool')
      /\ pool'["bindingRange"] = pool["bindingRange"] /\ pool'["descriptorSet"] = pool["descriptorSet"]
      /\ pool'["descriptorRange"] = pool["descriptorRange"] /\ pool'["subObjectRange"] = pool["subObjectRange"]
  BY ZenonT(60), <1>2, <1>3, <1>4, AttributeGrown
<1>8. ~Waits(prog, Top)
  BY <1>3, EmptySeqs DEF Waits
<1>9. Passed(prog, stack, stack', i, index, pool, pool')
  BY <1>1, <1>3, <1>5, <1>6, <1>7, <1>8 DEF Passed
<1> QED
  BY <1>2, <1>5, <1>9

\* The tables only grow.
TablesGrown(tb, tb2) == \A k \in Kinds : Extends(tb[k], tb2[k])

\* The running addX has called another one, for an object without an index.
Entered(p, st, st2, ix, ix2, tb, tb2) ==
    \E t \in DOMAIN p, row \in Records :
      /\ st # <<>> /\ Waits(p, st[Len(st)]) /\ t = Awaited(p, st[Len(st)])
      /\ t # Nil /\ t \notin DOMAIN ix /\ t # "root"
      /\ StackOK(p, st2) /\ Pushed(st, st2, t, row)
      /\ TablesOK(tb2) /\ TablesGrown(tb, tb2) /\ IndexOK(p, ix2, tb2)
      /\ p[t].kind = "entryPoint" => ix2 = ix
      /\ p[t].kind # "entryPoint" => t \in Indexed(p) /\ Assigned(ix, ix2, t, Len(tb[p[t].kind]))

\* A row for a new object.
LEMMA NewRowTables ==
    ASSUME NEW p \in Programs, NEW ix, NEW tb, IndexOK(p, ix, tb), TablesOK(tb),
           NEW t \in Indexed(p), t \notin DOMAIN ix, NEW k, k = p[t].kind,
           NEW ix2, ix2 = With(ix, t, Len(tb[k])),
           NEW tb2, tb2 = [tb EXCEPT ![k] = Append(tb[k], Blank)]
    PROVE  TablesOK(tb2) /\ TablesGrown(tb, tb2) /\ IndexOK(p, ix2, tb2)
           /\ Assigned(ix, ix2, t, Len(tb[k]))
<1>1. k \in Kinds /\ t \in DOMAIN p
  BY ProgramFacts DEF Indexed
<1>2. \A j \in Kinds : tb[j] \in Seq(Records) /\ Len(tb[j]) \in Nat
  BY DEF TablesOK
<1> DEFINE u == Append(tb[k], Blank)
<1>3. AppendedTo(Records, tb[k], Blank, u)
  BY <1>1, <1>2, BlankRecord, ExtendedByOne
<1>4. tb2 = [tb EXCEPT ![k] = u]
  OBVIOUS
<1> HIDE DEF u
<1>5. DOMAIN tb2 = Kinds /\ tb2[k] = u /\ \A j \in Kinds : j # k => tb2[j] = tb[j]
  BY <1>1, <1>4 DEF TablesOK
<1>6. TablesOK(tb2)
  BY <1>2, <1>3, <1>5 DEF TablesOK, AppendedTo
<1>7. TablesGrown(tb, tb2)
  <2> SUFFICES ASSUME NEW j \in Kinds PROVE Extends(tb[j], tb2[j])
    BY DEF TablesGrown
  <2>1. CASE j = k
    BY <2>1, <1>3, <1>5 DEF AppendedTo
  <2>2. CASE j # k
    BY <2>2, <1>2, <1>5 DEF Extends
  <2> QED
    BY <2>1, <2>2
<1>8. Assigned(ix, ix2, t, Len(tb[k]))
  BY WithFacts
<1> DEFINE n == Len(tb[k])
<1>9. n \in Nat /\ Len(tb2[k]) = n + 1
  BY <1>1, <1>2, <1>3, <1>5 DEF AppendedTo
<1>10. DOMAIN ix2 = DOMAIN ix \cup {t} /\ ix2[t] = n /\ \A o \in DOMAIN ix : ix2[o] = ix[o]
  BY <1>8 DEF Assigned
<1> HIDE DEF n
<1>11. \A o \in DOMAIN ix : /\ ix[o] \in Nat /\ ix[o] < Len(tb2[p[o].kind])
                            /\ p[o].kind = k => ix[o] < n
  <2> TAKE o \in DOMAIN ix
  <2>1. ix[o] \in Nat /\ ix[o] < Len(tb[p[o].kind]) /\ p[o].kind \in Kinds
    BY ProgramFacts DEF IndexOK, Indexed
  <2>2. CASE p[o].kind = k
    BY <2>1, <2>2, <1>9 DEF n
  <2>3. CASE p[o].kind # k
    BY <2>1, <2>3, <1>5
  <2> QED
    BY <2>2, <2>3
<1>12. \A o, m \in DOMAIN ix2 : p[o].kind = p[m].kind /\ ix2[o] = ix2[m] => o = m
  <2> TAKE o, m \in DOMAIN ix2
  <2> HAVE p[o].kind = p[m].kind /\ ix2[o] = ix2[m]
  <2>1. CASE o \in DOMAIN ix /\ m \in DOMAIN ix
    BY <2>1, <1>10 DEF IndexOK
  <2>2. CASE o = t /\ m \in DOMAIN ix
    BY <2>2, <1>9, <1>10, <1>11
  <2>3. CASE m = t /\ o \in DOMAIN ix
    BY <2>3, <1>9, <1>10, <1>11
  <2> QED
    BY <2>1, <2>2, <2>3, <1>10
<1>13. DOMAIN ix2 \subseteq Indexed(p)
  BY <1>10 DEF IndexOK
<1>14. \A o \in DOMAIN ix2 : ix2[o] \in Nat /\ ix2[o] < Len(tb2[p[o].kind])
  BY <1>9, <1>10, <1>11
<1>15. IndexOK(p, ix2, tb2)
  BY <1>12, <1>13, <1>14 DEF IndexOK
<1> QED
  BY <1>6, <1>7, <1>8, <1>15

LEMMA SameTables ==
    ASSUME NEW tb, TablesOK(tb)
    PROVE  TablesGrown(tb, tb)
<1>1. \A k \in Kinds : Len(tb[k]) \in Nat
  BY DEF TablesOK
<1> QED
  BY <1>1 DEF TablesGrown, Extends

LEMMA AddNewEntered ==
    ASSUME Shape, Progress, AddNew
    PROVE  /\ prog' = prog /\ pool' = pool /\ file' = file
           /\ Entered(prog, stack, stack', index, index', table, table')
<1> DEFINE t == Target
           row == NewRow(Target)
<1>1. /\ stack # <<>> /\ Top = stack[Len(stack)] /\ Top \in Frames(prog)
      /\ Waits(prog, Top) /\ t = Awaited(prog, Top) /\ prog \in Programs
      /\ StackOK(prog, stack)
  BY AddingFacts DEF AddNew
<1>2. t # Nil /\ t \notin DOMAIN index /\ prog' = prog /\ pool' = pool /\ file' = file
      /\ stack' = Append(stack, Frame(t, row))
  BY DEF AddNew
<1>3. t \in DOMAIN prog /\ t # "root"
  BY <1>1, <1>2, AwaitedFacts
<1>4. row \in Records
  <2>1. CASE prog[Target].kind = "decl"
    <3> DEFINE v == IF Top.obj \in DOMAIN index THEN index[Top.obj] ELSE Invalid
    <3>1. v \in Values
      BY ReflectionAssumption DEF Values, Shape, IndexOK
    <3>2. row = With(Blank, "parent", v)
      BY <2>1 DEF NewRow
    <3> QED
      BY <3>1, <3>2, BlankRecord, FieldFacts, WithRecord
  <2>2. CASE prog[Target].kind # "decl"
    BY <2>2, BlankRecord DEF NewRow
  <2> QED
    BY <2>1, <2>2
<1>5. IndexOK(prog, index, table) /\ TablesOK(table)
  BY DEF Shape
<1>6. CASE prog[t].kind = "entryPoint"
  <2>1. index' = index /\ table' = table
    BY <1>6 DEF AddNew
  <2> HIDE DEF t, row
  <2>2. StackOK(prog, stack') /\ Pushed(stack, stack', t, row)
    BY <1>1, <1>2, <1>4, PushStack
  <2>3. TablesOK(table') /\ TablesGrown(table, table') /\ IndexOK(prog, index', table')
    BY <2>1, <1>5, SameTables
  <2> QED
    BY <1>1, <1>2, <1>3, <1>4, <1>6, <2>1, <2>2, <2>3 DEF Entered
<1>7. CASE prog[t].kind # "entryPoint"
  <2> DEFINE k == prog[t].kind
  <2>1. /\ index' = With(index, t, Len(table[k]))
        /\ table' = [table EXCEPT ![k] = Append(table[k], Blank)]
    BY <1>7 DEF AddNew
  <2> HIDE DEF t, row
  <2>2. StackOK(prog, stack') /\ Pushed(stack, stack', t, row)
    BY <1>1, <1>2, <1>4, PushStack
  <2>3. t \in Indexed(prog)
    BY SMTT(60), <1>1, <1>3, <1>7, ProgramFacts DEF Indexed
  <2>4. TablesOK(table') /\ TablesGrown(table, table') /\ IndexOK(prog, index', table')
        /\ Assigned(index, index', t, Len(table[prog[t].kind]))
    BY ZenonT(60), <2>1, <2>3, <1>1, <1>2, <1>5, NewRowTables
  <2> QED
    BY <1>1, <1>2, <1>3, <1>4, <1>7, <2>2, <2>3, <2>4 DEF Entered
<1> QED
  BY <1>6, <1>7

\* The rows of other objects than o are the same.
RowsKept(p, ix, tb, tb2, o) ==
    \A m \in DOMAIN ix : m # o => tb2[p[m].kind][ix[m] + 1] = tb[p[m].kind][ix[m] + 1]

\* An addX is done and its caller has index i.
Left(p, st, st2, i, ix, tb, tb2) ==
    LET n == Len(st) - 1
        o == st[Len(st)].obj
    IN  /\ st # <<>> /\ n \in Nat \ {0} /\ ~Busy(p, st[Len(st)]) /\ i \in Nat
        /\ StackOK(p, st2) /\ Len(st2) = n /\ SameBelow(st, st2, n - 1)
        /\ st2[n].obj = st[n].obj /\ st2[n].step = st[n].step /\ st2[n].row = st[n].row
        /\ st2[n].got = Append(st[n].got, i)
        /\ Waits(p, st[n]) /\ o = Awaited(p, st[n])
        /\ TablesOK(tb2) /\ IndexOK(p, ix, tb2)
        /\ RowsKept(p, ix, tb, tb2, o)
        /\ o \in DOMAIN ix => i = ix[o] /\ tb2[p[o].kind][i + 1] = st[Len(st)].row

\* t is s but for e at i.
ReplacedAt(S, s, i, e, t) ==
    t \in Seq(S) /\ Len(t) = Len(s) /\ t[i] = e /\ \A j \in 1 .. Len(s) : j # i => t[j] = s[j]

LEMMA Replaced ==
    \A S, s, i, e, t :
      s \in Seq(S) /\ i \in 1 .. Len(s) /\ e \in S /\ t = [s EXCEPT ![i] = e] => ReplacedAt(S, s, i, e, t)
<1> SUFFICES ASSUME NEW S, NEW s \in Seq(S), NEW i \in 1 .. Len(s), NEW e \in S, NEW t, t = [s EXCEPT ![i] = e]
             PROVE  ReplacedAt(S, s, i, e, t)
  OBVIOUS
<1> QED
  BY DEF ReplacedAt

\* Object o has this row in the tables.
RowStored(p, ix, tb, tb2, o, row) ==
    /\ TablesOK(tb2) /\ IndexOK(p, ix, tb2) /\ RowsKept(p, ix, tb, tb2, o)
    /\ tb2[p[o].kind][ix[o] + 1] = row

LEMMA RowReplaced ==
    \A p, ix, tb, o, row, tb2 :
      /\ p \in Programs /\ IndexOK(p, ix, tb) /\ TablesOK(tb) /\ o \in DOMAIN ix /\ row \in Records
      /\ tb2 = [tb EXCEPT ![p[o].kind] = [tb[p[o].kind] EXCEPT ![ix[o] + 1] = row]]
      => RowStored(p, ix, tb, tb2, o, row)
<1> SUFFICES ASSUME NEW p \in Programs, NEW ix, NEW tb, IndexOK(p, ix, tb), TablesOK(tb),
                    NEW o \in DOMAIN ix, NEW row \in Records, NEW tb2,
                    tb2 = [tb EXCEPT ![p[o].kind] = [tb[p[o].kind] EXCEPT ![ix[o] + 1] = row]]
             PROVE  RowStored(p, ix, tb, tb2, o, row)
  BY ZenonT(60)
<1> DEFINE k == p[o].kind
           i == ix[o] + 1
           u == [tb[k] EXCEPT ![i] = row]
<1>20. tb2 = [tb EXCEPT ![k] = u]
  OBVIOUS
<1> HIDE DEF k
<1>1. k \in Kinds /\ \A m \in DOMAIN ix : p[m].kind \in Kinds
  BY ProgramFacts DEF IndexOK, Indexed, k
<1>2. \A j \in Kinds : tb[j] \in Seq(Records) /\ Len(tb[j]) \in Nat
  BY DEF TablesOK
<1>3. ix[o] \in Nat /\ ix[o] < Len(tb[k])
  BY DEF IndexOK, k
<1>4. i \in 1 .. Len(tb[k])
  BY <1>1, <1>2, <1>3
<1>5. u = [tb[k] EXCEPT ![i] = row]
  OBVIOUS
<1> HIDE DEF i
<1> HIDE DEF u
<1>6. ReplacedAt(Records, tb[k], i, row, u)
  BY <1>1, <1>2, <1>4, <1>5, Replaced
<1>7. DOMAIN tb2 = Kinds /\ tb2[k] = u /\ \A j \in Kinds : j # k => tb2[j] = tb[j]
  BY <1>1, <1>20 DEF TablesOK
<1>8. TablesOK(tb2)
  BY <1>2, <1>6, <1>7 DEF TablesOK, ReplacedAt
<1>9. \A j \in Kinds : Len(tb2[j]) = Len(tb[j])
  BY <1>6, <1>7 DEF ReplacedAt
<1>10. IndexOK(p, ix, tb2)
  BY <1>1, <1>9 DEF IndexOK
<1>11. ASSUME NEW m \in DOMAIN ix, m # o
       PROVE  tb2[p[m].kind][ix[m] + 1] = tb[p[m].kind][ix[m] + 1]
  <2>1. CASE p[m].kind # k
    BY <2>1, <1>1, <1>7
  <2>2. CASE p[m].kind = k
    <3>1. ix[m] \in Nat /\ ix[m] < Len(tb[k]) /\ ix[m] # ix[o]
      BY <1>11, <2>2 DEF IndexOK, k
    <3>2. ix[m] + 1 \in 1 .. Len(tb[k]) /\ ix[m] + 1 # i
      BY <3>1, <1>1, <1>2, <1>3 DEF i
    <3> QED
      BY <2>2, <3>2, <1>6, <1>7 DEF ReplacedAt
  <2> QED
    BY <2>1, <2>2
<1> QED
  BY <1>6, <1>7, <1>8, <1>10, <1>11 DEF i, k, RowsKept, RowStored, ReplacedAt

LEMMA EntryPointStored ==
    ASSUME NEW p \in Programs, NEW ix, NEW tb, IndexOK(p, ix, tb), TablesOK(tb),
           NEW row \in Records, NEW tb2,
           tb2 = [tb EXCEPT !["entryPoint"] = Append(tb["entryPoint"], row)]
    PROVE  /\ TablesOK(tb2) /\ IndexOK(p, ix, tb2)
           /\ \A o : RowsKept(p, ix, tb, tb2, o)
<1> DEFINE u == Append(tb["entryPoint"], row)
<1>1. \A m \in DOMAIN ix : p[m].kind \in Kinds /\ p[m].kind # "entryPoint"
  BY ProgramFacts DEF IndexOK, Indexed
<1>2. \A j \in Kinds : tb[j] \in Seq(Records)
  BY DEF TablesOK
<1>3. "entryPoint" \in Kinds
  BY DEF Kinds
<1>4. u \in Seq(Records)
  BY <1>2, <1>3
<1>5. tb2 = [tb EXCEPT !["entryPoint"] = u]
  OBVIOUS
<1> HIDE DEF u
<1>6. DOMAIN tb2 = Kinds /\ tb2["entryPoint"] = u /\ \A j \in Kinds : j # "entryPoint" => tb2[j] = tb[j]
  BY <1>3, <1>5 DEF TablesOK
<1>7. TablesOK(tb2)
  BY <1>2, <1>4, <1>6 DEF TablesOK
<1> QED
  BY <1>1, <1>6, <1>7 DEF IndexOK, RowsKept

LEMMA ReturnLeft ==
    ASSUME Shape, Progress, Return
    PROVE  /\ prog' = prog /\ pool' = pool /\ file' = file /\ index' = index
           /\ \E i \in Nat : Left(prog, stack, stack', i, index, table, table')
<1> DEFINE f == stack[Len(stack)]
           k == prog[f.obj].kind
           i == IF k = "entryPoint" THEN Len(table[k]) ELSE index[f.obj]
           s1 == SubSeq(stack, 1, Len(stack) - 1)
           n == Len(stack) - 1
<1>1. /\ prog \in Programs /\ StackOK(prog, stack) /\ Registered(prog, stack, index)
      /\ IndexOK(prog, index, table) /\ TablesOK(table)
  BY DEF Shape
<1>2. Top = f /\ Len(stack) > 1 /\ Top.step \notin DOMAIN Steps /\ stack # <<>>
  BY DEF Return, Running, Top
<1>3. /\ Len(stack) \in Nat \ {0} /\ Len(stack) \in 1 .. Len(stack) /\ f.step \in Nat \ {0}
      /\ f.obj \in DOMAIN prog /\ f.row \in Records /\ f.obj # "root"
      /\ StepsOK(prog, prog[f.obj], Script(prog, f.obj))
  <2>1. Len(stack) \in Nat
    BY <1>1, <1>2, StackFacts
  <2>2. Len(stack) \in 1 .. Len(stack) /\ Len(stack) \in 2 .. Len(stack)
    BY <2>1, <1>2
  <2> QED
    BY <2>1, <2>2, <1>1, <1>2, StackFacts
<1>4. ~Busy(prog, f)
  BY <1>2, <1>3 DEF Busy, StepsOK, Steps
<1>5. /\ prog' = prog /\ pool' = pool /\ file' = file /\ index' = index
      /\ stack' = Give(s1, i)
      /\ table' = [table EXCEPT ![k] = IF k = "entryPoint" THEN Append(table[k], f.row)
                                        ELSE [table[k] EXCEPT ![i + 1] = f.row]]
  BY <1>2 DEF Return
<1>6. k \in Kinds /\ (k # "entryPoint" => f.obj \in DOMAIN index)
  BY <1>1, <1>3, ProgramFacts DEF Registered
<1>7. i \in Nat
  BY <1>1, <1>6 DEF TablesOK, IndexOK
<1>8. n \in Nat \ {0}
  BY <1>2, <1>3
<1> HIDE DEF i
<1>9. StackOK(prog, s1) /\ Popped(stack, s1) /\ s1 # <<>> /\ Waits(prog, s1[Len(s1)])
      /\ Awaited(prog, s1[Len(s1)]) = f.obj
  BY <1>1, <1>2, PopStack
<1>10. Len(s1) = n /\ s1[n] = stack[n] /\ \A m \in 1 .. n - 1 : s1[m] = stack[m]
  <2>1. Len(s1) = n /\ \A m \in 1 .. n : s1[m] = stack[m]
    BY <1>9 DEF Popped, SameBelow
  <2> QED
    BY <2>1, <1>8
<1> HIDE DEF s1
<1>11. StackOK(prog, stack') /\ Given(s1, stack', i)
  BY <1>1, <1>5, <1>7, <1>9, GiveStack DEF Waits
<1> HIDE DEF n
<1>12. /\ Len(stack') = n /\ SameBelow(stack, stack', n - 1)
       /\ stack'[n].obj = stack[n].obj /\ stack'[n].step = stack[n].step /\ stack'[n].row = stack[n].row
       /\ stack'[n].got = Append(stack[n].got, i)
  BY SMTT(60), <1>10, <1>11 DEF Given, SameBelow
<1> HIDE DEF f
<1>13. CASE k = "entryPoint"
  <2>1. table' = [table EXCEPT !["entryPoint"] = Append(table["entryPoint"], f.row)]
    BY <1>5, <1>13
  <2>2. /\ TablesOK(table') /\ IndexOK(prog, index, table')
        /\ RowsKept(prog, index, table, table', f.obj)
    BY <2>1, <1>1, <1>3, EntryPointStored
  <2>3. f.obj \notin DOMAIN index
    BY <1>1, <1>13 DEF IndexOK, Indexed
  <2> QED
    BY <2>2, <2>3, <1>2, <1>4, <1>5, <1>7, <1>8, <1>9, <1>10, <1>11, <1>12 DEF Left, f, n
<1>14. CASE k # "entryPoint"
  <2>1. f.obj \in DOMAIN index /\ i = index[f.obj]
    BY <1>6, <1>14 DEF i
  <2>2. table' = [table EXCEPT ![k] = [table[k] EXCEPT ![index[f.obj] + 1] = f.row]]
    BY <1>5, <1>14, <2>1
  <2>3. RowStored(prog, index, table, table', f.obj, f.row)
    BY <2>1, <2>2, <1>1, <1>3, RowReplaced
  <2>4. /\ TablesOK(table') /\ IndexOK(prog, index, table')
        /\ RowsKept(prog, index, table, table', f.obj)
        /\ table'[k][index[f.obj] + 1] = f.row
    BY <2>3 DEF RowStored
  <2> QED
    BY ZenonT(60), <2>1, <2>4, <1>2, <1>4, <1>5, <1>7, <1>8, <1>9, <1>10, <1>11, <1>12 DEF Left, f, n
<1> QED
  BY <1>13, <1>14

-----------------------------------------------------------------------------
(* The shape of the stack is kept.                                         *)

StackInv(p, st, ix) ==
    StackOK(p, st) /\ Registered(p, st, ix) /\ OnceOnStack(st) /\ PlainAbove(p, st)

\* st2 has the frames of st, as far as it goes, but for its last one.
SameFrames(st, st2) ==
    /\ Len(st2) <= Len(st) /\ \A n \in 1 .. Len(st2) : st2[n].obj = st[n].obj
    /\ \A n \in 1 .. Len(st2) - 1 : st2[n] = st[n]

LEMMA SameFramesKeep ==
    ASSUME NEW p, NEW st, NEW st2, NEW ix, StackInv(p, st, ix), StackOK(p, st2), SameFrames(st, st2)
    PROVE  StackInv(p, st2, ix)
<1>1. Len(st) \in Nat /\ Len(st2) \in Nat
  BY DEF StackInv, StackOK
<1>2. \A n \in 1 .. Len(st2) : n \in 1 .. Len(st) /\ st2[n].obj = st[n].obj
  BY <1>1 DEF SameFrames
<1>3. Registered(p, st2, ix) /\ OnceOnStack(st2)
  BY <1>2 DEF StackInv, Registered, OnceOnStack
<1>4. PlainAbove(p, st2)
  <2> SUFFICES ASSUME NEW m \in 1 .. Len(st2), NEW n \in 1 .. Len(st2), m < n, KeepsLayoutsAway(p, st2[m])
               PROVE  p[st2[n].obj].kind \in Plain
    BY DEF PlainAbove
  <2>1. m \in 1 .. Len(st2) - 1
    BY <1>1
  <2>2. st2[m] = st[m]
    BY <2>1 DEF SameFrames
  <2> QED
    BY <1>2, <2>2 DEF StackInv, PlainAbove
<1> QED
  BY <1>3, <1>4 DEF StackInv

LEMMA TakenFrames ==
    ASSUME NEW p, NEW st, StackOK(p, st), NEW st2, NEW ix, NEW pl, NEW pl2, Taken(p, st, st2, ix, pl, pl2)
    PROVE  SameFrames(st, st2) /\ StackOK(p, st2)
<1>1. Len(st) \in Nat
  BY DEF StackOK
<1>2. PICK row : Advanced(st, st2, row) /\ StackOK(p, st2)
  BY DEF Taken
<1>3. /\ Len(st2) = Len(st) /\ st2[Len(st)].obj = st[Len(st)].obj
      /\ \A n \in 1 .. Len(st) - 1 : st2[n] = st[n]
  BY <1>2 DEF Advanced, SameBelow
<1>4. \A n \in 1 .. Len(st) : n = Len(st) \/ n \in 1 .. Len(st) - 1
  BY <1>1
<1> QED
  BY <1>1, <1>2, <1>3, <1>4 DEF SameFrames

LEMMA PassedFrames ==
    ASSUME NEW p, NEW st, StackOK(p, st), NEW st2, NEW i, NEW ix, NEW pl, NEW pl2,
           Passed(p, st, st2, i, ix, pl, pl2)
    PROVE  SameFrames(st, st2) /\ StackOK(p, st2)
<1>1. Len(st) \in Nat
  BY DEF StackOK
<1>3. /\ Len(st2) = Len(st) /\ st2[Len(st)].obj = st[Len(st)].obj
      /\ \A n \in 1 .. Len(st) - 1 : st2[n] = st[n]
  BY DEF Passed, Given, SameBelow
<1>4. \A n \in 1 .. Len(st) : n = Len(st) \/ n \in 1 .. Len(st) - 1
  BY <1>1
<1> QED
  BY <1>1, <1>3, <1>4 DEF SameFrames, Passed

LEMMA LeftFrames ==
    ASSUME NEW p, NEW st, StackOK(p, st), NEW st2, NEW i, NEW ix, NEW tb, NEW tb2,
           Left(p, st, st2, i, ix, tb, tb2)
    PROVE  SameFrames(st, st2) /\ StackOK(p, st2)
<1>1. Len(st) \in Nat
  BY DEF StackOK
<1> DEFINE n == Len(st) - 1
<1>3. /\ Len(st2) = n /\ st2[n].obj = st[n].obj /\ n \in Nat
      /\ \A m \in 1 .. n - 1 : st2[m] = st[m]
  BY DEF Left, SameBelow
<1>5. n <= Len(st)
  BY <1>1
<1> HIDE DEF n
<1>4. \A m \in 1 .. n : m = n \/ m \in 1 .. n - 1
  BY <1>3
<1> QED
  BY <1>3, <1>4, <1>5 DEF SameFrames, Left

LEMMA EnteredKeeps ==
    ASSUME NEW p \in Programs, NEW st, NEW ix, NEW tb, StackInv(p, st, ix), NEW st2, NEW ix2, NEW tb2,
           Entered(p, st, st2, ix, ix2, tb, tb2)
    PROVE  StackInv(p, st2, ix2)
<1>1. PICK t \in DOMAIN p, row \in Records :
        /\ st # <<>> /\ Waits(p, st[Len(st)]) /\ t = Awaited(p, st[Len(st)])
        /\ t # Nil /\ t \notin DOMAIN ix /\ t # "root"
        /\ StackOK(p, st2) /\ Pushed(st, st2, t, row)
        /\ p[t].kind = "entryPoint" => ix2 = ix
        /\ p[t].kind # "entryPoint" => t \in Indexed(p) /\ Assigned(ix, ix2, t, Len(tb[p[t].kind]))
  BY DEF Entered
<1> DEFINE N == Len(st)
           f == st[Len(st)]
<1>2. /\ N \in Nat \ {0} /\ N \in 1 .. N /\ f \in Frames(p)
      /\ \A n \in 2 .. N : st[n].obj # "root"
      /\ \A n \in 1 .. N : st[n].obj \in DOMAIN p
  BY <1>1, StackFacts DEF StackInv
<1>3. Len(st2) = N + 1 /\ st2[N + 1].obj = t /\ \A n \in 1 .. N : st2[n] = st[n]
  BY <1>1 DEF Pushed, SameBelow, Frame
<1>4. /\ (t \notin Indexed(p) => f.obj = "root") /\ (KeepsLayoutsAway(p, f) => p[t].kind \in Plain)
  BY <1>1, <1>2, AwaitedFacts
<1> HIDE DEF N
<1>5. \A n \in 1 .. Len(st2) : n = N + 1 \/ (n \in 1 .. N /\ st2[n] = st[n])
  BY <1>2, <1>3
<1>6. Registered(p, st2, ix2)
  <2> SUFFICES ASSUME NEW n \in 1 .. Len(st2), p[st2[n].obj].kind \notin {"root", "entryPoint"}
               PROVE  st2[n].obj \in DOMAIN ix2
    BY DEF Registered
  <2>1. DOMAIN ix \subseteq DOMAIN ix2 /\ (p[t].kind # "entryPoint" => t \in DOMAIN ix2)
    BY <1>1 DEF Assigned
  <2>2. CASE n = N + 1
    BY <2>1, <2>2, <1>3
  <2>3. CASE n \in 1 .. N /\ st2[n] = st[n]
    BY <2>1, <2>3 DEF StackInv, Registered, N
  <2> QED
    BY <2>2, <2>3, <1>5
<1>7. \A n \in 1 .. N : st[n].obj # t
  <2> TAKE n \in 1 .. N
  <2>1. CASE t \in Indexed(p)
    BY <2>1, <1>1, <1>2 DEF StackInv, Registered, N, Indexed
  <2>2. CASE t \notin Indexed(p)
    <3>1. f.obj = "root"
      BY <2>2, <1>4
    <3>2. N = 1
      <4>1. N # 1 => N \in 2 .. N
        BY <1>2
      <4> QED
        BY <3>1, <4>1, <1>2 DEF N
    <3>3. st[n].obj = "root"
      BY <3>1, <3>2 DEF N
    <3> QED
      BY <3>3, <1>1
  <2> QED
    BY <2>1, <2>2
<1>8. OnceOnStack(st2)
  <2> SUFFICES ASSUME NEW m \in 1 .. Len(st2), NEW n \in 1 .. Len(st2), st2[m].obj = st2[n].obj
               PROVE  m = n
    BY DEF OnceOnStack
  <2>1. CASE m = N + 1 /\ n = N + 1
    BY <2>1
  <2>2. CASE m = N + 1 /\ n \in 1 .. N /\ st2[n] = st[n]
    BY <2>2, <1>3, <1>7
  <2>3. CASE n = N + 1 /\ m \in 1 .. N /\ st2[m] = st[m]
    BY <2>3, <1>3, <1>7
  <2>4. CASE m \in 1 .. N /\ st2[m] = st[m] /\ n \in 1 .. N /\ st2[n] = st[n]
    BY <2>4 DEF StackInv, OnceOnStack, N
  <2> QED
    BY <2>1, <2>2, <2>3, <2>4, <1>5
<1>9. PlainAbove(p, st2)
  <2> SUFFICES ASSUME NEW m \in 1 .. Len(st2), NEW n \in 1 .. Len(st2), m < n, KeepsLayoutsAway(p, st2[m])
               PROVE  p[st2[n].obj].kind \in Plain
    BY DEF PlainAbove
  <2>0. m \in 1 .. N /\ st2[m] = st[m]
    BY <1>2, <1>3
  <2>1. CASE n \in 1 .. N /\ st2[n] = st[n]
    BY <2>0, <2>1 DEF StackInv, PlainAbove, N
  <2>2. CASE n = N + 1
    <3>1. CASE m = N
      BY <2>0, <2>2, <3>1, <1>3, <1>4 DEF N
    <3>2. CASE m # N
      <4>1. m < N
        BY <2>0, <3>2, <1>2
      <4>2. p[f.obj].kind \in Plain
        BY <2>0, <4>1, <1>2 DEF StackInv, PlainAbove, N
      <4>3. KeepsLayoutsAway(p, f)
        BY <4>2 DEF KeepsLayoutsAway
      <4> QED
        BY <2>2, <4>3, <1>3, <1>4
    <3> QED
      BY <3>1, <3>2
  <2> QED
    BY <2>1, <2>2, <1>5
<1> QED
  BY <1>1, <1>6, <1>8, <1>9 DEF StackInv

-----------------------------------------------------------------------------
(* What is done stays done.                                                *)

IndexGrown(ix, ix2) == \A o \in DOMAIN ix : o \in DOMAIN ix2 /\ ix2[o] = ix[o]

Grown(ix, ix2, pl, pl2) ==
    IndexGrown(ix, ix2) /\ PoolsOK(pl) /\ PoolsOK(pl2) /\ PoolGrown(pl, pl2)

\* Row row2 has all that row has in the fields gs.
RowGrown(row, row2, gs) == \A g \in gs : g \in DOMAIN row => g \in DOMAIN row2 /\ row2[g] = row[g]

LEMMA NamesKept ==
    \A ix, ix2, i, x : IndexGrown(ix, ix2) /\ NamesIn(ix, i, x) => NamesIn(ix2, i, x)
BY DEF IndexGrown, NamesIn

LEMMA GrownFacts ==
    ASSUME NEW ix, NEW ix2, NEW pl, NEW pl2, Grown(ix, ix2, pl, pl2), NEW q \in Pools
    PROVE  /\ Len(pl[q]) \in Nat /\ Len(pl2[q]) \in Nat /\ Len(pl[q]) <= Len(pl2[q])
           /\ \A i \in 1 .. Len(pl[q]) : pl2[q][i] = pl[q][i]
BY SMTT(60) DEF Grown, PoolsOK, PoolGrown, Extends

LEMMA StepDoneKept ==
    ASSUME NEW p \in Programs, NEW o \in DOMAIN p, NEW m \in 1 .. Len(Script(p, o)),
           NEW row, NEW row2, RowGrown(row, row2, Assigns(Script(p, o)[m])),
           NEW ix, NEW ix2, NEW pl, NEW pl2, Grown(ix, ix2, pl, pl2), StepDone(p, o, m, row, ix, pl)
    PROVE  StepDone(p, o, m, row2, ix2, pl2)
<1> DEFINE s == Script(p, o)[m]
           r == row[s.field]
<1>1. StepOK(p, p[o], s)
  BY Scripts DEF StepsOK
<1>2. IndexGrown(ix, ix2)
  BY DEF Grown
<1>3. s.op \in {"ref", "list", "name", "mods", "attrs"} =>
        s.field \in DOMAIN row /\ s.field \in DOMAIN row2 /\ row2[s.field] = r
  BY DEF StepDone, RowGrown, Assigns
<1>4. ASSUME s.op = "ref" PROVE NamesIn(ix2, row2[s.field], s.to[1])
  BY <1>2, <1>3, <1>4, NamesKept DEF StepDone
<1>12. /\ Len(pl["u32"]) \in Nat /\ Len(pl2["u32"]) \in Nat /\ Len(pl["u32"]) <= Len(pl2["u32"])
       /\ \A i \in 1 .. Len(pl["u32"]) : pl2["u32"][i] = pl["u32"][i]
  <2>1. "u32" \in Pools
    BY ItemFacts
  <2> HIDE DEF s, r
  <2> QED
    BY <2>1, GrownFacts
<1>5. ASSUME s.op = "list"
      PROVE  LET c == row2[s.field]
             IN  /\ c \in Slices /\ c.count = Len(s.to) + Len(s.data)
                 /\ c.count > 0 => c.off + c.count <= Len(pl2["u32"])
                 /\ \A k \in 1 .. Len(s.to) : NamesIn(ix2, pl2["u32"][c.off + k], s.to[k])
                 /\ \A k \in 1 .. Len(s.data) : pl2["u32"][c.off + Len(s.to) + k] = s.data[k]
  <2>1. /\ r \in Slices /\ r.count = Len(s.to) + Len(s.data)
        /\ r.count > 0 => r.off + r.count <= Len(pl["u32"])
        /\ \A k \in 1 .. Len(s.to) : NamesIn(ix, pl["u32"][r.off + k], s.to[k])
        /\ \A k \in 1 .. Len(s.data) : pl["u32"][r.off + Len(s.to) + k] = s.data[k]
    BY <1>5 DEF StepDone
  <2>2. row2[s.field] = r
    BY <1>3, <1>5
  <2>3. Len(s.to) \in Nat /\ Len(s.data) \in Nat
    BY SMTT(60), <1>1, <1>5 DEF StepOK
  <2>4. r.off \in Nat /\ r.count \in Nat
    BY <2>1 DEF Slices
  <2>5. /\ Len(pl["u32"]) \in Nat /\ Len(pl2["u32"]) \in Nat /\ Len(pl["u32"]) <= Len(pl2["u32"])
        /\ \A i \in 1 .. Len(pl["u32"]) : pl2["u32"][i] = pl["u32"][i]
    BY <1>12
  <2> DEFINE a == Len(s.to)
             b == Len(s.data)
             n == r.off
             c == r.count
             L == Len(pl["u32"])
  <2>6. a \in Nat /\ b \in Nat /\ n \in Nat /\ c \in Nat /\ L \in Nat /\ c = a + b /\ (c > 0 => n + c <= L)
    BY <2>1, <2>3, <2>4, <2>5
  <2> HIDE DEF a, b, n, c, L
  <2>7. \A k \in 1 .. a : n + k \in 1 .. L
    BY <2>6
  <2>8. \A k \in 1 .. b : n + a + k \in 1 .. L
    BY <2>6
  <2> HIDE DEF s, r
  <2>9. \A k \in 1 .. Len(s.to) : NamesIn(ix2, pl2["u32"][r.off + k], s.to[k])
    <3> TAKE k \in 1 .. Len(s.to)
    <3>1. pl2["u32"][r.off + k] = pl["u32"][r.off + k]
      BY <2>5, <2>7 DEF a, n, L
    <3> QED
      BY <3>1, <2>1, <1>2, NamesKept
  <2>10. \A k \in 1 .. Len(s.data) : pl2["u32"][r.off + Len(s.to) + k] = s.data[k]
    BY <2>1, <2>5, <2>8 DEF a, b, n, L
  <2>11. r.count > 0 => r.off + r.count <= Len(pl2["u32"])
    <3>1. Len(pl2["u32"]) \in Nat /\ L <= Len(pl2["u32"])
      BY <2>5 DEF L
    <3>2. c > 0 => n + c <= Len(pl2["u32"])
      BY <3>1, <2>6
    <3> QED
      BY <3>2 DEF c, n
  <2> QED
    BY <2>1, <2>2, <2>9, <2>10, <2>11
<1>6. ASSUME s.op = "name"
      PROVE  /\ s.data[1] = Nil => row2[s.field] = Invalid
             /\ s.data[1] # Nil => /\ row2[s.field] \in Nat /\ row2[s.field] < Len(pl2["string"])
                                  /\ pl2["string"][row2[s.field] + 1] = s.data[1]
  <2>1. /\ s.data[1] = Nil => r = Invalid
        /\ s.data[1] # Nil => /\ r \in Nat /\ r < Len(pl["string"])
                             /\ pl["string"][r + 1] = s.data[1]
    BY <1>6 DEF StepDone
  <2>2. row2[s.field] = r
    BY <1>3, <1>6
  <2>3. /\ Len(pl["string"]) \in Nat /\ Len(pl2["string"]) \in Nat /\ Len(pl["string"]) <= Len(pl2["string"])
        /\ \A i \in 1 .. Len(pl["string"]) : pl2["string"][i] = pl["string"][i]
    BY GrownFacts, ItemFacts
  <2> HIDE DEF s, r
  <2>4. s.data[1] # Nil => r + 1 \in 1 .. Len(pl["string"])
    BY <2>1, <2>3
  <2> QED
    BY <2>1, <2>2, <2>3, <2>4
<1>7. ASSUME s.op = "mods"
      PROVE  LET c == row2[s.field]
             IN  /\ c \in Slices /\ c.count = Len(s.data)
                 /\ c.count > 0 => c.off + c.count <= Len(pl2["modifier"])
                 /\ \A k \in 1 .. Len(s.data) : pl2["modifier"][c.off + k] = s.data[k]
  <2>1. /\ r \in Slices /\ r.count = Len(s.data)
        /\ r.count > 0 => r.off + r.count <= Len(pl["modifier"])
        /\ \A k \in 1 .. Len(s.data) : pl["modifier"][r.off + k] = s.data[k]
    BY <1>7 DEF StepDone
  <2>2. row2[s.field] = r
    BY <1>3, <1>7
  <2>4. r.off \in Nat /\ r.count \in Nat
    BY <2>1 DEF Slices
  <2>5. /\ Len(pl["modifier"]) \in Nat /\ Len(pl2["modifier"]) \in Nat
        /\ Len(pl["modifier"]) <= Len(pl2["modifier"])
        /\ \A i \in 1 .. Len(pl["modifier"]) : pl2["modifier"][i] = pl["modifier"][i]
    BY GrownFacts, ItemFacts
  <2> HIDE DEF s, r
  <2>6. \A k \in 1 .. Len(s.data) : r.off + k \in 1 .. Len(pl["modifier"])
    BY SMTT(60), <2>1, <2>4, <2>5
  <2>7. r.count > 0 => r.off + r.count <= Len(pl2["modifier"])
    BY SMTT(60), <2>1, <2>4, <2>5
  <2> QED
    BY <2>1, <2>2, <2>5, <2>6, <2>7
<1>8. s.op = "attrs" => row2[s.field] \in Slices /\ row2[s.field].count = Len(s.data)
  BY <1>3 DEF StepDone
<1>9. s.op = "mark" => /\ {"ranges", "sets", "subs"} \subseteq DOMAIN row2
                       /\ row2["ranges"] = row["ranges"] /\ row2["sets"] = row["sets"]
                       /\ row2["subs"] = row["subs"]
  BY DEF StepDone, RowGrown, Assigns
<1>10. s.op = "mark" =>
         /\ row["ranges"] \in Slices /\ row["ranges"].count = RangeCount(p[o])
         /\ row["sets"] \in Slices /\ row["sets"].count = SetCount(p[o])
         /\ row["subs"] \in Slices /\ row["subs"].count = SubCount(p[o])
  BY DEF StepDone
<1> HIDE DEF s, r
<1>11. s = Script(p, o)[m]
  BY DEF s
<1> QED
  BY ZenonT(60), <1>3, <1>4, <1>5, <1>6, <1>7, <1>8, <1>9, <1>10, <1>11 DEF StepDone

LEMMA SameRow == \A row, gs : RowGrown(row, row, gs)
BY DEF RowGrown

LEMMA FrameDoneKept ==
    ASSUME NEW p \in Programs, NEW f \in Frames(p), FrameOK(p, f),
           NEW ix, NEW ix2, NEW pl, NEW pl2, Grown(ix, ix2, pl, pl2), FrameDone(p, f, ix, pl)
    PROVE  FrameDone(p, f, ix2, pl2)
<1>1. f.obj \in DOMAIN p /\ f.step \in Nat \ {0}
  BY DEF Frames
<1>2. Len(Script(p, f.obj)) \in Nat
  BY <1>1, Scripts DEF StepsOK
<1>3. GotOK(p, f, ix2)
  BY NamesKept DEF FrameDone, GotOK, Grown
<1>4. ASSUME NEW m \in 1 .. f.step - 1 PROVE StepDone(p, f.obj, m, f.row, ix2, pl2)
  <2>1. m \in 1 .. Len(Script(p, f.obj))
    BY <1>1, <1>2 DEF FrameOK
  <2>2. StepDone(p, f.obj, m, f.row, ix, pl)
    BY DEF FrameDone
  <2> QED
    BY <2>1, <2>2, <1>1, SameRow, StepDoneKept
<1> QED
  BY <1>3, <1>4 DEF FrameDone

LEMMA RowDoneKept ==
    ASSUME NEW p \in Programs, NEW o \in DOMAIN p, NEW row,
           NEW ix, NEW ix2, NEW pl, NEW pl2, Grown(ix, ix2, pl, pl2), RowDone(p, o, row, ix, pl)
    PROVE  RowDone(p, o, row, ix2, pl2)
BY SameRow, StepDoneKept DEF RowDone

-----------------------------------------------------------------------------
(* Every operation keeps what is done.                                     *)

Sound(p, st, ix, tb, pl) ==
    /\ p \in Programs /\ StackInv(p, st, ix)
    /\ IndexOK(p, ix, tb) /\ TablesOK(tb) /\ PoolsOK(pl)
    /\ FramesDone(p, st, ix, pl) /\ TablesDone(p, st, ix, tb, pl)

LEMMA SameIndex == \A ix : IndexGrown(ix, ix)
BY DEF IndexGrown

LEMMA SameObjects ==
    ASSUME NEW st, NEW st2, SameFrames(st, st2), Len(st2) = Len(st), NEW o
    PROVE  OnStack(o, st) <=> OnStack(o, st2)
BY DEF SameFrames, OnStack

\* The frames below the last one.
LEMMA LowerFramesDone ==
    ASSUME NEW p \in Programs, NEW st, NEW st2, StackOK(p, st), StackOK(p, st2), SameFrames(st, st2),
           NEW ix, NEW ix2, NEW pl, NEW pl2, Grown(ix, ix2, pl, pl2), FramesDone(p, st, ix, pl),
           st2 # <<>> => FrameDone(p, st2[Len(st2)], ix2, pl2)
    PROVE  FramesDone(p, st2, ix2, pl2)
<1> SUFFICES ASSUME NEW n \in 1 .. Len(st2) PROVE FrameDone(p, st2[n], ix2, pl2)
  BY DEF FramesDone
<1>1. Len(st) \in Nat /\ Len(st2) \in Nat /\ Len(st2) <= Len(st)
  BY DEF StackOK, SameFrames
<1>2. CASE n = Len(st2)
  BY <1>1, <1>2, EmptySeqs
<1>3. CASE n # Len(st2)
  <2>1. n \in 1 .. Len(st2) - 1 /\ n \in 1 .. Len(st)
    BY <1>1, <1>3
  <2>2. st2[n] = st[n] /\ st[n] \in Frames(p) /\ FrameOK(p, st[n]) /\ FrameDone(p, st[n], ix, pl)
    BY <2>1 DEF SameFrames, StackOK, FramesDone
  <2> QED
    BY <2>2, FrameDoneKept
<1> QED
  BY <1>2, <1>3

\* The rows of the tables, when neither they nor the objects on the stack change.
LEMMA SameTablesDone ==
    ASSUME NEW p, NEW st, NEW st2, SameFrames(st, st2), Len(st2) = Len(st), NEW tb,
           NEW ix, NEW pl, NEW pl2, p \in Programs, IndexOK(p, ix, tb), Grown(ix, ix, pl, pl2),
           TablesDone(p, st, ix, tb, pl)
    PROVE  TablesDone(p, st2, ix, tb, pl2)
<1> SUFFICES ASSUME NEW o \in DOMAIN ix, ~OnStack(o, st2)
             PROVE  RowDone(p, o, tb[p[o].kind][ix[o] + 1], ix, pl2)
  BY DEF TablesDone
<1>1. o \in DOMAIN p
  BY DEF IndexOK, Indexed
<1>2. ~OnStack(o, st)
  BY SameObjects
<1>3. RowDone(p, o, tb[p[o].kind][ix[o] + 1], ix, pl)
  BY <1>2 DEF TablesDone
<1> QED
  BY <1>1, <1>3, RowDoneKept

LEMMA TakenFrame ==
    ASSUME NEW p \in Programs, NEW f \in Frames(p), Busy(p, f), NEW ix, NEW pl, NEW pl2, NEW row,
           PoolsOK(pl), FrameDone(p, f, ix, pl), Effect(p, f, row, ix, pl, pl2),
           NEW g, g.obj = f.obj, g.step = f.step + 1, g.row = row, g.got = <<>>
    PROVE  FrameDone(p, g, ix, pl2) /\ Grown(ix, ix, pl, pl2)
<1>1. f.obj \in DOMAIN p /\ f.step \in Nat \ {0}
  BY DEF Frames
<1>2. StepsOK(p, p[f.obj], Script(p, f.obj))
  BY <1>1, Scripts
<1>3. Grown(ix, ix, pl, pl2)
  BY SameIndex DEF Grown, Effect
<1>4. GotOK(p, g, ix)
  BY EmptySeqs DEF GotOK
<1> DEFINE sc == Script(p, f.obj)
           k  == f.step
<1>5. Len(sc) \in Nat /\ k \in 1 .. Len(sc) /\ StepOf(p, f) = sc[k]
  BY <1>1, <1>2 DEF StepsOK, Busy, StepOf
<1>6. ASSUME NEW m \in 1 .. g.step - 1 PROVE StepDone(p, g.obj, m, g.row, ix, pl2)
  <2>1. CASE m = k
    BY <2>1 DEF Effect
  <2>2. CASE m # k
    <3>1. m \in 1 .. k - 1 /\ m \in 1 .. Len(sc)
      BY <2>2, <1>1, <1>5
    <3>2. StepDone(p, f.obj, m, f.row, ix, pl)
      BY <3>1 DEF FrameDone
    <3>3. Assigns(sc[m]) \cap Assigns(sc[k]) = {}
      BY <2>2, <3>1, <1>2, <1>5 DEF StepsOK
    <3>4. RowGrown(f.row, row, Assigns(sc[m]))
      BY <3>3, <1>5 DEF Effect, RowGrown
    <3>5. StepDone(p, f.obj, m, row, ix, pl2)
      BY <3>1, <3>2, <3>4, <1>1, <1>3, StepDoneKept
    <3> QED
      BY <3>5
  <2> QED
    BY <2>1, <2>2
<1> QED
  BY <1>3, <1>4, <1>6 DEF FrameDone

LEMMA TakenSound ==
    ASSUME NEW p, NEW st, NEW st2, NEW ix, NEW tb, NEW pl, NEW pl2, Sound(p, st, ix, tb, pl),
           Taken(p, st, st2, ix, pl, pl2)
    PROVE  Sound(p, st2, ix, tb, pl2)
<1>1. /\ p \in Programs /\ StackInv(p, st, ix) /\ StackOK(p, st) /\ IndexOK(p, ix, tb) /\ TablesOK(tb)
      /\ PoolsOK(pl) /\ FramesDone(p, st, ix, pl) /\ TablesDone(p, st, ix, tb, pl)
  BY DEF Sound, StackInv
<1>2. PICK row : /\ st # <<>> /\ Busy(p, st[Len(st)]) /\ StackOK(p, st2) /\ st2 # <<>>
                 /\ Advanced(st, st2, row) /\ Effect(p, st[Len(st)], row, ix, pl, pl2)
  BY DEF Taken
<1>3. SameFrames(st, st2) /\ StackInv(p, st2, ix)
  BY <1>1, TakenFrames, SameFramesKeep
<1>4. Len(st) \in 1 .. Len(st) /\ st[Len(st)] \in Frames(p) /\ FrameDone(p, st[Len(st)], ix, pl)
  BY <1>1, <1>2, StackFacts DEF FramesDone
<1> DEFINE f == st[Len(st)]
           g == st2[Len(st2)]
<1>5. g.obj = f.obj /\ g.step = f.step + 1 /\ g.row = row /\ g.got = <<>> /\ Len(st2) = Len(st)
  BY <1>2 DEF Advanced
<1> HIDE DEF f, g
<1>6. FrameDone(p, g, ix, pl2) /\ Grown(ix, ix, pl, pl2)
  BY <1>1, <1>2, <1>4, <1>5, TakenFrame DEF f
<1>7. FramesDone(p, st2, ix, pl2)
  BY <1>1, <1>2, <1>3, <1>6, LowerFramesDone DEF g
<1>8. TablesDone(p, st2, ix, tb, pl2)
  BY <1>1, <1>3, <1>5, <1>6, SameTablesDone
<1>9. PoolsOK(pl2)
  BY <1>6 DEF Grown
<1> QED
  BY <1>1, <1>3, <1>7, <1>8, <1>9 DEF Sound

\* A frame that has got the index it waits for.
LEMMA GivenFrame ==
    ASSUME NEW p \in Programs, NEW f \in Frames(p), FrameOK(p, f), NEW ix, NEW pl, NEW pl2, NEW i,
           Grown(ix, ix, pl, pl2), FrameDone(p, f, ix, pl),
           StepOf(p, f).op = "attrs" \/ Waits(p, f),
           Waits(p, f) /\ Awaited(p, f) \in Indexed(p) \cup {Nil} => NamesIn(ix, i, Awaited(p, f)),
           NEW g, g.obj = f.obj, g.step = f.step, g.row = f.row, g.got = Append(f.got, i)
    PROVE  FrameDone(p, g, ix, pl2)
<1>1. FrameDone(p, f, ix, pl2)
  BY FrameDoneKept
<1>2. f.got \in Seq(Nat) /\ Len(f.got) \in Nat
  BY DEF Frames
<1>3. StepOf(p, g) = StepOf(p, f) /\ (Busy(p, g) <=> Busy(p, f))
  BY DEF StepOf, Busy
<1>4. Len(g.got) = Len(f.got) + 1 /\ g.got[Len(f.got) + 1] = i /\ \A k \in 1 .. Len(f.got) : g.got[k] = f.got[k]
  BY <1>2
<1>5. GotOK(p, g, ix)
  <2> SUFFICES ASSUME Busy(p, f), StepOf(p, f).op # "attrs", NEW k \in 1 .. Len(g.got),
                      StepOf(p, f).to[k] \in Indexed(p) \cup {Nil}
               PROVE  NamesIn(ix, g.got[k], StepOf(p, f).to[k])
    BY <1>3 DEF GotOK
  <2>1. CASE k = Len(f.got) + 1
    BY <2>1, <1>4 DEF Awaited
  <2>2. CASE k # Len(f.got) + 1
    <3>1. k \in 1 .. Len(f.got)
      BY <2>2, <1>2, <1>4
    <3> QED
      BY <3>1, <1>1, <1>4 DEF FrameDone, GotOK
  <2> QED
    BY <2>1, <2>2
<1> QED
  BY <1>1, <1>5 DEF FrameDone

LEMMA PassedSound ==
    ASSUME NEW p, NEW st, NEW st2, NEW i, NEW ix, NEW tb, NEW pl, NEW pl2, Sound(p, st, ix, tb, pl),
           Passed(p, st, st2, i, ix, pl, pl2)
    PROVE  Sound(p, st2, ix, tb, pl2)
<1>1. /\ p \in Programs /\ StackInv(p, st, ix) /\ StackOK(p, st) /\ IndexOK(p, ix, tb) /\ TablesOK(tb)
      /\ PoolsOK(pl) /\ FramesDone(p, st, ix, pl) /\ TablesDone(p, st, ix, tb, pl)
  BY DEF Sound, StackInv
<1>2. /\ st # <<>> /\ StackOK(p, st2) /\ st2 # <<>> /\ Given(st, st2, i)
      /\ PoolsOK(pl2) /\ PoolGrown(pl, pl2)
      /\ StepOf(p, st[Len(st)]).op = "attrs" \/ Waits(p, st[Len(st)])
      /\ Waits(p, st[Len(st)]) /\ Awaited(p, st[Len(st)]) \in Indexed(p) \cup {Nil} =>
           NamesIn(ix, i, Awaited(p, st[Len(st)]))
  BY DEF Passed
<1>3. SameFrames(st, st2) /\ StackInv(p, st2, ix)
  BY <1>1, PassedFrames, SameFramesKeep
<1>4. Len(st) \in 1 .. Len(st) /\ st[Len(st)] \in Frames(p) /\ FrameDone(p, st[Len(st)], ix, pl)
      /\ FrameOK(p, st[Len(st)])
  BY <1>1, <1>2, StackFacts DEF FramesDone, StackOK
<1> DEFINE f == st[Len(st)]
           g == st2[Len(st2)]
<1>5. g.obj = f.obj /\ g.step = f.step /\ g.row = f.row /\ g.got = Append(f.got, i) /\ Len(st2) = Len(st)
  BY <1>2 DEF Given
<1> HIDE DEF f, g
<1>6. Grown(ix, ix, pl, pl2)
  BY <1>1, <1>2, SameIndex DEF Grown
<1>7. FrameDone(p, g, ix, pl2)
  BY <1>1, <1>2, <1>4, <1>5, <1>6, GivenFrame DEF f
<1>8. FramesDone(p, st2, ix, pl2)
  BY <1>1, <1>2, <1>3, <1>6, <1>7, LowerFramesDone DEF g
<1>9. TablesDone(p, st2, ix, tb, pl2)
  BY <1>1, <1>3, <1>5, <1>6, SameTablesDone
<1> QED
  BY <1>1, <1>2, <1>3, <1>8, <1>9 DEF Sound

LEMMA EnteredSound ==
    ASSUME NEW p, NEW st, NEW st2, NEW ix, NEW ix2, NEW tb, NEW tb2, NEW pl, Sound(p, st, ix, tb, pl),
           Entered(p, st, st2, ix, ix2, tb, tb2)
    PROVE  Sound(p, st2, ix2, tb2, pl)
<1>1. /\ p \in Programs /\ StackInv(p, st, ix) /\ StackOK(p, st) /\ IndexOK(p, ix, tb) /\ TablesOK(tb)
      /\ PoolsOK(pl) /\ FramesDone(p, st, ix, pl) /\ TablesDone(p, st, ix, tb, pl)
  BY DEF Sound, StackInv
<1>2. PICK t \in DOMAIN p, row \in Records :
        /\ st # <<>> /\ t \notin DOMAIN ix /\ StackOK(p, st2) /\ Pushed(st, st2, t, row)
        /\ TablesOK(tb2) /\ TablesGrown(tb, tb2) /\ IndexOK(p, ix2, tb2)
        /\ p[t].kind = "entryPoint" => ix2 = ix
        /\ p[t].kind # "entryPoint" => Assigned(ix, ix2, t, Len(tb[p[t].kind]))
  BY DEF Entered
<1>3. StackInv(p, st2, ix2)
  BY <1>1, EnteredKeeps
<1>4. IndexGrown(ix, ix2) /\ DOMAIN ix2 \subseteq DOMAIN ix \cup {t}
  BY <1>2 DEF IndexGrown, Assigned
<1>5. Grown(ix, ix2, pl, pl)
  BY <1>1, <1>4, NotGrown DEF Grown
<1>6. Len(st) \in Nat /\ Len(st2) = Len(st) + 1 /\ st2[Len(st) + 1] = Frame(t, row)
      /\ \A n \in 1 .. Len(st) : st2[n] = st[n]
  BY <1>1, <1>2 DEF StackOK, Pushed, SameBelow
<1>7. FramesDone(p, st2, ix2, pl)
  <2> SUFFICES ASSUME NEW n \in 1 .. Len(st2) PROVE FrameDone(p, st2[n], ix2, pl)
    BY DEF FramesDone
  <2>1. CASE n = Len(st) + 1
    BY <2>1, <1>6, EmptySeqs DEF FrameDone, GotOK, Frame
  <2>2. CASE n # Len(st) + 1
    <3>1. n \in 1 .. Len(st)
      BY <2>2, <1>6
    <3>2. st2[n] = st[n] /\ st[n] \in Frames(p) /\ FrameOK(p, st[n]) /\ FrameDone(p, st[n], ix, pl)
      BY <3>1, <1>1, <1>6 DEF StackOK, FramesDone
    <3> QED
      BY <3>2, <1>1, <1>5, FrameDoneKept
  <2> QED
    BY <2>1, <2>2
<1>8. TablesDone(p, st2, ix2, tb2, pl)
  <2> SUFFICES ASSUME NEW o \in DOMAIN ix2, ~OnStack(o, st2)
               PROVE  RowDone(p, o, tb2[p[o].kind][ix2[o] + 1], ix2, pl)
    BY DEF TablesDone
  <2>1. o # t
    BY <1>6 DEF OnStack, Frame
  <2>2. o \in DOMAIN ix /\ ix2[o] = ix[o]
    BY <2>1, <1>4 DEF IndexGrown
  <2>3. ~OnStack(o, st)
    BY <1>6 DEF OnStack
  <2>4. RowDone(p, o, tb[p[o].kind][ix[o] + 1], ix, pl)
    BY <2>2, <2>3, <1>1 DEF TablesDone
  <2>5. o \in DOMAIN p /\ p[o].kind \in Kinds /\ ix[o] \in Nat /\ ix[o] < Len(tb[p[o].kind])
    BY <2>2, <1>1, ProgramFacts DEF IndexOK, Indexed
  <2>6. Len(tb[p[o].kind]) \in Nat
    BY <2>5, <1>1 DEF TablesOK
  <2>7. ix[o] + 1 \in 1 .. Len(tb[p[o].kind])
    BY <2>5, <2>6
  <2>8. tb2[p[o].kind][ix[o] + 1] = tb[p[o].kind][ix[o] + 1]
    BY <2>5, <2>7, <1>2 DEF TablesGrown, Extends
  <2> QED
    BY <2>2, <2>4, <2>5, <2>8, <1>1, <1>5, RowDoneKept
<1> QED
  BY <1>1, <1>2, <1>3, <1>7, <1>8 DEF Sound

LEMMA LeftSound ==
    ASSUME NEW p, NEW st, NEW st2, NEW i, NEW ix, NEW tb, NEW tb2, NEW pl, Sound(p, st, ix, tb, pl),
           Left(p, st, st2, i, ix, tb, tb2)
    PROVE  Sound(p, st2, ix, tb2, pl)
<1>1. /\ p \in Programs /\ StackInv(p, st, ix) /\ StackOK(p, st) /\ IndexOK(p, ix, tb) /\ TablesOK(tb)
      /\ PoolsOK(pl) /\ FramesDone(p, st, ix, pl) /\ TablesDone(p, st, ix, tb, pl)
      /\ Registered(p, st, ix) /\ OnceOnStack(st)
  BY DEF Sound, StackInv
<1> DEFINE n == Len(st) - 1
           e == st[Len(st)]
           o == e.obj
<1>2. /\ st # <<>> /\ n \in Nat \ {0} /\ ~Busy(p, e)
      /\ StackOK(p, st2) /\ Len(st2) = n
      /\ st2[n].obj = st[n].obj /\ st2[n].step = st[n].step /\ st2[n].row = st[n].row
      /\ st2[n].got = Append(st[n].got, i)
      /\ Waits(p, st[n]) /\ o = Awaited(p, st[n])
      /\ TablesOK(tb2) /\ IndexOK(p, ix, tb2) /\ RowsKept(p, ix, tb, tb2, o)
      /\ o \in DOMAIN ix => i = ix[o] /\ tb2[p[o].kind][i + 1] = e.row
  BY SMTT(60) DEF Left
<1>3. SameFrames(st, st2) /\ StackInv(p, st2, ix)
  BY <1>1, LeftFrames, SameFramesKeep
<1>4. /\ Len(st) \in 1 .. Len(st) /\ Len(st) \in Nat /\ e \in Frames(p) /\ FrameDone(p, e, ix, pl)
      /\ FrameOK(p, e)
  BY <1>1, <1>2, StackFacts DEF FramesDone, StackOK
<1>5. n \in 1 .. Len(st)
  BY <1>2, <1>4
<1>6. st[n] \in Frames(p) /\ FrameOK(p, st[n]) /\ FrameDone(p, st[n], ix, pl)
  BY <1>1, <1>5 DEF FramesDone, StackOK
<1>7. Grown(ix, ix, pl, pl)
  BY <1>1, SameIndex, NotGrown DEF Grown
<1>8. Awaited(p, st[n]) \in Indexed(p) \cup {Nil} => NamesIn(ix, i, Awaited(p, st[n]))
  <2>1. o \in DOMAIN p
    BY <1>4 DEF Frames
  <2>2. o # Nil
    BY <2>1, <1>1, ProgramFacts
  <2>3. o \in Indexed(p) => o \in DOMAIN ix
    BY <1>1, <1>4 DEF Registered, Indexed
  <2> QED
    BY <2>2, <2>3, <1>2 DEF NamesIn
<1> DEFINE g == st2[n]
           f == st[n]
<1>9. g.obj = f.obj /\ g.step = f.step /\ g.row = f.row /\ g.got = Append(f.got, i)
  BY SMTT(60), <1>2
<1> HIDE DEF f, g
<1>10. FrameDone(p, g, ix, pl)
  BY ZenonT(60), <1>1, <1>2, <1>6, <1>7, <1>8, <1>9, GivenFrame DEF f
<1>11. FramesDone(p, st2, ix, pl)
  BY <1>1, <1>2, <1>3, <1>7, <1>10, LowerFramesDone DEF g
<1>12. TablesDone(p, st2, ix, tb2, pl)
  <2> SUFFICES ASSUME NEW m \in DOMAIN ix, ~OnStack(m, st2)
               PROVE  RowDone(p, m, tb2[p[m].kind][ix[m] + 1], ix, pl)
    BY DEF TablesDone
  <2>1. CASE m = o
    <3>1. e.obj \in DOMAIN p /\ e.step \in Nat \ {0}
      BY <1>4 DEF Frames
    <3>2. StepsOK(p, p[e.obj], Script(p, e.obj))
      BY <3>1, <1>1, Scripts
    <3> HIDE DEF e
    <3>3. \A k \in 1 .. Len(Script(p, e.obj)) : k \in 1 .. e.step - 1
      BY <3>1, <3>2, <1>2 DEF Busy, StepsOK
    <3>4. RowDone(p, e.obj, e.row, ix, pl)
      BY <3>3, <1>4 DEF RowDone, FrameDone
    <3> QED
      BY <2>1, <3>4, <1>2
  <2>2. CASE m # o
    <3>1. ~OnStack(m, st)
      <4> SUFFICES ASSUME NEW k \in 1 .. Len(st), st[k].obj = m PROVE FALSE
        BY DEF OnStack
      <4>1. k # Len(st)
        BY <2>2
      <4>2. k \in 1 .. Len(st2)
        BY <4>1, <1>2, <1>4
      <4> QED
        BY <4>2, <1>3 DEF SameFrames, OnStack
    <3>2. tb2[p[m].kind][ix[m] + 1] = tb[p[m].kind][ix[m] + 1]
      BY <2>2, <1>2 DEF RowsKept
    <3> QED
      BY <3>1, <3>2, <1>1 DEF TablesDone
  <2> QED
    BY <2>1, <2>2
<1> QED
  BY <1>1, <1>2, <1>3, <1>11, <1>12 DEF Sound

-----------------------------------------------------------------------------
(* The invariant of the specification.                                     *)

\* The last action: the file is written, or there is no layout to write.
Finished ==
    /\ UNCHANGED <<prog, index, table, pool>> /\ stack # <<>> /\ stack' = <<>>
    /\ Len(stack) = 1 \/ ~prog["root"].layout

LEMMA Operations ==
    ASSUME Shape, Progress, Next
    PROVE  \/ Same /\ Taken(prog, stack, stack', index, pool, pool')
           \/ Same /\ \E i \in Nat : Passed(prog, stack, stack', i, index, pool, pool')
           \/ /\ prog' = prog /\ pool' = pool /\ file' = file /\ prog["root"].layout
              /\ Entered(prog, stack, stack', index, index', table, table')
           \/ /\ prog' = prog /\ pool' = pool /\ file' = file /\ index' = index
              /\ \E i \in Nat : Left(prog, stack, stack', i, index, table, table')
           \/ Finished
           \/ UNCHANGED vars
<1>1. CASE AddKnown
  BY <1>1, AddKnownPassed
<1>2. CASE AddNew
  BY <1>2, AddNewEntered DEF AddNew, Adding, Running
<1>3. CASE Return
  BY <1>3, ReturnLeft
<1>4. CASE SetRef
  BY <1>4, SetRefTaken
<1>5. CASE Ignore
  BY <1>5, IgnoreTaken
<1>6. CASE PushU32List
  BY <1>6, PushU32ListTaken
<1>7. CASE InternStr
  BY <1>7, InternStrTaken
<1>8. CASE AddModifiers
  BY <1>8, AddModifiersTaken
<1>9. CASE AddAttribute
  BY <1>9, AddAttributePassed
<1>10. CASE SetAttributes
  BY <1>10, SetAttributesTaken
<1>11. CASE MarkSlices
  BY <1>11, MarkSlicesTaken
<1>12. CASE AddBindingRange
  BY <1>12, AddBindingRangeTaken
<1>13. CASE AddDescriptorSet
  BY <1>13, AddDescriptorSetTaken
<1>14. CASE AddSubObjectRange
  BY <1>14, AddSubObjectRangeTaken
<1>15. CASE AddHashedStr
  BY <1>15, AddHashedStrTaken
<1>16. CASE WriteFile
  BY <1>16 DEF WriteFile, Finished, Running
<1>17. CASE NoLayout
  BY <1>17 DEF NoLayout, Finished
<1>18. CASE Done
  BY <1>18 DEF Done
<1> QED
  BY <1>1, <1>2, <1>3, <1>4, <1>5, <1>6, <1>7, <1>8, <1>9, <1>10, <1>11, <1>12, <1>13, <1>14, <1>15,
     <1>16, <1>17, <1>18 DEF Next

LEMMA SoundState ==
    Shape /\ Progress <=> /\ Sound(prog, stack, index, table, pool)
                          /\ file # NoFile => stack = <<>>
                          /\ prog["root"].layout \/ DOMAIN index = {}
BY DEF Shape, Progress, Sound, StackInv

LEMMA InitSound == Init => Shape /\ Progress
<1> SUFFICES ASSUME Init PROVE Shape /\ Progress
  OBVIOUS
<1> DEFINE f == Frame("root", Blank)
<1>1. prog \in Programs /\ stack = <<f>> /\ index = <<>> /\ file = NoFile
      /\ table = [k \in Kinds |-> <<>>] /\ pool = [q \in Pools |-> <<>>]
  BY DEF Init
<1>2. "root" \in DOMAIN prog
  BY <1>1, ProgramFacts
<1>3. f \in Frames(prog) /\ f.obj = "root" /\ f.step = 1 /\ f.got = <<>>
  BY <1>2, BlankRecord DEF Frame, Frames
<1> HIDE DEF f
<1>4. Len(stack) = 1 /\ stack \in Seq(Frames(prog)) /\ \A n \in 1 .. Len(stack) : n = 1 /\ stack[n] = f
  BY <1>1, <1>3
<1>5. FrameOK(prog, f)
  <2>1. StepsOK(prog, prog["root"], Script(prog, "root"))
    BY <1>1, <1>2, Scripts
  <2>2. ASSUME Busy(prog, f) PROVE 0 <= Len(StepOf(prog, f).to)
    <3>1. StepOf(prog, f) = Script(prog, "root")[1] /\ 1 \in 1 .. Len(Script(prog, "root"))
      BY <2>1, <2>2, <1>3 DEF Busy, StepOf, StepsOK
    <3>2. Script(prog, "root")[1].to \in Seq(Targets(prog))
      BY <3>1, <2>1 DEF StepsOK, StepOK
    <3> QED
      BY <3>1, <3>2
  <2> QED
    BY <2>1, <2>2, <1>3, EmptySeqs DEF FrameOK, StepsOK
<1>6. StackOK(prog, stack)
  BY <1>3, <1>4, <1>5 DEF StackOK
<1>7. Registered(prog, stack, index)
  BY <1>1, <1>3, <1>4, ProgramFacts DEF Registered
<1>8. OnceOnStack(stack) /\ PlainAbove(prog, stack)
  BY <1>4 DEF OnceOnStack, PlainAbove
<1>9. DOMAIN index = {}
  BY <1>1
<1>10. IndexOK(prog, index, table)
  BY <1>9 DEF IndexOK
<1>11. TablesOK(table) /\ PoolsOK(pool)
  BY <1>1, EmptySeqs DEF TablesOK, PoolsOK
<1>12. FramesDone(prog, stack, index, pool) /\ TablesDone(prog, stack, index, table, pool)
  BY <1>3, <1>4, <1>9, EmptySeqs DEF FramesDone, FrameDone, GotOK, TablesDone
<1> QED
  BY <1>1, <1>6, <1>7, <1>8, <1>9, <1>10, <1>11, <1>12 DEF Shape, Progress

\* Nothing is on an empty stack, and everything has been done.
LEMMA FinishedSound ==
    ASSUME NEW p, NEW st, NEW ix, NEW tb, NEW pl, Sound(p, st, ix, tb, pl), Len(st) = 1 \/ DOMAIN ix = {}
    PROVE  Sound(p, <<>>, ix, tb, pl)
<1> DEFINE e == <<>>
<1>1. /\ p \in Programs /\ StackOK(p, st) /\ IndexOK(p, ix, tb) /\ TablesOK(tb)
      /\ PoolsOK(pl) /\ TablesDone(p, st, ix, tb, pl)
  BY DEF Sound, StackInv
<1>2. e \in Seq(Frames(p)) /\ Len(e) = 0 /\ e = <<>>
  OBVIOUS
<1> HIDE DEF e
<1>3. StackInv(p, e, ix) /\ FramesDone(p, e, ix, pl)
  BY <1>2 DEF StackInv, StackOK, Registered, OnceOnStack, PlainAbove, FramesDone
<1>4. \A o \in DOMAIN ix : ~OnStack(o, st)
  <2> SUFFICES ASSUME NEW o \in DOMAIN ix, Len(st) = 1, NEW n \in 1 .. Len(st), st[n].obj = o PROVE FALSE
    BY DEF OnStack
  <2>1. n = 1 /\ st # <<>>
    BY EmptySeqs
  <2>2. o = "root"
    BY <2>1, <1>1 DEF StackOK
  <2> QED
    BY <2>2, <1>1, ProgramFacts DEF IndexOK, Indexed
<1>5. TablesDone(p, e, ix, tb, pl)
  BY <1>1, <1>4 DEF TablesDone
<1> QED
  BY <1>1, <1>3, <1>5 DEF Sound, e

LEMMA NextSound == Shape /\ Progress /\ [Next]_vars => Shape' /\ Progress'
<1> DEFINE S == /\ Sound(prog, stack, index, table, pool)
                /\ file # NoFile => stack = <<>>
                /\ prog["root"].layout \/ DOMAIN index = {}
<1>0. (Shape /\ Progress <=> S)'
  BY SoundState, PTL
<1> SUFFICES ASSUME Shape, Progress, [Next]_vars
             PROVE  /\ Sound(prog, stack, index, table, pool)'
                    /\ (file # NoFile)' => (stack = <<>>)'
                    /\ prog'["root"].layout \/ DOMAIN index' = {}
  BY <1>0
<1>1. Sound(prog, stack, index, table, pool) /\ (file # NoFile => stack = <<>>)
      /\ (prog["root"].layout \/ DOMAIN index = {})
  BY SoundState
<1>2. CASE UNCHANGED vars
  BY ZenonT(60), <1>1, <1>2 DEF vars, Sound, StackInv, StackOK, Registered, OnceOnStack, PlainAbove, FramesDone,
     FrameDone, TablesDone, IndexOK, TablesOK, PoolsOK
<1>3. CASE Next
  <2>1. CASE Same /\ Taken(prog, stack, stack', index, pool, pool')
    <3>1. Sound(prog, stack', index, table, pool') /\ stack # <<>>
      BY <2>1, <1>1, TakenSound DEF Taken
    <3> QED
      BY <2>1, <3>1, <1>1 DEF Same
  <2>2. CASE Same /\ \E i \in Nat : Passed(prog, stack, stack', i, index, pool, pool')
    <3>1. Sound(prog, stack', index, table, pool') /\ stack # <<>>
      BY <2>2, <1>1, PassedSound DEF Passed
    <3> QED
      BY <2>2, <3>1, <1>1 DEF Same
  <2>3. CASE /\ prog' = prog /\ pool' = pool /\ file' = file /\ prog["root"].layout
             /\ Entered(prog, stack, stack', index, index', table, table')
    <3>1. Sound(prog, stack', index', table', pool) /\ stack # <<>>
      BY <2>3, <1>1, EnteredSound DEF Entered
    <3> QED
      BY <2>3, <3>1, <1>1
  <2>4. CASE /\ prog' = prog /\ pool' = pool /\ file' = file /\ index' = index
             /\ \E i \in Nat : Left(prog, stack, stack', i, index, table, table')
    <3>1. Sound(prog, stack', index, table', pool) /\ stack # <<>>
      BY <2>4, <1>1, LeftSound DEF Left
    <3> QED
      BY <2>4, <3>1, <1>1
  <2>5. CASE Finished
    <3>1. Sound(prog, <<>>, index, table, pool)
      BY <2>5, <1>1, FinishedSound DEF Finished
    <3> QED
      BY <2>5, <3>1, <1>1 DEF Finished
  <2> QED
    BY <1>2, <1>3, <2>1, <2>2, <2>3, <2>4, <2>5, Operations
<1> QED
  BY <1>2, <1>3

LEMMA Invariant == Spec => [](Shape /\ Progress)
<1>1. Init => Shape /\ Progress
  BY InitSound
<1>2. Shape /\ Progress /\ [Next]_vars => (Shape /\ Progress)'
  BY NextSound
<1> QED
  BY <1>1, <1>2, PTL DEF Spec

\* The recursion over the object graph never enters an object that an addX
\* call below is still busy with: each object is registered in its map before
\* the addX calls for what it refers to.
THEOREM NeverReenters == Spec => []NoReentry
<1>1. Shape /\ Progress => NoReentry
  <2> SUFFICES ASSUME Shape PROVE NoReentry
    OBVIOUS
  <2>1. stack \in Seq(Frames(prog)) /\ OnceOnStack(stack)
    BY DEF Shape, StackOK
  <2>2. DOMAIN stack = 1 .. Len(stack)
    BY <2>1
  <2> QED
    BY <2>1, <2>2 DEF NoReentry, OnceOnStack
<1> QED
  BY <1>1, Invariant, PTL

-----------------------------------------------------------------------------
(* What the rows of the tables hold.                                       *)

\* A slice of the word pool lists xs; a slice of a pool is ws.
ListedIn(ix, pl, c, xs) ==
    c.count = Len(xs) /\ \A k \in DOMAIN xs : NamesIn(ix, pl["u32"][c.off + k], xs[k])
HeldIn(pl, q, c, ws) == SubSeq(pl[q], c.off + 1, c.off + c.count) = ws

\* The items ws are in s after the first n.
Follows(s, n, ws) ==
    (ws # <<>> => n + Len(ws) <= Len(s)) /\ \A k \in 1 .. Len(ws) : s[n + k] = ws[k]

LEMMA SliceIs ==
    \A S, s, ws, n :
      s \in Seq(S) /\ ws \in Seq(S) /\ n \in Nat /\ Follows(s, n, ws) => SubSeq(s, n + 1, n + Len(ws)) = ws
<1> SUFFICES ASSUME NEW S, NEW s \in Seq(S), NEW ws \in Seq(S), NEW n \in Nat, Follows(s, n, ws)
             PROVE  SubSeq(s, n + 1, n + Len(ws)) = ws
  OBVIOUS
<1> DEFINE t == SubSeq(s, n + 1, n + Len(ws))
<1>1. Len(ws) \in Nat /\ Len(s) \in Nat
  OBVIOUS
<1>2. CASE ws = <<>>
  BY <1>2
<1>3. CASE ws # <<>>
  <2>1. n + Len(ws) <= Len(s) /\ n + 1 \in 1 .. Len(s) + 1
    BY <1>1, <1>3 DEF Follows
  <2>2. t \in Seq(S) /\ Len(t) = Len(ws) /\ \A k \in 1 .. Len(ws) : t[k] = s[n + k]
    BY <1>1, <2>1
  <2>3. \A k \in 1 .. Len(ws) : t[k] = ws[k]
    BY <2>2 DEF Follows
  <2> HIDE DEF t
  <2>4. t = ws
    BY <2>2, <2>3
  <2> QED
    BY <2>4 DEF t
<1> QED
  BY <1>2, <1>3

LEMMA RefDone ==
    ASSUME NEW p, NEW o, NEW m, NEW row, NEW ix, NEW pl, StepDone(p, o, m, row, ix, pl),
           NEW f, NEW t, Script(p, o)[m] = Ref(f, t)
    PROVE  NamesIn(ix, row[f], t)
BY DEF StepDone, Ref, Step

\* Position i of the strings is x, or there is no x.
StringIs(ss, i, x) ==
    /\ x = Nil => i = Invalid
    /\ x # Nil => i \in Nat /\ i < Len(ss) /\ ss[i + 1] = x

LEMMA NameDone ==
    ASSUME NEW p, NEW o, NEW m, NEW row, NEW ix, NEW pl, StepDone(p, o, m, row, ix, pl),
           NEW f, NEW x, Script(p, o)[m] = Name(f, x)
    PROVE  StringIs(pl["string"], row[f], x)
<1> DEFINE s == Script(p, o)[m]
<1>1. s.op = "name" /\ s.field = f /\ s.data[1] = x
  BY DEF Name, Step
<1>2. s.op = "name" =>
        /\ s.data[1] = Nil => row[s.field] = Invalid
        /\ s.data[1] # Nil => /\ row[s.field] \in Nat /\ row[s.field] < Len(pl["string"])
                              /\ pl["string"][row[s.field] + 1] = s.data[1]
  BY DEF StepDone
<1> HIDE DEF s
<1> QED
  BY <1>1, <1>2 DEF StringIs

LEMMA ListDone ==
    ASSUME NEW p, NEW o, NEW m, NEW row, NEW ix, NEW pl, StepDone(p, o, m, row, ix, pl),
           NEW f, NEW ts, Len(ts) \in Nat, DOMAIN ts = 1 .. Len(ts), Script(p, o)[m] = List(f, ts)
    PROVE  ListedIn(ix, pl, row[f], ts)
<1> DEFINE s == Script(p, o)[m]
<1>1. s.op = "list" /\ s.field = f /\ s.to = ts /\ s.data = <<>>
  BY DEF List, Step
<1>2. s.op = "list" => /\ row[s.field].count = Len(s.to) + Len(s.data)
                       /\ \A k \in 1 .. Len(s.to) : NamesIn(ix, pl["u32"][row[s.field].off + k], s.to[k])
  BY DEF StepDone
<1> HIDE DEF s
<1> QED
  BY <1>1, <1>2, EmptySeqs DEF ListedIn

LEMMA WordsDone ==
    ASSUME NEW p, NEW o, NEW m, NEW row, NEW ix, NEW pl, PoolsOK(pl), StepDone(p, o, m, row, ix, pl),
           NEW f, NEW ws \in Seq(Nat), Script(p, o)[m] = Words(f, ws)
    PROVE  HeldIn(pl, "u32", row[f], ws)
<1> DEFINE s == Script(p, o)[m]
           c == row[f]
<1>1. s.op = "list" /\ s.field = f /\ s.to = <<>> /\ s.data = ws
  BY DEF Words, Step
<1>2. s.op = "list" =>
        /\ row[s.field] \in Slices /\ row[s.field].count = Len(s.to) + Len(s.data)
        /\ row[s.field].count > 0 => row[s.field].off + row[s.field].count <= Len(pl["u32"])
        /\ \A k \in 1 .. Len(s.data) : pl["u32"][row[s.field].off + Len(s.to) + k] = s.data[k]
  BY DEF StepDone
<1> HIDE DEF s
<1>3. Len(ws) \in Nat /\ pl["u32"] \in Seq(Nat) /\ (ws # <<>> => Len(ws) > 0)
  BY SMTT(60), ItemFacts DEF PoolsOK
<1>4. /\ c \in Slices /\ c.count = 0 + Len(ws)
      /\ c.count > 0 => c.off + c.count <= Len(pl["u32"])
      /\ \A k \in 1 .. Len(ws) : pl["u32"][c.off + 0 + k] = ws[k]
  BY <1>1, <1>2, EmptySeqs
<1>5. c.off \in Nat /\ c.count = Len(ws)
  BY <1>3, <1>4 DEF Slices
<1>6. \A k \in 1 .. Len(ws) : pl["u32"][c.off + k] = ws[k]
  BY SMTT(60), <1>4, <1>5
<1>7. Follows(pl["u32"], c.off, ws)
  BY <1>3, <1>4, <1>5, <1>6 DEF Follows
<1> HIDE DEF c
<1>8. SubSeq(pl["u32"], c.off + 1, c.off + Len(ws)) = ws
  BY <1>3, <1>5, <1>7, SliceIs
<1> QED
  BY <1>5, <1>8 DEF HeldIn, c

LEMMA ModsDone ==
    ASSUME NEW p, NEW o, NEW m, NEW row, NEW ix, NEW pl, PoolsOK(pl), StepDone(p, o, m, row, ix, pl),
           NEW ws \in Seq(Nat), Script(p, o)[m] = Mods(ws)
    PROVE  HeldIn(pl, "modifier", row["modifiers"], ws)
<1> DEFINE s == Script(p, o)[m]
           c == row["modifiers"]
<1>1. s.op = "mods" /\ s.field = "modifiers" /\ s.data = ws
  BY DEF Mods, Step
<1>2. s.op = "mods" =>
        /\ row[s.field] \in Slices /\ row[s.field].count = Len(s.data)
        /\ row[s.field].count > 0 => row[s.field].off + row[s.field].count <= Len(pl["modifier"])
        /\ \A k \in 1 .. Len(s.data) : pl["modifier"][row[s.field].off + k] = s.data[k]
  BY DEF StepDone
<1> HIDE DEF s
<1>3. Len(ws) \in Nat /\ pl["modifier"] \in Seq(Nat) /\ (ws # <<>> => Len(ws) > 0)
  BY SMTT(60), ItemFacts DEF PoolsOK
<1>4. /\ c \in Slices /\ c.count = Len(ws)
      /\ c.count > 0 => c.off + c.count <= Len(pl["modifier"])
      /\ \A k \in 1 .. Len(ws) : pl["modifier"][c.off + k] = ws[k]
  BY <1>1, <1>2
<1>5. c.off \in Nat
  BY <1>4 DEF Slices
<1>7. Follows(pl["modifier"], c.off, ws)
  BY <1>3, <1>4, <1>5 DEF Follows
<1> HIDE DEF c
<1>8. SubSeq(pl["modifier"], c.off + 1, c.off + Len(ws)) = ws
  BY <1>3, <1>5, <1>7, SliceIs
<1> QED
  BY <1>4, <1>8 DEF HeldIn, c

\* Where attributes and modifiers are taken from.
LEMMA AnnotatedOK ==
    ASSUME NEW p \in Programs, NEW k \in {"var", "func"}, NEW x \in Pointers(p, {k})
    PROVE  Annotated(p, x).mods \in Seq(Nat) /\ Annotated(p, x).attrs \in Seq(Attributes)
<1>1. CASE x = Nil
  BY <1>1, EmptySeqs DEF Annotated
<1>2. CASE x # Nil
  <2>1. x \in DOMAIN p /\ p[x].kind = k
    BY <1>2 DEF Pointers
  <2>2. Typed(p, p[x])
    BY <2>1, ProgramFacts
  <2>3. Modified(p[x])
    BY <2>1, <2>2 DEF Typed
  <2> QED
    BY <1>2, <2>3 DEF Modified, Attributes, Annotated
<1> QED
  BY <1>1, <1>2

LEMMA TypeRow ==
    ASSUME NEW p \in Programs, NEW o \in DOMAIN p, p[o].kind = "type", NEW r, NEW ix, NEW pl, PoolsOK(pl),
           RowDone(p, o, r, ix, pl)
    PROVE  LET x == p[o]
           IN  /\ StringIs(pl["string"], r.name, x.name)
               /\ ListedIn(ix, pl, r.fields, IF x.struct THEN x.fields ELSE <<>>)
               /\ NamesIn(ix, r.element, x.element)
               /\ NamesIn(ix, r.result, x.result)
<1> DEFINE x == p[o]
           fs == IF x.struct THEN x.fields ELSE <<>>
<1>1. x.kind = "type" /\ Typed(p, x)
  BY ProgramFacts
<1>2. Len(fs) \in Nat /\ DOMAIN fs = 1 .. Len(fs)
  BY <1>1, EmptySeqs DEF Typed
<1>3. Script(p, o) = <<Name("name", x.name), List("fields", fs), Ref("element", x.element), Ref("result", x.result)>>
  BY <1>1 DEF Script, AddType
<1> HIDE DEF fs
<1>4. /\ Script(p, o)[1] = Name("name", x.name)
      /\ Script(p, o)[2] = List("fields", fs)
      /\ Script(p, o)[3] = Ref("element", x.element)
      /\ Script(p, o)[4] = Ref("result", x.result)
      /\ Len(Script(p, o)) = 4
  BY <1>3
<1>5. \A m \in 1 .. 4 : StepDone(p, o, m, r, ix, pl)
  BY <1>4 DEF RowDone
<1>9. StringIs(pl["string"], r["name"], x.name)
  BY <1>4, <1>5, NameDone
<1>10. /\ NamesIn(ix, r["element"], x.element)
       /\ NamesIn(ix, r["result"], x.result)
  BY <1>4, <1>5, RefDone
<1>11. /\ ListedIn(ix, pl, r["fields"], fs)
  BY <1>4, <1>5, <1>2, ListDone
<1> QED
  BY <1>9, <1>10, <1>11 DEF fs

LEMMA VarRow ==
    ASSUME NEW p \in Programs, NEW o \in DOMAIN p, p[o].kind = "var", NEW r, NEW ix, NEW pl, PoolsOK(pl),
           RowDone(p, o, r, ix, pl)
    PROVE  LET x == p[o]
           IN  /\ StringIs(pl["string"], r.name, x.name)
               /\ NamesIn(ix, r.type, x.type)
               /\ HeldIn(pl, "modifier", r.modifiers, x.mods)
               /\ Script(p, o)[4] = Attrs(x.attrs) /\ 4 \in 1 .. Len(Script(p, o))
               /\ x.attrs \in Seq(Attributes)
               /\ NamesIn(ix, r.generic, x.generic)
<1> DEFINE x == p[o]
<1>1. x.kind = "var" /\ Typed(p, x)
  BY ProgramFacts
<1>2. x.mods \in Seq(Nat) /\ x.attrs \in Seq(Attributes)
  BY <1>1 DEF Typed, Modified, Attributes
<1>3. Script(p, o) = <<Name("name", x.name), Ref("type", x.type), Mods(x.mods), Attrs(x.attrs), Ref("generic", x.generic)>>
  BY <1>1 DEF Script, AddVariable
<1>4. /\ Script(p, o)[1] = Name("name", x.name)
      /\ Script(p, o)[2] = Ref("type", x.type)
      /\ Script(p, o)[3] = Mods(x.mods)
      /\ Script(p, o)[4] = Attrs(x.attrs)
      /\ Script(p, o)[5] = Ref("generic", x.generic)
      /\ Len(Script(p, o)) = 5
  BY <1>3
<1>5. \A m \in 1 .. 5 : StepDone(p, o, m, r, ix, pl)
  BY <1>4 DEF RowDone
<1>9. StringIs(pl["string"], r["name"], x.name)
  BY <1>4, <1>5, NameDone
<1>10. /\ NamesIn(ix, r["type"], x.type)
       /\ NamesIn(ix, r["generic"], x.generic)
  BY <1>4, <1>5, RefDone
<1>11. /\ HeldIn(pl, "modifier", r["modifiers"], x.mods)
  BY <1>4, <1>5, <1>2, ModsDone
<1>12. 4 \in 1 .. Len(Script(p, o))
  BY <1>4
<1> QED
  BY <1>2, <1>4, <1>9, <1>10, <1>11, <1>12

LEMMA FuncRow ==
    ASSUME NEW p \in Programs, NEW o \in DOMAIN p, p[o].kind = "func", NEW r, NEW ix, NEW pl, PoolsOK(pl),
           RowDone(p, o, r, ix, pl)
    PROVE  LET x == p[o]
           IN  /\ StringIs(pl["string"], r.name, x.name)
               /\ NamesIn(ix, r.result, x.result)
               /\ ListedIn(ix, pl, r.params, x.params)
               /\ HeldIn(pl, "modifier", r.modifiers, x.mods)
               /\ NamesIn(ix, r.generic, x.generic)
               /\ Script(p, o)[5] = Attrs(x.attrs) /\ 5 \in 1 .. Len(Script(p, o))
               /\ x.attrs \in Seq(Attributes)
<1> DEFINE x == p[o]
<1>1. x.kind = "func" /\ Typed(p, x)
  BY ProgramFacts
<1>2. Len(x.params) \in Nat /\ DOMAIN x.params = 1 .. Len(x.params)
  BY <1>1, EmptySeqs DEF Typed
<1>6. x.mods \in Seq(Nat) /\ x.attrs \in Seq(Attributes)
  BY <1>1 DEF Typed, Modified, Attributes
<1>3. Script(p, o) = <<Name("name", x.name), Ref("result", x.result), List("params", x.params), Mods(x.mods), Attrs(x.attrs), Ref("generic", x.generic)>>
  BY <1>1 DEF Script, AddFunction
<1>4. /\ Script(p, o)[1] = Name("name", x.name)
      /\ Script(p, o)[2] = Ref("result", x.result)
      /\ Script(p, o)[3] = List("params", x.params)
      /\ Script(p, o)[4] = Mods(x.mods)
      /\ Script(p, o)[5] = Attrs(x.attrs)
      /\ Script(p, o)[6] = Ref("generic", x.generic)
      /\ Len(Script(p, o)) = 6
  BY <1>3
<1>5. \A m \in 1 .. 6 : StepDone(p, o, m, r, ix, pl)
  BY <1>4 DEF RowDone
<1>9. StringIs(pl["string"], r["name"], x.name)
  BY <1>4, <1>5, NameDone
<1>10. /\ NamesIn(ix, r["result"], x.result)
       /\ NamesIn(ix, r["generic"], x.generic)
  BY <1>4, <1>5, RefDone
<1>11. /\ ListedIn(ix, pl, r["params"], x.params)
  BY <1>4, <1>5, <1>2, ListDone
<1>12. HeldIn(pl, "modifier", r["modifiers"], x.mods)
  BY <1>4, <1>5, <1>6, ModsDone
<1>13. 5 \in 1 .. Len(Script(p, o))
  BY <1>4
<1> QED
  BY <1>4, <1>6, <1>9, <1>10, <1>11, <1>12, <1>13

LEMMA GenericRow ==
    ASSUME NEW p \in Programs, NEW o \in DOMAIN p, p[o].kind = "generic", NEW r, NEW ix, NEW pl, PoolsOK(pl),
           RowDone(p, o, r, ix, pl)
    PROVE  LET x == p[o]
           IN  /\ StringIs(pl["string"], r.name, x.name)
               /\ ListedIn(ix, pl, r.typeParams, x.typeParams)
               /\ ListedIn(ix, pl, r.valueParams, x.valueParams)
               /\ ListedIn(ix, pl, r.constraints, x.constraints)
               /\ NamesIn(ix, r.outer, x.outer)
<1> DEFINE x == p[o]
<1>1. x.kind = "generic" /\ Typed(p, x)
  BY ProgramFacts
<1>2. Len(x.typeParams) \in Nat /\ DOMAIN x.typeParams = 1 .. Len(x.typeParams) /\ Len(x.valueParams) \in Nat /\ DOMAIN x.valueParams = 1 .. Len(x.valueParams) /\ Len(x.constraints) \in Nat /\ DOMAIN x.constraints = 1 .. Len(x.constraints)
  BY <1>1, EmptySeqs DEF Typed
<1>3. Script(p, o) = <<Name("name", x.name), List("typeParams", x.typeParams), List("valueParams", x.valueParams), List("constraints", x.constraints), Ref("outer", x.outer)>>
  BY <1>1 DEF Script, AddGeneric
<1>4. /\ Script(p, o)[1] = Name("name", x.name)
      /\ Script(p, o)[2] = List("typeParams", x.typeParams)
      /\ Script(p, o)[3] = List("valueParams", x.valueParams)
      /\ Script(p, o)[4] = List("constraints", x.constraints)
      /\ Script(p, o)[5] = Ref("outer", x.outer)
      /\ Len(Script(p, o)) = 5
  BY <1>3
<1>5. \A m \in 1 .. 5 : StepDone(p, o, m, r, ix, pl)
  BY <1>4 DEF RowDone
<1>9. StringIs(pl["string"], r["name"], x.name)
  BY <1>4, <1>5, NameDone
<1>10. /\ NamesIn(ix, r["outer"], x.outer)
  BY <1>4, <1>5, RefDone
<1>11. /\ ListedIn(ix, pl, r["typeParams"], x.typeParams)
       /\ ListedIn(ix, pl, r["valueParams"], x.valueParams)
       /\ ListedIn(ix, pl, r["constraints"], x.constraints)
  BY <1>4, <1>5, <1>2, ListDone
<1> QED
  BY <1>9, <1>10, <1>11

LEMMA DeclRow ==
    ASSUME NEW p \in Programs, NEW o \in DOMAIN p, p[o].kind = "decl", NEW r, NEW ix, NEW pl, PoolsOK(pl),
           RowDone(p, o, r, ix, pl)
    PROVE  LET x == p[o]
           IN  /\ StringIs(pl["string"], r.name, x.name)
               /\ NamesIn(ix, r.payload, x.payload)
               /\ ListedIn(ix, pl, r.children, x.children)
<1> DEFINE x == p[o]
<1>1. x.kind = "decl" /\ Typed(p, x)
  BY ProgramFacts
<1>2. Len(x.children) \in Nat /\ DOMAIN x.children = 1 .. Len(x.children)
  BY <1>1, EmptySeqs DEF Typed
<1>3. Script(p, o) = <<Name("name", x.name), Ref("payload", x.payload), List("children", x.children)>>
  BY <1>1 DEF Script, AddDecl
<1>4. /\ Script(p, o)[1] = Name("name", x.name)
      /\ Script(p, o)[2] = Ref("payload", x.payload)
      /\ Script(p, o)[3] = List("children", x.children)
      /\ Len(Script(p, o)) = 3
  BY <1>3
<1>5. \A m \in 1 .. 3 : StepDone(p, o, m, r, ix, pl)
  BY <1>4 DEF RowDone
<1>9. StringIs(pl["string"], r["name"], x.name)
  BY <1>4, <1>5, NameDone
<1>10. /\ NamesIn(ix, r["payload"], x.payload)
  BY <1>4, <1>5, RefDone
<1>11. /\ ListedIn(ix, pl, r["children"], x.children)
  BY <1>4, <1>5, <1>2, ListDone
<1> QED
  BY <1>9, <1>10, <1>11

LEMMA VarLayoutRow ==
    ASSUME NEW p \in Programs, NEW o \in DOMAIN p, p[o].kind = "varLayout", NEW r, NEW ix, NEW pl, PoolsOK(pl),
           RowDone(p, o, r, ix, pl)
    PROVE  LET x == p[o]
               a == Annotated(p, x.var)
           IN  /\ NamesIn(ix, r.var, x.var)
               /\ NamesIn(ix, r.typeLayout, x.typeLayout)
               /\ HeldIn(pl, "u32", r.offsets, x.offsets)
               /\ HeldIn(pl, "u32", r.spaces, x.spaces)
               /\ HeldIn(pl, "modifier", r.modifiers, a.mods)
               /\ Script(p, o)[6] = Attrs(a.attrs) /\ 6 \in 1 .. Len(Script(p, o))
               /\ a.attrs \in Seq(Attributes)
<1> DEFINE x == p[o]
           a == Annotated(p, x.var)
<1>1. x.kind = "varLayout" /\ Typed(p, x)
  BY ProgramFacts
<1>6. a.mods \in Seq(Nat) /\ a.attrs \in Seq(Attributes)
  <2>1. x.var \in Pointers(p, {"var"})
    BY <1>1 DEF Typed
  <2> QED
    BY <2>1, AnnotatedOK
<1>2. x.offsets \in Seq(Nat) /\ x.spaces \in Seq(Nat)
  BY <1>1, EmptySeqs DEF Typed
<1>3. Script(p, o) = <<Ref("var", x.var), Ref("typeLayout", x.typeLayout), Words("offsets", x.offsets), Words("spaces", x.spaces), Mods(a.mods), Attrs(a.attrs)>>
  BY <1>1 DEF Script, AddVarLayout
<1> HIDE DEF a
<1>4. /\ Script(p, o)[1] = Ref("var", x.var)
      /\ Script(p, o)[2] = Ref("typeLayout", x.typeLayout)
      /\ Script(p, o)[3] = Words("offsets", x.offsets)
      /\ Script(p, o)[4] = Words("spaces", x.spaces)
      /\ Script(p, o)[5] = Mods(a.mods)
      /\ Script(p, o)[6] = Attrs(a.attrs)
      /\ Len(Script(p, o)) = 6
  BY <1>3
<1>5. \A m \in 1 .. 6 : StepDone(p, o, m, r, ix, pl)
  BY <1>4 DEF RowDone
<1>10. /\ NamesIn(ix, r["var"], x.var)
       /\ NamesIn(ix, r["typeLayout"], x.typeLayout)
  BY <1>4, <1>5, RefDone
<1>11. /\ HeldIn(pl, "u32", r["offsets"], x.offsets)
       /\ HeldIn(pl, "u32", r["spaces"], x.spaces)
  BY <1>4, <1>5, <1>2, WordsDone
<1>12. HeldIn(pl, "modifier", r["modifiers"], a.mods)
  BY <1>4, <1>5, <1>6, ModsDone
<1>13. 6 \in 1 .. Len(Script(p, o))
  BY <1>4
<1> QED
  BY <1>4, <1>6, <1>10, <1>11, <1>12, <1>13 DEF a

LEMMA TypeLayoutRow ==
    ASSUME NEW p \in Programs, NEW o \in DOMAIN p, p[o].kind = "typeLayout", NEW r, NEW ix, NEW pl, PoolsOK(pl),
           RowDone(p, o, r, ix, pl)
    PROVE  LET x == p[o]
           IN  /\ NamesIn(ix, r.type, x.type)
               /\ HeldIn(pl, "u32", r.sizes, x.sizes)
               /\ ListedIn(ix, pl, r.fields, IF x.shape = "struct" THEN x.fields ELSE <<>>)
               /\ NamesIn(ix, r.container, x.container)
               /\ NamesIn(ix, r.elementLayout, x.element)
               /\ NamesIn(ix, r.elementVar, x.elementVar)
               /\ NamesIn(ix, r.counter, x.counter)
<1> DEFINE x == p[o]
           fs == IF x.shape = "struct" THEN x.fields ELSE <<>>
<1>1. x.kind = "typeLayout" /\ Typed(p, x)
  BY ProgramFacts
<1>2. x.sizes \in Seq(Nat) /\ Len(fs) \in Nat /\ DOMAIN fs = 1 .. Len(fs)
  BY <1>1, EmptySeqs DEF Typed
<1>3. LayoutRefs(x) = <<Ref("type", x.type), Words("sizes", x.sizes), List("fields", fs), Ref("container", x.container), Ref("elementLayout", x.element), Ref("elementVar", x.elementVar), Ref("counter", x.counter)>>
  BY DEF LayoutRefs
<1>8. /\ Len(Script(p, o)) \in Nat /\ Len(Script(p, o)) >= 8
      /\ \A i \in 1 .. 7 : Script(p, o)[i] = LayoutRefs(x)[i]
  <2>1. LayoutPositions(x, Script(p, o))
    BY <1>1, TypedLayout DEF IsLayout
  <2> HIDE DEF x
  <2> QED
    BY SMTT(60), <2>1 DEF LayoutPositions
<1> HIDE DEF fs
<1>4. /\ Script(p, o)[1] = Ref("type", x.type)
      /\ Script(p, o)[2] = Words("sizes", x.sizes)
      /\ Script(p, o)[3] = List("fields", fs)
      /\ Script(p, o)[4] = Ref("container", x.container)
      /\ Script(p, o)[5] = Ref("elementLayout", x.element)
      /\ Script(p, o)[6] = Ref("elementVar", x.elementVar)
      /\ Script(p, o)[7] = Ref("counter", x.counter)
  BY <1>3, <1>8
<1>5. \A m \in 1 .. 7 : StepDone(p, o, m, r, ix, pl)
  BY <1>8 DEF RowDone
<1>10. /\ NamesIn(ix, r["type"], x.type)
       /\ NamesIn(ix, r["container"], x.container)
       /\ NamesIn(ix, r["elementLayout"], x.element)
       /\ NamesIn(ix, r["elementVar"], x.elementVar)
       /\ NamesIn(ix, r["counter"], x.counter)
  BY <1>4, <1>5, RefDone
<1>11. /\ ListedIn(ix, pl, r["fields"], fs)
  BY SMTT(60), <1>4, <1>5, <1>2, ListDone
<1>12. /\ HeldIn(pl, "u32", r["sizes"], x.sizes)
  BY <1>4, <1>5, <1>2, WordsDone
<1> QED
  BY <1>10, <1>11, <1>12 DEF fs

-----------------------------------------------------------------------------
(* Where addTypeLayout is.                                                 *)

LEMMA LayoutSteps ==
    ASSUME NEW p \in Programs, NEW o \in DOMAIN p, IsLayout(p, o)
    PROVE  LayoutPositions(p[o], Script(p, o))
<1>1. p[o].kind = "typeLayout" /\ Typed(p, p[o])
  BY ProgramFacts DEF IsLayout
<1>2. Script(p, o) = AddTypeLayout(p[o])
  BY <1>1 DEF Script
<1> QED
  BY <1>1, <1>2, LayoutScript

LEMMA StepFields ==
    /\ \A x : Mark(x).op = "mark"
    /\ \A r : RangeStep(r).op = "range" /\ RangeStep(r).data = r
    /\ \A r : SetStep(r).op = "set" /\ SetStep(r).data = r /\ SetStep(r).to = <<>>
    /\ \A r : SubStep(r).op = "sub" /\ SubStep(r).data = r
BY DEF Mark, RangeStep, SetStep, SubStep, Step

\* The slices of a layout that has marked them.
SlicesMarked(p, o, row) ==
    /\ {"ranges", "sets", "subs"} \subseteq DOMAIN row
    /\ row["ranges"] \in Slices /\ row["ranges"].count = RangeCount(p[o]) /\ row["ranges"].off \in Nat
    /\ row["sets"] \in Slices /\ row["sets"].count = SetCount(p[o]) /\ row["sets"].off \in Nat
    /\ row["subs"] \in Slices /\ row["subs"].count = SubCount(p[o]) /\ row["subs"].off \in Nat

Counts(p, o) == RangeCount(p[o]) \in Nat /\ SetCount(p[o]) \in Nat /\ SubCount(p[o]) \in Nat

LEMMA MarkDone ==
    ASSUME NEW p \in Programs, NEW o \in DOMAIN p, IsLayout(p, o), NEW row, NEW ix, NEW pl,
           StepDone(p, o, 8, row, ix, pl)
    PROVE  SlicesMarked(p, o, row) /\ Counts(p, o)
<1>1. LayoutPositions(p[o], Script(p, o))
  BY LayoutSteps
<1>2. Script(p, o)[8] = Mark(p[o]) /\ Counts(p, o)
  BY <1>1 DEF LayoutPositions, Counts
<1>3. Script(p, o)[8].op = "mark"
  BY <1>2, StepFields
<1>4. /\ {"ranges", "sets", "subs"} \subseteq DOMAIN row
      /\ row["ranges"] \in Slices /\ row["ranges"].count = RangeCount(p[o])
      /\ row["sets"] \in Slices /\ row["sets"].count = SetCount(p[o])
      /\ row["subs"] \in Slices /\ row["subs"].count = SubCount(p[o])
  BY <1>3 DEF StepDone
<1>5. \A c \in Slices : c.off \in Nat
  BY DEF Slices
<1> QED
  BY <1>2, <1>4, <1>5 DEF SlicesMarked

LEMMA MarkedFacts ==
    ASSUME NEW p \in Programs, NEW f \in Frames(p), NEW ix, NEW pl, FrameOK(p, f),
           FrameDone(p, f, ix, pl), Marked(p, f)
    PROVE  SlicesMarked(p, f.obj, f.row) /\ Counts(p, f.obj) /\ f.obj \in DOMAIN p /\ f.step \in Nat
<1>1. f.obj \in DOMAIN p /\ f.step \in Nat /\ IsLayout(p, f.obj) /\ f.step > 8
  BY DEF Frames, Marked
<1>2. 8 \in 1 .. f.step - 1
  BY <1>1
<1>3. StepDone(p, f.obj, 8, f.row, ix, pl)
  BY <1>2 DEF FrameDone
<1> QED
  BY <1>1, <1>3, MarkDone

LEMMA RowMarked ==
    ASSUME NEW p \in Programs, NEW o \in DOMAIN p, IsLayout(p, o), NEW row, NEW ix, NEW pl,
           RowDone(p, o, row, ix, pl)
    PROVE  SlicesMarked(p, o, row) /\ Counts(p, o)
<1>1. LayoutPositions(p[o], Script(p, o))
  BY LayoutSteps
<1>2. 8 \in 1 .. Len(Script(p, o))
  BY SMTT(60), <1>1 DEF LayoutPositions
<1>3. StepDone(p, o, 8, row, ix, pl)
  BY <1>2 DEF RowDone
<1> QED
  BY <1>3, MarkDone

\* The next step of a layout.
Phases(p, f) ==
    LET x == p[f.obj]
        s == StepOf(p, f)
    IN  /\ f.step < 8 => s.op \in {"ref", "list"}
        /\ f.step = 8 => s.op = "mark"
        /\ f.step > 8 /\ RangesIn(p, f) < RangeCount(x) =>
             s.op = "range" /\ s.data = x.ranges[RangesIn(p, f) + 1]
        /\ RangesIn(p, f) >= RangeCount(x) /\ SetsIn(p, f) < SetCount(x) =>
             s.op = "set" /\ s.data = x.sets[SetsIn(p, f) + 1] /\ s.to = <<>>
        /\ SetsIn(p, f) >= SetCount(x) =>
             /\ s.op = "sub" /\ s.data = x.subs[SubsIn(p, f) + 1]
             /\ SubsIn(p, f) < SubCount(x)

LEMMA LayoutPhases ==
    ASSUME NEW p \in Programs, NEW f \in Frames(p), Busy(p, f), IsLayout(p, f.obj)
    PROVE  Phases(p, f) /\ Counts(p, f.obj)
<1> DEFINE x  == p[f.obj]
           sc == Script(p, f.obj)
           k  == f.step
           r  == RangeCount(x)
           s  == SetCount(x)
           b  == SubCount(x)
<1>1. f.obj \in DOMAIN p /\ k \in Nat \ {0}
  BY DEF Frames
<1>2. LayoutPositions(x, sc)
  BY <1>1, LayoutSteps
<1>3. /\ r \in Nat /\ s \in Nat /\ b \in Nat /\ Len(sc) = 8 + r + s + b
      /\ \A i \in 1 .. 7 : sc[i].op \in {"ref", "list"}
      /\ sc[8].op = "mark"
  BY SMTT(60), <1>2, StepFields DEF LayoutPositions
<1>20. /\ \A j \in 1 .. r : sc[8 + j] = RangeStep(x.ranges[j])
       /\ \A j \in 1 .. s : sc[8 + r + j] = SetStep(x.sets[j])
       /\ \A j \in 1 .. b : sc[8 + r + s + j] = SubStep(x.subs[j])
  BY <1>2 DEF LayoutPositions
<1>4. /\ \A j \in 1 .. r : sc[8 + j].op = "range" /\ sc[8 + j].data = x.ranges[j]
      /\ \A j \in 1 .. s : sc[8 + r + j].op = "set" /\ sc[8 + r + j].data = x.sets[j] /\ sc[8 + r + j].to = <<>>
      /\ \A j \in 1 .. b : sc[8 + r + s + j].op = "sub" /\ sc[8 + r + s + j].data = x.subs[j]
  <2> HIDE DEF sc, x, r, s, b
  <2> QED
    BY <1>20, StepFields
<1>5. StepOf(p, f) = sc[k] /\ k <= Len(sc)
  BY DEF StepOf, Busy
<1>6. RangesIn(p, f) = k - 9 /\ SetsIn(p, f) = k - 9 - r /\ SubsIn(p, f) = k - 9 - r - s
  BY DEF RangesIn, SetsIn, SubsIn
<1>7. Counts(p, f.obj)
  BY <1>3 DEF Counts
<1>8. Phases(p, f) <=>
        /\ k < 8 => sc[k].op \in {"ref", "list"}
        /\ k = 8 => sc[k].op = "mark"
        /\ k > 8 /\ k - 9 < r => sc[k].op = "range" /\ sc[k].data = x.ranges[k - 9 + 1]
        /\ k - 9 >= r /\ k - 9 - r < s =>
             sc[k].op = "set" /\ sc[k].data = x.sets[k - 9 - r + 1] /\ sc[k].to = <<>>
        /\ k - 9 - r >= s =>
             /\ sc[k].op = "sub" /\ sc[k].data = x.subs[k - 9 - r - s + 1]
             /\ k - 9 - r - s < b
  BY <1>5, <1>6 DEF Phases
<1> HIDE DEF sc, k, r, s, b, x
<1>9. k < 8 => k \in 1 .. 7
  BY <1>1
<1>10. k > 8 /\ k - 9 < r => sc[k].op = "range" /\ sc[k].data = x.ranges[k - 9 + 1]
  <2> SUFFICES ASSUME k > 8, k - 9 < r PROVE sc[k].op = "range" /\ sc[k].data = x.ranges[k - 9 + 1]
    OBVIOUS
  <2>1. k - 9 + 1 \in 1 .. r /\ 8 + (k - 9 + 1) = k
    BY <1>1, <1>3
  <2> QED
    BY <2>1, <1>4
<1>11. k - 9 >= r /\ k - 9 - r < s =>
         sc[k].op = "set" /\ sc[k].data = x.sets[k - 9 - r + 1] /\ sc[k].to = <<>>
  <2> SUFFICES ASSUME k - 9 >= r, k - 9 - r < s
               PROVE  sc[k].op = "set" /\ sc[k].data = x.sets[k - 9 - r + 1] /\ sc[k].to = <<>>
    OBVIOUS
  <2>1. k - 9 - r + 1 \in 1 .. s /\ 8 + r + (k - 9 - r + 1) = k
    BY <1>1, <1>3
  <2> QED
    BY <2>1, <1>4
<1>12. k - 9 - r >= s => /\ sc[k].op = "sub" /\ sc[k].data = x.subs[k - 9 - r - s + 1]
                         /\ k - 9 - r - s < b
  <2> SUFFICES ASSUME k - 9 - r >= s
               PROVE  /\ sc[k].op = "sub" /\ sc[k].data = x.subs[k - 9 - r - s + 1]
                      /\ k - 9 - r - s < b
    OBVIOUS
  <2>1. k - 9 - r - s + 1 \in 1 .. b /\ 8 + r + s + (k - 9 - r - s + 1) = k /\ k - 9 - r - s < b
    BY <1>1, <1>3, <1>5
  <2> QED
    BY <2>1, <1>4
<1> QED
  BY <1>3, <1>7, <1>8, <1>9, <1>10, <1>11, <1>12

-----------------------------------------------------------------------------
(* The binding tables are kept.                                            *)

BindingPools == {"bindingRange", "descriptorSet", "descriptorRange", "subObjectRange"}
BindingsSame(pl, pl2) == \A q \in BindingPools : pl2[q] = pl[q]

\* What RangeDone, SetDone and SubDone say of sequences.
LEMMA Kept ==
    ASSUME NEW s, NEW t, Extends(s, t), Len(s) \in Nat, Len(t) \in Nat, NEW n \in Nat, NEW k \in Nat \ {0},
           n + k <= Len(s)
    PROVE  n + k <= Len(t) /\ t[n + k] = s[n + k]
BY DEF Extends

LEMMA PoolKept ==
    \A ix, ix2, pl, pl2, q :
      Grown(ix, ix2, pl, pl2) /\ q \in Pools =>
        /\ Extends(pl[q], pl2[q]) /\ Len(pl[q]) \in Nat /\ Len(pl2[q]) \in Nat
        /\ pl[q] \in Seq(Items(q)) /\ pl2[q] \in Seq(Items(q)) /\ IndexGrown(ix, ix2)
BY SMTT(60) DEF Grown, PoolsOK, PoolGrown

LEMMA RangeDoneKept ==
    ASSUME NEW p, NEW o, NEW k \in Nat \ {0}, NEW row, row["ranges"].off \in Nat,
           NEW ix, NEW ix2, NEW pl, NEW pl2, Grown(ix, ix2, pl, pl2), RangeDone(p, o, k, row, ix, pl)
    PROVE  RangeDone(p, o, k, row, ix2, pl2)
<1> DEFINE s == pl["bindingRange"]
           t == pl2["bindingRange"]
           n == row["ranges"].off
<1>1. Extends(s, t) /\ Len(s) \in Nat /\ Len(t) \in Nat /\ IndexGrown(ix, ix2)
  BY ItemFacts, PoolKept
<1>2. n + k <= Len(s) /\ s[n + k].type = p[o].ranges[k].type /\ NamesIn(ix, s[n + k].var, p[o].ranges[k].var)
      /\ (s[n + k].leaf = Invalid \/ NamesIn(ix, s[n + k].leaf, p[o].ranges[k].leaf))
  BY DEF RangeDone
<1> HIDE DEF s, t
<1>3. n + k <= Len(t) /\ t[n + k] = s[n + k]
  BY <1>1, <1>2, Kept
<1>4. NamesIn(ix2, t[n + k].var, p[o].ranges[k].var)
      /\ (t[n + k].leaf = Invalid \/ NamesIn(ix2, t[n + k].leaf, p[o].ranges[k].leaf))
  BY SMTT(60), <1>1, <1>2, <1>3, NamesKept
<1> QED
  BY <1>2, <1>3, <1>4 DEF RangeDone, t

LEMMA SubDoneKept ==
    ASSUME NEW p, NEW o, NEW k \in Nat \ {0}, NEW row, row["subs"].off \in Nat,
           NEW ix, NEW ix2, NEW pl, NEW pl2, Grown(ix, ix2, pl, pl2), SubDone(p, o, k, row, ix, pl)
    PROVE  SubDone(p, o, k, row, ix2, pl2)
<1> DEFINE s == pl["subObjectRange"]
           t == pl2["subObjectRange"]
           n == row["subs"].off
<1>1. Extends(s, t) /\ Len(s) \in Nat /\ Len(t) \in Nat /\ IndexGrown(ix, ix2)
  BY ItemFacts, PoolKept
<1>2. n + k <= Len(s) /\ s[n + k].range = p[o].subs[k].range /\ NamesIn(ix, s[n + k].offset, p[o].subs[k].offset)
  BY DEF SubDone
<1> HIDE DEF s, t
<1>3. n + k <= Len(t) /\ t[n + k] = s[n + k]
  BY <1>1, <1>2, Kept
<1>4. NamesIn(ix2, t[n + k].offset, p[o].subs[k].offset)
  BY SMTT(60), <1>1, <1>2, <1>3, NamesKept
<1> QED
  BY <1>2, <1>3, <1>4 DEF SubDone, t

LEMMA SetDoneKept ==
    ASSUME NEW p, NEW o, NEW k \in Nat \ {0}, NEW row, row["sets"].off \in Nat,
           NEW ix, NEW ix2, NEW pl, NEW pl2, Grown(ix, ix2, pl, pl2), SetDone(p, o, k, row, pl)
    PROVE  SetDone(p, o, k, row, pl2)
<1> DEFINE s == pl["descriptorSet"]
           t == pl2["descriptorSet"]
           u == pl["descriptorRange"]
           v == pl2["descriptorRange"]
           n == row["sets"].off
           d == p[o].sets[k]
<1>1. /\ Extends(s, t) /\ Len(s) \in Nat /\ Len(t) \in Nat /\ s \in Seq(Slices)
      /\ Extends(u, v) /\ Len(u) \in Nat /\ Len(v) \in Nat
  BY SMTT(60), ItemFacts, PoolKept
<1>2. /\ n + k <= Len(s) /\ s[n + k].count = Len(d) /\ s[n + k].off + s[n + k].count <= Len(u)
      /\ \A i \in 1 .. Len(d) : u[s[n + k].off + i] = d[i]
  BY DEF SetDone
<1> HIDE DEF s, t, u, v, d
<1>3. n + k <= Len(t) /\ t[n + k] = s[n + k]
  BY SMTT(60), <1>1, <1>2, Kept
<1>4. n + k \in 1 .. Len(s)
  BY SMTT(60), <1>1, <1>2
<1> DEFINE b == s[n + k]
           L == Len(d)
           m == b.off
<1>5. b \in Slices
  BY SMTT(60), <1>1, <1>4
<1>6. m \in Nat /\ L \in Nat /\ b.count = L
  BY <1>2, <1>5 DEF Slices
<1>10. m + L <= Len(u)
  BY <1>2, <1>6
<1> HIDE DEF b, L, m
<1>8. \A i \in 1 .. L : v[m + i] = u[m + i]
  <2> TAKE i \in 1 .. L
  <2>1. m + i \in 1 .. Len(u)
    BY <1>1, <1>6, <1>10
  <2> QED
    BY <2>1, <1>1 DEF Extends
<1>9. m + L <= Len(v)
  BY <1>1, <1>6, <1>10 DEF Extends
<1> QED
  BY <1>2, <1>3, <1>6, <1>8, <1>9 DEF SetDone, t, v, d, b, L, m

-----------------------------------------------------------------------------
(* The frames of layouts, when a step is taken.                            *)

\* What BindingFrame says, for a layout o at a step, with its row.
LEMMA BindingFrameKept ==
    ASSUME NEW p \in Programs, NEW f \in Frames(p), FrameOK(p, f), NEW ix, NEW ix2, NEW pl, NEW pl2,
           FrameDone(p, f, ix, pl), BindingFrame(p, f, ix, pl), Grown(ix, ix2, pl, pl2),
           Marked(p, f) => SubsIn(p, f) >= 0 \/ BindingsSame(pl, pl2),
           NEW g, g.obj = f.obj, g.step = f.step, g.row = f.row
    PROVE  BindingFrame(p, g, ix2, pl2)
<1>1. /\ Marked(p, g) <=> Marked(p, f)
      /\ RangesIn(p, g) = RangesIn(p, f) /\ SetsIn(p, g) = SetsIn(p, f) /\ SubsIn(p, g) = SubsIn(p, f)
  BY DEF Marked, RangesIn, SetsIn, SubsIn
<1> SUFFICES ASSUME Marked(p, f) PROVE BindingFrame(p, g, ix2, pl2)
  BY <1>1 DEF BindingFrame
<1>2. SlicesMarked(p, f.obj, f.row) /\ Counts(p, f.obj) /\ f.step \in Nat
  BY MarkedFacts
<1>3. /\ f.row["ranges"].off \in Nat /\ f.row["sets"].off \in Nat /\ f.row["subs"].off \in Nat
      /\ RangeCount(p[f.obj]) \in Nat /\ SetCount(p[f.obj]) \in Nat /\ SubCount(p[f.obj]) \in Nat
  BY <1>2 DEF SlicesMarked, Counts
<1>4. /\ Undisturbed(p, f, pl) /\ f.row["subs"].off <= Len(pl["subObjectRange"])
      /\ \A k \in 1 .. RangeCount(p[f.obj]) : k <= RangesIn(p, f) => RangeDone(p, f.obj, k, f.row, ix, pl)
      /\ \A k \in 1 .. SetCount(p[f.obj]) : k <= SetsIn(p, f) => SetDone(p, f.obj, k, f.row, pl)
  BY DEF BindingFrame
<1>5. Undisturbed(p, f, pl2)
  <2>1. CASE SubsIn(p, f) >= 0
    <3>1. RangesIn(p, f) = f.step - 9 /\ SetsIn(p, f) = RangesIn(p, f) - RangeCount(p[f.obj])
          /\ SubsIn(p, f) = SetsIn(p, f) - SetCount(p[f.obj])
      BY DEF RangesIn, SetsIn, SubsIn
    <3>2. ~(RangesIn(p, f) < RangeCount(p[f.obj])) /\ ~(SetsIn(p, f) < SetCount(p[f.obj])) /\ ~(SubsIn(p, f) < 0)
      BY <2>1, <3>1, <1>2, <1>3
    <3> QED
      BY <3>2 DEF Undisturbed
  <2>2. CASE BindingsSame(pl, pl2)
    BY <2>2, <1>4 DEF BindingsSame, BindingPools, Undisturbed
  <2> QED
    BY <2>1, <2>2
<1>6. Undisturbed(p, g, pl2)
  BY <1>1, <1>5 DEF Undisturbed
<1>7. f.row["subs"].off <= Len(pl2["subObjectRange"])
  <2>1. Extends(pl["subObjectRange"], pl2["subObjectRange"]) /\ Len(pl["subObjectRange"]) \in Nat
        /\ Len(pl2["subObjectRange"]) \in Nat
    BY PoolKept, ItemFacts
  <2> QED
    BY SMTT(60), <2>1, <1>3, <1>4 DEF Extends
<1>8. \A k \in 1 .. RangeCount(p[f.obj]) : k <= RangesIn(p, f) => RangeDone(p, f.obj, k, f.row, ix2, pl2)
  <2> SUFFICES ASSUME NEW k \in 1 .. RangeCount(p[f.obj]), k <= RangesIn(p, f)
               PROVE  RangeDone(p, f.obj, k, f.row, ix2, pl2)
    OBVIOUS
  <2>1. k \in Nat \ {0} /\ RangeDone(p, f.obj, k, f.row, ix, pl)
    BY <1>3, <1>4
  <2> QED
    BY <2>1, <1>3, RangeDoneKept
<1>9. \A k \in 1 .. SetCount(p[f.obj]) : k <= SetsIn(p, f) => SetDone(p, f.obj, k, f.row, pl2)
  <2> SUFFICES ASSUME NEW k \in 1 .. SetCount(p[f.obj]), k <= SetsIn(p, f)
               PROVE  SetDone(p, f.obj, k, f.row, pl2)
    OBVIOUS
  <2>1. k \in Nat \ {0} /\ SetDone(p, f.obj, k, f.row, pl)
    BY <1>3, <1>4
  <2> QED
    BY <2>1, <1>3, SetDoneKept
<1> QED
  BY <1>1, <1>6, <1>7, <1>8, <1>9 DEF BindingFrame

LEMMA BindingRowKept ==
    ASSUME NEW p \in Programs, NEW o \in DOMAIN p, IsLayout(p, o), NEW row,
           NEW ix, NEW ix2, NEW pl, NEW pl2, RowDone(p, o, row, ix, pl),
           BindingRow(p, o, row, ix, pl), Grown(ix, ix2, pl, pl2)
    PROVE  BindingRow(p, o, row, ix2, pl2)
<1>1. SlicesMarked(p, o, row) /\ Counts(p, o)
  BY RowMarked
<1>3. /\ row["ranges"].off \in Nat /\ row["sets"].off \in Nat /\ row["subs"].off \in Nat
      /\ RangeCount(p[o]) \in Nat /\ SetCount(p[o]) \in Nat /\ SubCount(p[o]) \in Nat
  BY <1>1 DEF SlicesMarked, Counts
<1>7. row["subs"].off <= Len(pl2["subObjectRange"])
  <2>1. Extends(pl["subObjectRange"], pl2["subObjectRange"]) /\ Len(pl["subObjectRange"]) \in Nat
        /\ Len(pl2["subObjectRange"]) \in Nat
    BY PoolKept, ItemFacts
  <2> QED
    BY <2>1, <1>3 DEF Extends, BindingRow
<1>8. ASSUME NEW k \in 1 .. RangeCount(p[o]) PROVE RangeDone(p, o, k, row, ix2, pl2)
  <2>1. k \in Nat \ {0} /\ RangeDone(p, o, k, row, ix, pl)
    BY <1>3 DEF BindingRow
  <2> QED
    BY <2>1, <1>3, RangeDoneKept
<1>9. ASSUME NEW k \in 1 .. SetCount(p[o]) PROVE SetDone(p, o, k, row, pl2)
  <2>1. k \in Nat \ {0} /\ SetDone(p, o, k, row, pl)
    BY <1>3 DEF BindingRow
  <2> QED
    BY <2>1, <1>3, SetDoneKept
<1> QED
  BY <1>7, <1>8, <1>9 DEF BindingRow

\* A frame below the top waits, so that it is at a step that adds objects: a
\* binding range, below which there are no layouts, or a sub-object.
LEMMA LowerCalm ==
    ASSUME NEW p \in Programs, NEW st, NEW ix, StackInv(p, st, ix), NEW n \in 1 .. Len(st) - 1,
           Marked(p, st[n])
    PROVE  /\ Busy(p, st[n]) /\ RangesIn(p, st[n]) >= 0
           /\ \/ SubsIn(p, st[n]) >= 0 /\ SubsIn(p, st[n]) < SubCount(p[st[n].obj])
              \/ RangesIn(p, st[n]) < RangeCount(p[st[n].obj]) /\ p[st[Len(st)].obj].kind \in Plain
<1> DEFINE f == st[n]
           x == p[f.obj]
<1>1. Len(st) \in Nat /\ n \in 1 .. Len(st) /\ Len(st) \in 1 .. Len(st) /\ n < Len(st)
  BY DEF StackInv, StackOK
<1>2. f \in Frames(p) /\ Waits(p, f) /\ PlainAbove(p, st)
  BY <1>1 DEF StackInv, StackOK
<1>3. Busy(p, f) /\ Len(f.got) < Len(StepOf(p, f).to) /\ IsLayout(p, f.obj) /\ f.step > 8
      /\ f.step \in Nat /\ Len(f.got) \in Nat
  BY <1>2 DEF Waits, Marked, Frames
<1> HIDE DEF f
<1>4. Phases(p, f) /\ Counts(p, f.obj)
  BY <1>2, <1>3, LayoutPhases
<1>5. RangesIn(p, f) = f.step - 9 /\ SetsIn(p, f) = RangesIn(p, f) - RangeCount(x)
      /\ SubsIn(p, f) = SetsIn(p, f) - SetCount(x)
  BY DEF RangesIn, SetsIn, SubsIn
<1>6. RangeCount(x) \in Nat /\ SetCount(x) \in Nat /\ SubCount(x) \in Nat
  BY <1>4 DEF Counts
<1>7. CASE RangesIn(p, f) < RangeCount(x)
  <2>1. StepOf(p, f).op = "range"
    BY <1>3, <1>4, <1>7 DEF Phases
  <2>2. KeepsLayoutsAway(p, st[n])
    BY <2>1, <1>3 DEF KeepsLayoutsAway, f
  <2>3. p[st[Len(st)].obj].kind \in Plain
    BY <2>2, <1>1, <1>2 DEF PlainAbove
  <2> QED
    BY <2>3, <1>3, <1>5, <1>7 DEF f
<1>8. CASE RangesIn(p, f) >= RangeCount(x) /\ SetsIn(p, f) < SetCount(x)
  <2>1. StepOf(p, f).to = <<>>
    BY <1>4, <1>8 DEF Phases
  <2> QED
    BY <2>1, <1>3, EmptySeqs
<1>9. CASE SetsIn(p, f) >= SetCount(x)
  <2>1. SubsIn(p, f) < SubCount(x)
    BY <1>4, <1>9 DEF Phases
  <2> QED
    BY SMTT(60), <2>1, <1>3, <1>5, <1>6, <1>9 DEF f
<1>10. RangesIn(p, f) < RangeCount(x) \/ RangesIn(p, f) >= RangeCount(x)
  BY SMTT(60), <1>3, <1>5, <1>6
<1>11. SetsIn(p, f) < SetCount(x) \/ SetsIn(p, f) >= SetCount(x)
  BY SMTT(60), <1>3, <1>5, <1>6
<1> QED
  BY <1>7, <1>8, <1>9, <1>10, <1>11

\* The steps of other objects than layouts leave the binding tables alone.
LEMMA OthersCalm ==
    ASSUME NEW p \in Programs, NEW f \in Frames(p), Busy(p, f), ~IsLayout(p, f.obj),
           NEW row, NEW ix, NEW pl, NEW pl2, Effect(p, f, row, ix, pl, pl2)
    PROVE  BindingsSame(pl, pl2)
<1>1. f.obj \in DOMAIN p /\ f.step \in Nat \ {0}
  BY DEF Frames
<1>2. StepsOK(p, p[f.obj], Script(p, f.obj))
  BY <1>1, Scripts
<1>3. StepOK(p, p[f.obj], StepOf(p, f))
  BY <1>1, <1>2 DEF StepsOK, Busy, StepOf
<1>4. StepOf(p, f).op \notin {"range", "set", "sub"}
  BY <1>3 DEF StepOK, IsLayout
<1>5. BindingEffect(StepOf(p, f), f.got, row, ix, pl, pl2)
  BY SMTT(60) DEF Effect
<1> HIDE DEF Effect
<1> QED
  BY <1>4, <1>5 DEF BindingEffect, BindingsSame, BindingPools

-----------------------------------------------------------------------------
(* The frame of a layout that takes a step.                                *)

SlicesSame(row, row2) ==
    row2["ranges"] = row["ranges"] /\ row2["sets"] = row["sets"] /\ row2["subs"] = row["subs"]

LEMMA SameSlices ==
    ASSUME NEW p, NEW o, NEW row, NEW row2, SlicesSame(row, row2)
    PROVE  /\ \A k, ix, pl : RangeDone(p, o, k, row, ix, pl) => RangeDone(p, o, k, row2, ix, pl)
           /\ \A k, pl : SetDone(p, o, k, row, pl) => SetDone(p, o, k, row2, pl)
           /\ \A k, ix, pl : SubDone(p, o, k, row, ix, pl) => SubDone(p, o, k, row2, ix, pl)
<1>1. row2["ranges"] = row["ranges"] /\ row2["sets"] = row["sets"] /\ row2["subs"] = row["subs"]
  BY DEF SlicesSame
<1>2. ASSUME NEW k, NEW ix, NEW pl, RangeDone(p, o, k, row, ix, pl)
      PROVE  RangeDone(p, o, k, row2, ix, pl)
  BY ZenonT(60), <1>1, <1>2 DEF RangeDone
<1>3. ASSUME NEW k, NEW pl, SetDone(p, o, k, row, pl)
      PROVE  SetDone(p, o, k, row2, pl)
  BY ZenonT(60), <1>1, <1>3 DEF SetDone
<1>4. ASSUME NEW k, NEW ix, NEW pl, SubDone(p, o, k, row, ix, pl)
      PROVE  SubDone(p, o, k, row2, ix, pl)
  BY ZenonT(60), <1>1, <1>4 DEF SubDone
<1> QED
  BY <1>2, <1>3, <1>4

\* A layout that has marked its slices keeps them.
LEMMA SlicesKept ==
    ASSUME NEW p \in Programs, NEW f \in Frames(p), Busy(p, f), FrameOK(p, f), Marked(p, f),
           NEW ix, NEW pl, NEW pl2, NEW row, FrameDone(p, f, ix, pl), Effect(p, f, row, ix, pl, pl2)
    PROVE  SlicesSame(f.row, row)
<1>1. SlicesMarked(p, f.obj, f.row) /\ Counts(p, f.obj) /\ f.step \in Nat
  BY MarkedFacts
<1>2. Phases(p, f) /\ IsLayout(p, f.obj) /\ f.step > 8
  BY LayoutPhases DEF Marked
<1>3. RangesIn(p, f) = f.step - 9 /\ SetsIn(p, f) = RangesIn(p, f) - RangeCount(p[f.obj])
  BY DEF RangesIn, SetsIn
<1>4. RangeCount(p[f.obj]) \in Nat /\ SetCount(p[f.obj]) \in Nat
  BY <1>1 DEF Counts
<1>5. \/ RangesIn(p, f) < RangeCount(p[f.obj])
      \/ RangesIn(p, f) >= RangeCount(p[f.obj]) /\ SetsIn(p, f) < SetCount(p[f.obj])
      \/ SetsIn(p, f) >= SetCount(p[f.obj])
  BY <1>1, <1>3, <1>4
<1>6. StepOf(p, f).op \in {"range", "set", "sub"}
  BY <1>2, <1>5 DEF Phases
<1>7. Assigns(StepOf(p, f)) = {}
  BY <1>6 DEF Assigns
<1>8. \A g \in DOMAIN f.row : row[g] = f.row[g]
  BY <1>7 DEF Effect
<1> QED
  BY <1>1, <1>8 DEF SlicesMarked, SlicesSame

\* Which of its tables a layout has grown.
LEMMA BindingFrameTaken ==
    ASSUME NEW p \in Programs, NEW f \in Frames(p), Busy(p, f), FrameOK(p, f),
           NEW ix, NEW pl, NEW pl2, NEW row, PoolsOK(pl), FrameDone(p, f, ix, pl),
           BindingFrame(p, f, ix, pl), Effect(p, f, row, ix, pl, pl2),
           NEW g, g.obj = f.obj, g.step = f.step + 1, g.row = row, g.got = <<>>
    PROVE  BindingFrame(p, g, ix, pl2)
<1> SUFFICES ASSUME Marked(p, g) PROVE BindingFrame(p, g, ix, pl2)
  BY DEF BindingFrame
<1>1. f.obj \in DOMAIN p /\ f.step \in Nat \ {0} /\ IsLayout(p, f.obj) /\ f.step >= 8
  BY DEF Frames, Marked
<1>2. Phases(p, f) /\ Counts(p, f.obj)
  BY <1>1, LayoutPhases
<1>3. FrameDone(p, g, ix, pl2) /\ Grown(ix, ix, pl, pl2)
  BY TakenFrame
<1> DEFINE o  == f.obj
           x  == p[o]
           r  == RangeCount(x)
           s  == SetCount(x)
           b  == SubCount(x)
           a  == RangesIn(p, f)
           br == pl["bindingRange"]
           ds == pl["descriptorSet"]
           sb == pl["subObjectRange"]
           br2 == pl2["bindingRange"]
           ds2 == pl2["descriptorSet"]
           sb2 == pl2["subObjectRange"]
<1>5. SlicesMarked(p, o, row)
  <2>1. 8 \in 1 .. g.step - 1
    BY <1>1
  <2>2. StepDone(p, o, 8, row, ix, pl2)
    BY <2>1, <1>3 DEF FrameDone
  <2> QED
    BY <2>2, <1>1, MarkDone
<1> DEFINE ro == row["ranges"].off
           so == row["sets"].off
           bo == row["subs"].off
<1>6. ro \in Nat /\ so \in Nat /\ bo \in Nat
  BY <1>5 DEF SlicesMarked
<1>7. r \in Nat /\ s \in Nat /\ b \in Nat
  BY <1>2 DEF Counts
<1>8. a = f.step - 9 /\ SetsIn(p, f) = a - r /\ SubsIn(p, f) = a - r - s
      /\ RangesIn(p, g) = a + 1 /\ SetsIn(p, g) = a + 1 - r /\ SubsIn(p, g) = a + 1 - r - s
  <2>1. a = f.step - 9 /\ SetsIn(p, f) = f.step - 9 - r /\ SubsIn(p, f) = f.step - 9 - r - s
    BY DEF RangesIn, SetsIn, SubsIn
  <2>2. RangesIn(p, g) = g.step - 9 /\ SetsIn(p, g) = g.step - 9 - RangeCount(p[g.obj])
        /\ SubsIn(p, g) = g.step - 9 - RangeCount(p[g.obj]) - SetCount(p[g.obj])
    BY DEF RangesIn, SetsIn, SubsIn
  <2>3. RangeCount(p[g.obj]) = r /\ SetCount(p[g.obj]) = s
    OBVIOUS
  <2>4. f.step \in Nat /\ g.step = f.step + 1
    BY <1>1
  <2> HIDE DEF a, r, s
  <2> QED
    BY SMTT(60), <2>1, <2>2, <2>3, <2>4, <1>7
<1>9. /\ Len(br) \in Nat /\ Len(ds) \in Nat /\ Len(sb) \in Nat
      /\ Extends(br, br2) /\ Extends(ds, ds2) /\ Extends(sb, sb2)
      /\ Len(br2) \in Nat /\ Len(ds2) \in Nat /\ Len(sb2) \in Nat
  BY <1>3, PoolKept, ItemFacts
<1>10. BindingEffect(StepOf(p, f), f.got, row, ix, pl, pl2)
  BY DEF Effect
<1>11. /\ StepOf(p, f).op # "range" => br2 = br
       /\ StepOf(p, f).op # "set" => ds2 = ds
       /\ StepOf(p, f).op # "sub" => sb2 = sb
  BY <1>10 DEF BindingEffect
\* What remains to be shown.
<1>12. ASSUME /\ a + 1 < r => Len(br2) = ro + (a + 1) /\ Len(ds2) = so
              /\ a + 1 - r >= 0 /\ a + 1 - r < s => Len(ds2) = so + (a + 1 - r)
              /\ a + 1 - r - s < 0 => Len(sb2) = bo
              /\ bo <= Len(sb2)
              /\ \A k \in 1 .. r : k <= a + 1 => RangeDone(p, o, k, row, ix, pl2)
              /\ \A k \in 1 .. s : k <= a + 1 - r => SetDone(p, o, k, row, pl2)
       PROVE  BindingFrame(p, g, ix, pl2)
  BY <1>8, <1>12 DEF BindingFrame, Undisturbed
<1>13. CASE f.step = 8
  <2>1. StepOf(p, f).op = "mark" /\ a = 0 - 1
    BY <1>1, <1>2, <1>8, <1>13 DEF Phases
  <2>2. ro = Len(br) /\ so = Len(ds) /\ bo = Len(sb)
    BY <2>1, <1>10 DEF BindingEffect
  <2>3. br2 = br /\ ds2 = ds /\ sb2 = sb
    BY <2>1, <1>11
  <2> HIDE DEF a, r, s, br, ds, sb, br2, ds2, sb2, ro, so, bo
  <2>4. /\ a + 1 < r => Len(br2) = ro + (a + 1) /\ Len(ds2) = so
        /\ a + 1 - r >= 0 /\ a + 1 - r < s => Len(ds2) = so + (a + 1 - r)
        /\ bo <= Len(sb2) /\ Len(sb2) = bo
    BY <2>1, <2>2, <2>3, <1>6, <1>7
  <2>5. /\ \A k \in 1 .. r : ~(k <= a + 1)
        /\ \A k \in 1 .. s : ~(k <= a + 1 - r)
    BY <2>1, <1>7
  <2> QED
    BY <2>4, <2>5, <1>12
<1>14. CASE f.step > 8
  <2>1. Marked(p, f)
    BY <1>1, <1>14 DEF Marked
  <2>2. SlicesSame(f.row, row) /\ a \in Nat
    BY <2>1, <1>1, <1>8, <1>14, SlicesKept
  <2>3. /\ f.row["ranges"].off = ro /\ f.row["sets"].off = so /\ f.row["subs"].off = bo
    BY <2>2 DEF SlicesSame
  <2>4. /\ a < r => Len(br) = ro + a /\ Len(ds) = so
        /\ a - r >= 0 /\ a - r < s => Len(ds) = so + (a - r)
        /\ a - r - s < 0 => Len(sb) = bo
        /\ bo <= Len(sb)
        /\ \A k \in 1 .. r : k <= a => RangeDone(p, o, k, f.row, ix, pl)
        /\ \A k \in 1 .. s : k <= a - r => SetDone(p, o, k, f.row, pl)
    BY <2>1, <2>3, <1>8 DEF BindingFrame, Undisturbed
  <2>5. \A k \in 1 .. r : k <= a => RangeDone(p, o, k, row, ix, pl2)
    <3> SUFFICES ASSUME NEW k \in 1 .. r, k <= a PROVE RangeDone(p, o, k, row, ix, pl2)
      OBVIOUS
    <3>1. RangeDone(p, o, k, f.row, ix, pl)
      BY <2>4
    <3>2. k \in Nat \ {0}
      BY <1>7
    <3> HIDE DEF o
    <3>3. RangeDone(p, o, k, row, ix, pl)
      BY <2>2, <3>1, SameSlices
    <3> QED
      BY <3>2, <3>3, <1>3, <1>6, RangeDoneKept
  <2>6. \A k \in 1 .. s : k <= a - r => SetDone(p, o, k, row, pl2)
    <3> SUFFICES ASSUME NEW k \in 1 .. s, k <= a - r PROVE SetDone(p, o, k, row, pl2)
      OBVIOUS
    <3>1. SetDone(p, o, k, row, pl) /\ k \in Nat \ {0}
      BY SMTT(60), <2>2, <2>4, <1>7, SameSlices
    <3> QED
      BY <3>1, <1>3, <1>6, SetDoneKept
  <2>7. bo <= Len(sb2)
    <3> HIDE DEF bo, sb, sb2
    <3> QED
      BY <2>4, <1>6, <1>9 DEF Extends
  <2>8. CASE a < r
    <3>1. StepOf(p, f).op = "range" /\ StepOf(p, f).data = x.ranges[a + 1]
      BY <2>8, <1>2, <1>14 DEF Phases
    <3>2. LET e == br2[Len(br) + 1]
          IN  /\ Len(br2) = Len(br) + 1
              /\ e.type = x.ranges[a + 1].type /\ NamesIn(ix, e.var, x.ranges[a + 1].var)
              /\ e.leaf = Invalid \/ NamesIn(ix, e.leaf, x.ranges[a + 1].leaf)
      BY <3>1, <1>10 DEF BindingEffect
    <3>3. ds2 = ds /\ sb2 = sb
      BY <3>1, <1>11
    <3>4. Len(br) + 1 = ro + (a + 1)
      <4> HIDE DEF a, br, ro, r
      <4> QED
        BY SMTT(60), <2>2, <2>4, <2>8, <1>6
    <3>5. RangeDone(p, o, a + 1, row, ix, pl2)
      <4>1. ro + (a + 1) <= Len(br2)
        <5> HIDE DEF a, br, br2, ro
        <5> QED
          BY <3>2, <3>4, <2>2, <1>6
      <4> HIDE DEF a
      <4> QED
        BY <3>2, <3>4, <4>1 DEF RangeDone
    <3> HIDE DEF a, r, s, br, ds, sb, br2, ds2, sb2, ro, so, bo
    <3>6. /\ a + 1 < r => Len(br2) = ro + (a + 1) /\ Len(ds2) = so
          /\ a + 1 - r >= 0 /\ a + 1 - r < s => Len(ds2) = so + (a + 1 - r)
          /\ a + 1 - r - s < 0 => Len(sb2) = bo
      BY <2>2, <2>4, <2>8, <3>2, <3>3, <3>4, <1>6, <1>7
    <3>7. \A k \in 1 .. r : k <= a + 1 => RangeDone(p, o, k, row, ix, pl2)
      <4> TAKE k \in 1 .. r
      <4>1. k <= a + 1 => k <= a \/ k = a + 1
        BY <2>2, <1>7
      <4> QED
        BY <4>1, <2>5, <3>5
    <3>8. \A k \in 1 .. s : ~(k <= a + 1 - r)
      BY <2>2, <2>8, <1>7
    <3> QED
      BY <2>7, <3>6, <3>7, <3>8, <1>12
  <2>9. CASE a >= r /\ a - r < s
    <3>1. StepOf(p, f).op = "set" /\ StepOf(p, f).data = x.sets[a - r + 1]
      BY SMTT(60), <2>9, <1>2, <1>8 DEF Phases
    <3> DEFINE j == a - r + 1
               dr2 == pl2["descriptorRange"]
               e  == ds2[Len(ds) + 1]
    <3>2. /\ Len(ds2) = Len(ds) + 1
          /\ e.count = Len(x.sets[j]) /\ e.off + e.count <= Len(dr2)
          /\ \A i \in 1 .. Len(x.sets[j]) : dr2[e.off + i] = x.sets[j][i]
      BY <3>1, <1>10 DEF BindingEffect
    <3>3. br2 = br /\ sb2 = sb
      BY <3>1, <1>11
    <3>9. j \in Nat \ {0} /\ j = a + 1 - r
      <4> HIDE DEF a, r
      <4> QED
        BY <2>2, <2>9, <1>7
    <3>4. Len(ds) + 1 = so + j
      <4> HIDE DEF a, ds, so, r, s
      <4>1. a \in Nat /\ r \in Nat /\ so \in Nat
        BY <2>2, <1>6, <1>7
      <4>2. a - r >= 0
        BY <4>1, <2>9
      <4>3. Len(ds) = so + (a - r)
        BY SMTT(60), <4>2, <2>4, <2>9
      <4> QED
        BY <4>1, <4>3
    <3>5. SetDone(p, o, j, row, pl2)
      <4>1. so + j <= Len(ds2)
        BY <3>2, <3>4, <1>9
      <4> HIDE DEF j
      <4> QED
        BY ZenonT(60), <3>2, <3>4, <4>1 DEF SetDone
    <3> HIDE DEF a, r, s, br, ds, sb, br2, ds2, sb2, ro, so, bo, e, dr2
    <3>6. /\ ~(a + 1 < r)
          /\ a + 1 - r >= 0 /\ a + 1 - r < s => Len(ds2) = so + (a + 1 - r)
          /\ a + 1 - r - s < 0 => Len(sb2) = bo
      BY <2>2, <2>4, <2>9, <3>2, <3>3, <3>4, <1>6, <1>7
    <3>7. \A k \in 1 .. r : k <= a + 1 => RangeDone(p, o, k, row, ix, pl2)
      <4> TAKE k \in 1 .. r
      <4>1. k <= a
        BY <2>2, <2>9, <1>7
      <4> QED
        BY <4>1, <2>5
    <3> HIDE DEF j
    <3>8. \A k \in 1 .. s : k <= a + 1 - r => SetDone(p, o, k, row, pl2)
      <4> TAKE k \in 1 .. s
      <4>1. k <= a + 1 - r => k <= a - r \/ k = j
        BY <2>2, <1>7, <3>9
      <4> QED
        BY <4>1, <2>6, <3>5
    <3> QED
      BY <2>7, <3>6, <3>7, <3>8, <1>12
  <2>10. CASE a - r >= s
    <3> HIDE DEF a, r, s, br, ds, sb, br2, ds2, sb2, ro, so, bo
    <3>1. ~(a + 1 < r) /\ ~(a + 1 - r < s) /\ ~(a + 1 - r - s < 0)
      BY <2>2, <2>10, <1>7
    <3>2. \A k \in 1 .. r : k <= a
      BY <2>2, <2>10, <1>7
    <3>3. \A k \in 1 .. s : k <= a - r
      BY <2>2, <2>10, <1>7
    <3> QED
      BY <2>5, <2>6, <2>7, <3>1, <3>2, <3>3, <1>12
  <2>11. a < r \/ (a >= r /\ a - r < s) \/ a - r >= s
    <3> HIDE DEF a, r, s
    <3> QED
      BY <2>2, <1>7
  <2> QED
    BY <2>8, <2>9, <2>10, <2>11
<1> QED
  BY <1>1, <1>13, <1>14

-----------------------------------------------------------------------------
(* Every operation keeps the binding tables.                               *)

FramesBound(p, st, ix, pl) == \A n \in 1 .. Len(st) : BindingFrame(p, st[n], ix, pl)

RowsBound(p, st, ix, tb, pl) ==
    \A o \in DOMAIN ix : IsLayout(p, o) =>
      OnStack(o, st) \/ BindingRow(p, o, tb["typeLayout"][ix[o] + 1], ix, pl)

LEMMA BindingsAre ==
    ASSUME NEW p, NEW st, NEW ix, NEW tb, NEW pl
    PROVE  Bindings(p, st, ix, tb, pl) <=> FramesBound(p, st, ix, pl) /\ RowsBound(p, st, ix, tb, pl)
BY DEF Bindings, FramesBound, RowsBound

LEMMA SoundFacts ==
    ASSUME NEW p, NEW st, NEW ix, NEW tb, NEW pl, Sound(p, st, ix, tb, pl)
    PROVE  /\ p \in Programs /\ StackInv(p, st, ix) /\ StackOK(p, st) /\ Len(st) \in Nat
           /\ IndexOK(p, ix, tb) /\ TablesOK(tb) /\ PoolsOK(pl)
           /\ Registered(p, st, ix) /\ OnceOnStack(st)
           /\ FramesDone(p, st, ix, pl) /\ TablesDone(p, st, ix, tb, pl)
           /\ \A n \in 1 .. Len(st) :
                st[n] \in Frames(p) /\ FrameOK(p, st[n]) /\ FrameDone(p, st[n], ix, pl)
           /\ \A o \in DOMAIN ix : o \in DOMAIN p /\ ix[o] \in Nat
BY DEF Sound, StackInv, StackOK, FramesDone, IndexOK, Indexed

\* The frames below the last one.
LEMMA LowerBound ==
    ASSUME NEW p, NEW st, NEW ix, NEW tb, NEW pl, Sound(p, st, ix, tb, pl), FramesBound(p, st, ix, pl),
           NEW st2, StackOK(p, st2), SameFrames(st, st2), NEW ix2, NEW pl2, Grown(ix, ix2, pl, pl2),
           \A n \in 1 .. Len(st) - 1 :
             Marked(p, st[n]) => SubsIn(p, st[n]) >= 0 \/ BindingsSame(pl, pl2),
           st2 # <<>> => BindingFrame(p, st2[Len(st2)], ix2, pl2)
    PROVE  FramesBound(p, st2, ix2, pl2)
<1> SUFFICES ASSUME NEW n \in 1 .. Len(st2) PROVE BindingFrame(p, st2[n], ix2, pl2)
  BY DEF FramesBound
<1>1. Len(st) \in Nat /\ Len(st2) \in Nat /\ Len(st2) <= Len(st)
  BY DEF Sound, StackInv, StackOK, SameFrames
<1>2. CASE n = Len(st2)
  BY <1>1, <1>2, EmptySeqs
<1>3. CASE n # Len(st2)
  <2>1. n \in 1 .. Len(st2) - 1 /\ n \in 1 .. Len(st) /\ n \in 1 .. Len(st) - 1
    BY <1>1, <1>3
  <2>2. st2[n] = st[n]
    BY <2>1 DEF SameFrames
  <2>3. p \in Programs /\ st[n] \in Frames(p) /\ FrameOK(p, st[n]) /\ FrameDone(p, st[n], ix, pl)
    BY <2>1, SoundFacts
  <2>4. BindingFrame(p, st[n], ix, pl)
    BY <2>1 DEF FramesBound
  <2>5. Marked(p, st[n]) => SubsIn(p, st[n]) >= 0 \/ BindingsSame(pl, pl2)
    BY <2>1
  <2> QED
    BY <2>2, <2>3, <2>4, <2>5, BindingFrameKept
<1> QED
  BY <1>2, <1>3

\* The rows, when neither they nor the objects on the stack change.
LEMMA SameRowsBound ==
    ASSUME NEW p, NEW st, NEW ix, NEW tb, NEW pl, Sound(p, st, ix, tb, pl), RowsBound(p, st, ix, tb, pl),
           NEW st2, SameFrames(st, st2), Len(st2) = Len(st), NEW pl2, Grown(ix, ix, pl, pl2)
    PROVE  RowsBound(p, st2, ix, tb, pl2)
<1> SUFFICES ASSUME NEW o \in DOMAIN ix, IsLayout(p, o), ~OnStack(o, st2)
             PROVE  BindingRow(p, o, tb["typeLayout"][ix[o] + 1], ix, pl2)
  BY DEF RowsBound
<1>1. p \in Programs /\ o \in DOMAIN p /\ TablesDone(p, st, ix, tb, pl)
  BY SoundFacts
<1>2. ~OnStack(o, st)
  BY SameObjects
<1>3. RowDone(p, o, tb["typeLayout"][ix[o] + 1], ix, pl) /\ BindingRow(p, o, tb["typeLayout"][ix[o] + 1], ix, pl)
  BY <1>1, <1>2 DEF TablesDone, RowsBound, IsLayout
<1> QED
  BY <1>1, <1>3, BindingRowKept

LEMMA SameBindings == \A pl : BindingsSame(pl, pl)
BY DEF BindingsSame

LEMMA BindingsTaken ==
    ASSUME NEW p, NEW st, NEW st2, NEW ix, NEW tb, NEW pl, NEW pl2, Sound(p, st, ix, tb, pl),
           Bindings(p, st, ix, tb, pl), Taken(p, st, st2, ix, pl, pl2)
    PROVE  Bindings(p, st2, ix, tb, pl2)
<1>1. /\ p \in Programs /\ StackInv(p, st, ix) /\ StackOK(p, st) /\ Len(st) \in Nat /\ PoolsOK(pl)
      /\ FramesBound(p, st, ix, pl) /\ RowsBound(p, st, ix, tb, pl)
      /\ \A n \in 1 .. Len(st) :
           st[n] \in Frames(p) /\ FrameOK(p, st[n]) /\ FrameDone(p, st[n], ix, pl)
  BY SoundFacts, BindingsAre
<1>2. PICK row : /\ st # <<>> /\ Busy(p, st[Len(st)]) /\ StackOK(p, st2) /\ st2 # <<>>
                 /\ Advanced(st, st2, row) /\ Effect(p, st[Len(st)], row, ix, pl, pl2)
  BY DEF Taken
<1>3. SameFrames(st, st2)
  BY <1>1, TakenFrames
<1>4. Len(st) \in 1 .. Len(st)
  BY <1>1, <1>2, StackFacts
<1> DEFINE f == st[Len(st)]
           g == st2[Len(st2)]
<1>5. g.obj = f.obj /\ g.step = f.step + 1 /\ g.row = row /\ g.got = <<>> /\ Len(st2) = Len(st)
  BY <1>2 DEF Advanced
<1>10. f \in Frames(p) /\ FrameOK(p, f) /\ FrameDone(p, f, ix, pl) /\ BindingFrame(p, f, ix, pl)
  BY <1>1, <1>4 DEF FramesBound
<1> HIDE DEF f, g
<1>6. Grown(ix, ix, pl, pl2) /\ BindingFrame(p, g, ix, pl2)
  BY <1>1, <1>2, <1>5, <1>10, TakenFrame, BindingFrameTaken DEF f
<1>7. ASSUME NEW n \in 1 .. Len(st) - 1, Marked(p, st[n])
      PROVE  SubsIn(p, st[n]) >= 0 \/ BindingsSame(pl, pl2)
  <2>1. CASE SubsIn(p, st[n]) >= 0
    BY <2>1
  <2>2. CASE p[f.obj].kind \in Plain
    <3>1. ~IsLayout(p, f.obj)
      BY <2>2 DEF Plain, IsLayout
    <3> QED
      BY <3>1, <1>1, <1>2, <1>10, OthersCalm DEF f
  <2> QED
    BY <1>1, <1>7, <2>1, <2>2, LowerCalm DEF f
<1>8. FramesBound(p, st2, ix, pl2)
  BY <1>1, <1>2, <1>3, <1>6, <1>7, LowerBound DEF g
<1>9. RowsBound(p, st2, ix, tb, pl2)
  BY <1>1, <1>3, <1>5, <1>6, SameRowsBound
<1> QED
  BY <1>8, <1>9, BindingsAre

LEMMA BindingsPassed ==
    ASSUME NEW p, NEW st, NEW st2, NEW i, NEW ix, NEW tb, NEW pl, NEW pl2, Sound(p, st, ix, tb, pl),
           Bindings(p, st, ix, tb, pl), Passed(p, st, st2, i, ix, pl, pl2)
    PROVE  Bindings(p, st2, ix, tb, pl2)
<1>1. /\ p \in Programs /\ StackInv(p, st, ix) /\ StackOK(p, st) /\ Len(st) \in Nat /\ PoolsOK(pl)
      /\ FramesBound(p, st, ix, pl) /\ RowsBound(p, st, ix, tb, pl)
      /\ \A n \in 1 .. Len(st) :
           st[n] \in Frames(p) /\ FrameOK(p, st[n]) /\ FrameDone(p, st[n], ix, pl)
  BY SoundFacts, BindingsAre
<1>2. /\ st # <<>> /\ StackOK(p, st2) /\ st2 # <<>> /\ Given(st, st2, i)
      /\ PoolsOK(pl2) /\ PoolGrown(pl, pl2)
  BY DEF Passed
<1>3. SameFrames(st, st2)
  BY <1>1, PassedFrames
<1>4. Len(st) \in 1 .. Len(st)
  BY <1>1, <1>2, StackFacts
<1>11. BindingsSame(pl, pl2)
  BY DEF Passed, BindingsSame, BindingPools
<1> DEFINE f == st[Len(st)]
           g == st2[Len(st2)]
<1>5. g.obj = f.obj /\ g.step = f.step /\ g.row = f.row /\ Len(st2) = Len(st)
  BY <1>2 DEF Given
<1>10. f \in Frames(p) /\ FrameOK(p, f) /\ FrameDone(p, f, ix, pl) /\ BindingFrame(p, f, ix, pl)
  BY <1>1, <1>4 DEF FramesBound
<1> HIDE DEF f, g
<1>6. Grown(ix, ix, pl, pl2)
  BY <1>1, <1>2, SameIndex DEF Grown
<1>7. BindingFrame(p, g, ix, pl2)
  BY <1>1, <1>5, <1>6, <1>10, <1>11, BindingFrameKept
<1>8. FramesBound(p, st2, ix, pl2)
  BY <1>1, <1>2, <1>3, <1>6, <1>7, <1>11, LowerBound DEF g
<1>9. RowsBound(p, st2, ix, tb, pl2)
  BY <1>1, <1>3, <1>5, <1>6, SameRowsBound
<1> QED
  BY <1>8, <1>9, BindingsAre

\* A row of the tables, when they grow.
LEMMA RowFound ==
    ASSUME NEW p \in Programs, NEW ix, NEW tb, NEW tb2, IndexOK(p, ix, tb), TablesOK(tb),
           TablesGrown(tb, tb2), NEW o \in DOMAIN ix
    PROVE  /\ o \in DOMAIN p /\ p[o].kind \in Kinds /\ ix[o] \in Nat
           /\ Len(tb[p[o].kind]) \in Nat /\ ix[o] < Len(tb[p[o].kind])
           /\ tb2[p[o].kind][ix[o] + 1] = tb[p[o].kind][ix[o] + 1]
<1>1. o \in DOMAIN p /\ p[o].kind \in Kinds /\ ix[o] \in Nat /\ ix[o] < Len(tb[p[o].kind])
  BY ProgramFacts DEF IndexOK, Indexed
<1>2. Len(tb[p[o].kind]) \in Nat
  BY <1>1 DEF TablesOK
<1>3. ix[o] + 1 \in 1 .. Len(tb[p[o].kind])
  BY <1>1, <1>2
<1>4. tb2[p[o].kind][ix[o] + 1] = tb[p[o].kind][ix[o] + 1]
  BY <1>1, <1>3 DEF TablesGrown, Extends
<1> QED
  BY <1>1, <1>2, <1>4

\* What an addX that begins changes.
EnteredFacts(p, st, st2, ix, ix2, tb, tb2, t) ==
    /\ IndexGrown(ix, ix2) /\ DOMAIN ix2 \subseteq DOMAIN ix \cup {t}
    /\ t \in DOMAIN p /\ t \notin DOMAIN ix
    /\ t \in DOMAIN ix2 => ix2[t] = Len(tb[p[t].kind])
    /\ TablesGrown(tb, tb2) /\ IndexOK(p, ix2, tb2)
    /\ Len(st2) = Len(st) + 1 /\ \A n \in 1 .. Len(st) : st2[n] = st[n]
    /\ st2[Len(st) + 1].obj = t /\ st2[Len(st) + 1].step = 1

LEMMA EnteredIs ==
    ASSUME NEW p \in Programs, NEW st, NEW st2, NEW ix, NEW ix2, NEW tb, NEW tb2,
           Entered(p, st, st2, ix, ix2, tb, tb2)
    PROVE  \E t : EnteredFacts(p, st, st2, ix, ix2, tb, tb2, t)
<1>1. PICK t \in DOMAIN p, row \in Records :
        /\ t \notin DOMAIN ix /\ Pushed(st, st2, t, row)
        /\ TablesGrown(tb, tb2) /\ IndexOK(p, ix2, tb2)
        /\ p[t].kind = "entryPoint" => ix2 = ix
        /\ p[t].kind # "entryPoint" => Assigned(ix, ix2, t, Len(tb[p[t].kind]))
  BY DEF Entered
<1>2. IndexGrown(ix, ix2) /\ DOMAIN ix2 \subseteq DOMAIN ix \cup {t} /\ (t \in DOMAIN ix2 => ix2[t] = Len(tb[p[t].kind]))
  BY <1>1 DEF IndexGrown, Assigned
<1>3. Len(st2) = Len(st) + 1 /\ st2[Len(st) + 1] = Frame(t, row) /\ \A n \in 1 .. Len(st) : st2[n] = st[n]
  BY <1>1 DEF Pushed, SameBelow
<1>4. Frame(t, row).obj = t /\ Frame(t, row).step = 1
  BY DEF Frame
<1> QED
  BY <1>1, <1>2, <1>3, <1>4 DEF EnteredFacts

LEMMA BindingsEntered ==
    ASSUME NEW p, NEW st, NEW st2, NEW ix, NEW ix2, NEW tb, NEW tb2, NEW pl, Sound(p, st, ix, tb, pl),
           Bindings(p, st, ix, tb, pl), Entered(p, st, st2, ix, ix2, tb, tb2)
    PROVE  Bindings(p, st2, ix2, tb2, pl)
<1>1. /\ p \in Programs /\ Len(st) \in Nat /\ PoolsOK(pl) /\ IndexOK(p, ix, tb) /\ TablesOK(tb)
      /\ FramesBound(p, st, ix, pl) /\ RowsBound(p, st, ix, tb, pl) /\ TablesDone(p, st, ix, tb, pl)
      /\ \A n \in 1 .. Len(st) :
           st[n] \in Frames(p) /\ FrameOK(p, st[n]) /\ FrameDone(p, st[n], ix, pl)
  BY SoundFacts, BindingsAre
<1>2. PICK t : EnteredFacts(p, st, st2, ix, ix2, tb, tb2, t)
  BY <1>1, EnteredIs
<1>3. /\ IndexGrown(ix, ix2) /\ DOMAIN ix2 \subseteq DOMAIN ix \cup {t} /\ TablesGrown(tb, tb2)
      /\ Len(st2) = Len(st) + 1 /\ \A n \in 1 .. Len(st) : st2[n] = st[n]
      /\ st2[Len(st) + 1].obj = t /\ st2[Len(st) + 1].step = 1
  BY <1>2 DEF EnteredFacts
<1>4. Grown(ix, ix2, pl, pl)
  BY <1>1, <1>3, NotGrown DEF Grown
<1>5. ASSUME NEW n \in 1 .. Len(st2) PROVE BindingFrame(p, st2[n], ix2, pl)
  <2>1. CASE n = Len(st) + 1
    <3>1. ~(st2[n].step > 8)
      BY <2>1, <1>3
    <3> QED
      BY <3>1 DEF BindingFrame, Marked
  <2>2. CASE n # Len(st) + 1
    <3>1. n \in 1 .. Len(st)
      BY <2>2, <1>1, <1>3
    <3>2. st2[n] = st[n] /\ st[n] \in Frames(p) /\ FrameOK(p, st[n]) /\ FrameDone(p, st[n], ix, pl)
          /\ BindingFrame(p, st[n], ix, pl)
      BY <3>1, <1>1, <1>3 DEF FramesBound
    <3> QED
      BY <3>2, <1>1, <1>4, SameBindings, BindingFrameKept
  <2> QED
    BY <2>1, <2>2
<1>6. ASSUME NEW o \in DOMAIN ix2, IsLayout(p, o), ~OnStack(o, st2)
      PROVE  BindingRow(p, o, tb2["typeLayout"][ix2[o] + 1], ix2, pl)
  <2>1. o # t
    <3>1. Len(st) + 1 \in 1 .. Len(st2)
      BY <1>1, <1>3
    <3> QED
      BY <3>1, <1>3, <1>6 DEF OnStack
  <2>2. o \in DOMAIN ix /\ ix2[o] = ix[o]
    BY <2>1, <1>3 DEF IndexGrown
  <2>3. ~OnStack(o, st)
    <3>1. \A n \in 1 .. Len(st) : n \in 1 .. Len(st2)
      BY <1>1, <1>3
    <3> QED
      BY <3>1, <1>3, <1>6 DEF OnStack
  <2>4. o \in DOMAIN p /\ tb2["typeLayout"][ix[o] + 1] = tb["typeLayout"][ix[o] + 1]
    BY <2>2, <1>1, <1>3, <1>6, RowFound DEF IsLayout
  <2>5. RowDone(p, o, tb["typeLayout"][ix[o] + 1], ix, pl) /\ BindingRow(p, o, tb["typeLayout"][ix[o] + 1], ix, pl)
    BY <2>2, <2>3, <1>1, <1>6 DEF TablesDone, RowsBound, IsLayout
  <2>6. BindingRow(p, o, tb["typeLayout"][ix[o] + 1], ix2, pl)
    BY <2>4, <2>5, <1>1, <1>4, <1>6, BindingRowKept
  <2> QED
    BY <2>2, <2>4, <2>6
<1>7. FramesBound(p, st2, ix2, pl) /\ RowsBound(p, st2, ix2, tb2, pl)
  BY SMTT(60), <1>5, <1>6 DEF FramesBound, RowsBound
<1> QED
  BY <1>7, BindingsAre

\* What an addX that is done changes.
LeftFacts(p, st, st2, ix, tb, tb2) ==
    LET n == Len(st) - 1
        o == st[Len(st)].obj
    IN  /\ n \in Nat \ {0} /\ Len(st2) = n /\ ~Busy(p, st[Len(st)])
        /\ \A m \in 1 .. n : st2[m].obj = st[m].obj /\ st2[m].step = st[m].step /\ st2[m].row = st[m].row
        /\ TablesOK(tb2) /\ RowsKept(p, ix, tb, tb2, o)
        /\ o \in DOMAIN ix => tb2[p[o].kind][ix[o] + 1] = st[Len(st)].row

LEMMA LeftIs ==
    ASSUME NEW p, NEW st, NEW st2, NEW i, NEW ix, NEW tb, NEW tb2, Left(p, st, st2, i, ix, tb, tb2)
    PROVE  LeftFacts(p, st, st2, ix, tb, tb2)
<1> DEFINE n == Len(st) - 1
<1>1. /\ n \in Nat \ {0} /\ Len(st2) = n /\ SameBelow(st, st2, n - 1) /\ ~Busy(p, st[Len(st)])
      /\ st2[n].obj = st[n].obj /\ st2[n].step = st[n].step /\ st2[n].row = st[n].row
      /\ TablesOK(tb2) /\ RowsKept(p, ix, tb, tb2, st[Len(st)].obj)
      /\ st[Len(st)].obj \in DOMAIN ix =>
           tb2[p[st[Len(st)].obj].kind][ix[st[Len(st)].obj] + 1] = st[Len(st)].row
  BY DEF Left
<1> HIDE DEF n
<1>2. \A m \in 1 .. n : m = n \/ m \in 1 .. n - 1
  BY <1>1
<1>3. \A m \in 1 .. n : st2[m].obj = st[m].obj /\ st2[m].step = st[m].step /\ st2[m].row = st[m].row
  BY <1>1, <1>2 DEF SameBelow
<1> QED
  BY <1>1, <1>3 DEF LeftFacts, n

\* Objects off the stack, when an addX is done.
LEMMA LeftObjects ==
    ASSUME NEW p, NEW st, NEW st2, NEW ix, NEW tb, NEW tb2, LeftFacts(p, st, st2, ix, tb, tb2), Len(st) \in Nat,
           NEW o, ~OnStack(o, st2)
    PROVE  o = st[Len(st)].obj \/ ~OnStack(o, st)
<1> SUFFICES ASSUME NEW n \in 1 .. Len(st), st[n].obj = o, o # st[Len(st)].obj PROVE FALSE
  BY DEF OnStack
<1>1. n \in 1 .. Len(st) - 1 /\ Len(st2) = Len(st) - 1
  BY DEF LeftFacts
<1>2. n \in 1 .. Len(st2) /\ st2[n].obj = o
  BY <1>1 DEF LeftFacts
<1> QED
  BY <1>2 DEF OnStack

\* A layout that is done.
LEMMA LayoutEnd ==
    ASSUME NEW p \in Programs, NEW f \in Frames(p), ~Busy(p, f), IsLayout(p, f.obj), FrameOK(p, f)
    PROVE  /\ Marked(p, f) /\ Counts(p, f.obj)
           /\ RangesIn(p, f) >= RangeCount(p[f.obj]) /\ SetsIn(p, f) >= SetCount(p[f.obj])
           /\ SubsIn(p, f) = SubCount(p[f.obj])
<1> DEFINE x == p[f.obj]
           r == RangeCount(x)
           s == SetCount(x)
           b == SubCount(x)
           N == Len(Script(p, f.obj))
<1>1. f.obj \in DOMAIN p /\ f.step \in Nat
  BY DEF Frames
<1>2. LayoutPositions(x, Script(p, f.obj))
  BY SMTT(60), <1>1, LayoutSteps
<1>3. r \in Nat /\ s \in Nat /\ b \in Nat /\ N = 8 + r + s + b
  BY <1>2 DEF LayoutPositions
<1>4. f.step <= N + 1 /\ ~(f.step <= N)
  BY DEF FrameOK, Busy
<1>5. RangesIn(p, f) = f.step - 9 /\ SetsIn(p, f) = f.step - 9 - r /\ SubsIn(p, f) = f.step - 9 - r - s
  BY DEF RangesIn, SetsIn, SubsIn
<1>6. Counts(p, f.obj)
  BY <1>3 DEF Counts
<1> HIDE DEF r, s, b, N
<1>7. f.step = 9 + r + s + b
  BY <1>1, <1>3, <1>4
<1>8. f.step > 8 /\ f.step - 9 >= r /\ f.step - 9 - r >= s /\ f.step - 9 - r - s = b
  BY <1>3, <1>7
<1> QED
  BY <1>5, <1>6, <1>8 DEF Marked, r, s, b

LEMMA BindingsLeft ==
    ASSUME NEW p, NEW st, NEW st2, NEW i, NEW ix, NEW tb, NEW tb2, NEW pl, Sound(p, st, ix, tb, pl),
           Bindings(p, st, ix, tb, pl), Left(p, st, st2, i, ix, tb, tb2)
    PROVE  Bindings(p, st2, ix, tb2, pl)
<1>1. /\ p \in Programs /\ Len(st) \in Nat /\ PoolsOK(pl) /\ IndexOK(p, ix, tb) /\ TablesOK(tb)
      /\ FramesBound(p, st, ix, pl) /\ RowsBound(p, st, ix, tb, pl) /\ TablesDone(p, st, ix, tb, pl)
      /\ \A n \in 1 .. Len(st) :
           st[n] \in Frames(p) /\ FrameOK(p, st[n]) /\ FrameDone(p, st[n], ix, pl)
  BY SoundFacts, BindingsAre
<1>2. LeftFacts(p, st, st2, ix, tb, tb2)
  BY SMTT(60), LeftIs
<1> DEFINE e == st[Len(st)]
<1>3. /\ Len(st) - 1 \in Nat \ {0} /\ Len(st2) = Len(st) - 1 /\ ~Busy(p, e)
      /\ \A m \in 1 .. Len(st) - 1 : st2[m].obj = st[m].obj /\ st2[m].step = st[m].step /\ st2[m].row = st[m].row
      /\ RowsKept(p, ix, tb, tb2, e.obj)
      /\ e.obj \in DOMAIN ix => tb2[p[e.obj].kind][ix[e.obj] + 1] = e.row
  BY <1>2 DEF LeftFacts
<1>4. Grown(ix, ix, pl, pl)
  BY <1>1, SameIndex, NotGrown DEF Grown
<1>5. ASSUME NEW n \in 1 .. Len(st2) PROVE BindingFrame(p, st2[n], ix, pl)
  <2>1. n \in 1 .. Len(st) /\ n \in 1 .. Len(st) - 1
    BY <1>1, <1>3
  <2>2. st[n] \in Frames(p) /\ FrameOK(p, st[n]) /\ FrameDone(p, st[n], ix, pl) /\ BindingFrame(p, st[n], ix, pl)
    BY <2>1, <1>1 DEF FramesBound
  <2>3. st2[n].obj = st[n].obj /\ st2[n].step = st[n].step /\ st2[n].row = st[n].row
    BY <2>1, <1>3
  <2> QED
    BY SMTT(60), <2>2, <2>3, <1>1, <1>4, SameBindings, BindingFrameKept
<1>6. ASSUME NEW o \in DOMAIN ix, IsLayout(p, o), ~OnStack(o, st2)
      PROVE  BindingRow(p, o, tb2["typeLayout"][ix[o] + 1], ix, pl)
  <2>1. CASE o = e.obj
    <3>1. Len(st) \in 1 .. Len(st)
      BY <1>1, <1>3
    <3>2. e \in Frames(p) /\ FrameOK(p, e) /\ BindingFrame(p, e, ix, pl)
      BY <3>1, <1>1 DEF FramesBound
    <3>3. tb2["typeLayout"][ix[o] + 1] = e.row /\ IsLayout(p, e.obj)
      BY SMTT(60), <2>1, <1>3, <1>6 DEF IsLayout
    <3>4. /\ Marked(p, e) /\ Counts(p, o)
          /\ RangesIn(p, e) >= RangeCount(p[o]) /\ SetsIn(p, e) >= SetCount(p[o])
      BY <2>1, <3>2, <3>3, <1>1, <1>3, LayoutEnd
    <3>5. e.step \in Nat
      BY <3>2 DEF Frames
    <3>6. RangesIn(p, e) = e.step - 9 /\ SetsIn(p, e) = e.step - 9 - RangeCount(p[o])
      BY <2>1 DEF RangesIn, SetsIn
    <3>8. RangeCount(p[o]) \in Nat /\ SetCount(p[o]) \in Nat
      BY <3>4 DEF Counts
    <3>7. /\ \A k \in 1 .. RangeCount(p[o]) : k <= RangesIn(p, e)
          /\ \A k \in 1 .. SetCount(p[o]) : k <= SetsIn(p, e)
      BY SMTT(60), <3>4, <3>5, <3>6, <3>8
    <3> QED
      BY <2>1, <3>2, <3>3, <3>4, <3>7 DEF BindingFrame, BindingRow
  <2>2. CASE o # e.obj
    <3>1. ~OnStack(o, st)
      BY <2>2, <1>1, <1>2, <1>6, LeftObjects
    <3>2. tb2["typeLayout"][ix[o] + 1] = tb["typeLayout"][ix[o] + 1]
      BY <2>2, <1>3, <1>6 DEF RowsKept, IsLayout
    <3> QED
      BY <3>1, <3>2, <1>1, <1>6 DEF RowsBound
  <2> QED
    BY <2>1, <2>2
<1>7. FramesBound(p, st2, ix, pl) /\ RowsBound(p, st2, ix, tb2, pl)
  BY <1>5, <1>6 DEF FramesBound, RowsBound
<1> QED
  BY <1>7, BindingsAre

-----------------------------------------------------------------------------
(* A layout that has come between the sub-objects of another one.          *)

SubsKept(p, st, st2, ix, ix2, tb, tb2) ==
    \A g \in DOMAIN ix : \A c : IsLayout(p, g) /\ HasSubs(g, c, st, ix, tb) => HasSubs(g, c, st2, ix2, tb2)

LEMMA IntrudedKept ==
    ASSUME NEW p, NEW st, NEW st2, NEW ix, NEW ix2, NEW tb, NEW tb2, IndexGrown(ix, ix2),
           SubsKept(p, st, st2, ix, ix2, tb, tb2)
    PROVE  \A i, d : Intruded(p, i, d, st, ix, tb) => Intruded(p, i, d, st2, ix2, tb2)
<1> SUFFICES ASSUME NEW i, NEW d, Intruded(p, i, d, st, ix, tb) PROVE Intruded(p, i, d, st2, ix2, tb2)
  OBVIOUS
<1>1. PICK g \in DOMAIN ix, c \in Slices :
        /\ IsLayout(p, g) /\ ix[g] > i /\ HasSubs(g, c, st, ix, tb)
        /\ c.count > 0 /\ d.off <= c.off /\ c.off < d.off + d.count
  BY DEF Intruded
<1>2. g \in DOMAIN ix2 /\ ix2[g] = ix[g] /\ HasSubs(g, c, st2, ix2, tb2)
  BY <1>1 DEF IndexGrown, SubsKept
<1> QED
  BY <1>1, <1>2 DEF Intruded

\* The frames keep the slices they have marked, and nothing else changes.
LEMMA FramesKeepSubs ==
    ASSUME NEW p, NEW st, NEW st2, NEW ix, NEW tb, Len(st) \in Nat, Len(st2) = Len(st), SameFrames(st, st2),
           LET f == st[Len(st)]
               g == st2[Len(st)]
           IN  Marked(p, f) => g.step > 8 /\ g.row["subs"] = f.row["subs"]
    PROVE  SubsKept(p, st, st2, ix, ix, tb, tb)
<1> SUFFICES ASSUME NEW g \in DOMAIN ix, NEW c, IsLayout(p, g), HasSubs(g, c, st, ix, tb)
             PROVE  HasSubs(g, c, st2, ix, tb)
  BY DEF SubsKept
<1>1. CASE ~OnStack(g, st) /\ tb["typeLayout"][ix[g] + 1]["subs"] = c
  BY <1>1, SameObjects DEF HasSubs
<1>2. CASE \E n \in 1 .. Len(st) : st[n].obj = g /\ st[n].step > 8 /\ st[n].row["subs"] = c
  <2>1. PICK n \in 1 .. Len(st) : st[n].obj = g /\ st[n].step > 8 /\ st[n].row["subs"] = c
    BY <1>2
  <2>2. st2[n].obj = g
    BY <2>1 DEF SameFrames
  <2>3. st2[n].step > 8 /\ st2[n].row["subs"] = c
    <3>1. CASE n = Len(st)
      BY <2>1, <3>1 DEF Marked
    <3>2. CASE n # Len(st)
      <4>1. n \in 1 .. Len(st2) - 1
        BY <3>2
      <4>2. st2[n] = st[n]
        BY <4>1 DEF SameFrames
      <4> QED
        BY <2>1, <4>2
    <3> QED
      BY <3>1, <3>2
  <2> QED
    BY <2>2, <2>3 DEF HasSubs
<1> QED
  BY <1>1, <1>2 DEF HasSubs

-----------------------------------------------------------------------------
(* The sub-objects of a layout are kept.                                   *)

LEMMA SubsExactKept ==
    ASSUME NEW p \in Programs, NEW f \in Frames(p), FrameOK(p, f), NEW ix, NEW ix2, NEW pl, NEW pl2,
           FrameDone(p, f, ix, pl), InSubs(p, f), SubsExact(p, f, ix, pl), Grown(ix, ix2, pl, pl2),
           pl2["subObjectRange"] = pl["subObjectRange"],
           NEW g, g.obj = f.obj, g.step = f.step, g.row = f.row
    PROVE  SubsExact(p, g, ix2, pl2)
<1>1. SubsIn(p, g) = SubsIn(p, f)
  BY DEF SubsIn
<1>2. SlicesMarked(p, f.obj, f.row) /\ Counts(p, f.obj)
  BY MarkedFacts DEF InSubs
<1>3. f.row["subs"].off \in Nat /\ SubCount(p[f.obj]) \in Nat
  BY <1>2 DEF SlicesMarked, Counts
<1>4. ASSUME NEW k \in 1 .. SubCount(p[f.obj]), k <= SubsIn(p, f) PROVE SubDone(p, f.obj, k, f.row, ix2, pl2)
  <2>1. k \in Nat \ {0} /\ SubDone(p, f.obj, k, f.row, ix, pl)
    BY <1>3, <1>4 DEF SubsExact
  <2> QED
    BY <2>1, <1>3, SubDoneKept
<1> QED
  BY <1>1, <1>4 DEF SubsExact

LEMMA SubRowKept ==
    ASSUME NEW p \in Programs, NEW o \in DOMAIN p, IsLayout(p, o), NEW row,
           NEW ix, NEW ix2, NEW pl, NEW pl2, RowDone(p, o, row, ix, pl),
           SubRow(p, o, row, ix, pl), Grown(ix, ix2, pl, pl2)
    PROVE  SubRow(p, o, row, ix2, pl2)
<1>1. SlicesMarked(p, o, row) /\ Counts(p, o)
  BY RowMarked
<1>3. row["subs"].off \in Nat /\ SubCount(p[o]) \in Nat
  BY <1>1 DEF SlicesMarked, Counts
<1>4. ASSUME NEW k \in 1 .. SubCount(p[o]) PROVE SubDone(p, o, k, row, ix2, pl2)
  <2>1. k \in Nat \ {0} /\ SubDone(p, o, k, row, ix, pl)
    BY <1>3 DEF SubRow
  <2> QED
    BY <2>1, <1>3, SubDoneKept
<1> QED
  BY <1>4 DEF SubRow

\* Only a layout at its sub-objects adds one.
SubAdded(p, f, ix, pl, pl2) ==
    LET d == p[f.obj].subs[SubsIn(p, f) + 1]
        e == pl2["subObjectRange"][Len(pl["subObjectRange"]) + 1]
    IN  /\ InSubs(p, f) /\ SubsIn(p, f) < SubCount(p[f.obj])
        /\ Len(pl2["subObjectRange"]) = Len(pl["subObjectRange"]) + 1
        /\ e.range = d.range /\ NamesIn(ix, e.offset, d.offset)

LEMMA SubPool ==
    ASSUME NEW p \in Programs, NEW f \in Frames(p), Busy(p, f),
           NEW row, NEW ix, NEW pl, NEW pl2, Effect(p, f, row, ix, pl, pl2)
    PROVE  \/ pl2["subObjectRange"] = pl["subObjectRange"] /\ ~InSubs(p, f)
           \/ SubAdded(p, f, ix, pl, pl2)
<1>1. CASE ~IsLayout(p, f.obj)
  <2>1. BindingsSame(pl, pl2)
    BY <1>1, OthersCalm
  <2> QED
    BY <1>1, <2>1 DEF BindingsSame, BindingPools, InSubs, Marked
<1>2. CASE IsLayout(p, f.obj)
  <2> DEFINE a == RangesIn(p, f)
             r == RangeCount(p[f.obj])
             s == SetCount(p[f.obj])
  <2>1. Phases(p, f) /\ Counts(p, f.obj) /\ f.step \in Nat \ {0}
    BY <1>2, LayoutPhases DEF Frames
  <2>2. a = f.step - 9 /\ SetsIn(p, f) = a - r /\ SubsIn(p, f) = a - r - s
    BY DEF RangesIn, SetsIn, SubsIn
  <2>3. r \in Nat /\ s \in Nat
    BY <2>1 DEF Counts
  <2>4. BindingEffect(StepOf(p, f), f.got, row, ix, pl, pl2)
    BY DEF Effect
  <2>5. CASE SetsIn(p, f) >= s
    <3>1. StepOf(p, f).op = "sub" /\ StepOf(p, f).data = p[f.obj].subs[SubsIn(p, f) + 1]
          /\ SubsIn(p, f) < SubCount(p[f.obj])
      BY <2>1, <2>5 DEF Phases
    <3>2. f.step > 8 /\ SubsIn(p, f) >= 0
      <4> HIDE DEF a, r, s
      <4> QED
        BY <2>1, <2>2, <2>3, <2>5
    <3>3. InSubs(p, f)
      BY <3>2, <1>2 DEF InSubs, Marked
    <3> QED
      BY <2>4, <3>1, <3>3 DEF SubAdded, BindingEffect
  <2>6. CASE ~(SetsIn(p, f) >= s)
    <3>1. \/ f.step < 8 \/ f.step = 8 \/ (f.step > 8 /\ a < r)
          \/ (a >= r /\ SetsIn(p, f) < s)
      <4> HIDE DEF a, r, s
      <4> QED
        BY <2>1, <2>2, <2>3, <2>6
    <3>2. StepOf(p, f).op # "sub"
      BY <2>1, <3>1 DEF Phases
    <3>3. ~(SubsIn(p, f) >= 0)
      <4> HIDE DEF a, r, s
      <4> QED
        BY <2>1, <2>2, <2>3, <2>6
    <3> QED
      BY <2>4, <3>2, <3>3 DEF BindingEffect, InSubs
  <2> QED
    BY <2>5, <2>6
<1> QED
  BY <1>1, <1>2

\* The frame of a layout that takes a step.
LEMMA SubsExactTaken ==
    ASSUME NEW p \in Programs, NEW f \in Frames(p), Busy(p, f), FrameOK(p, f),
           NEW ix, NEW pl, NEW pl2, NEW row, PoolsOK(pl), FrameDone(p, f, ix, pl),
           BindingFrame(p, f, ix, pl), InSubs(p, f) => SubsExact(p, f, ix, pl),
           Effect(p, f, row, ix, pl, pl2),
           NEW g, g.obj = f.obj, g.step = f.step + 1, g.row = row, g.got = <<>>, InSubs(p, g)
    PROVE  SubsExact(p, g, ix, pl2)
<1> DEFINE o  == f.obj
           r  == RangeCount(p[o])
           s  == SetCount(p[o])
           b  == SubCount(p[o])
           c  == SubsIn(p, f)
           sb == pl["subObjectRange"]
           sb2 == pl2["subObjectRange"]
           bo == row["subs"].off
<1>1. f.obj \in DOMAIN p /\ f.step \in Nat \ {0} /\ IsLayout(p, f.obj) /\ f.step >= 8
  BY DEF Frames, InSubs, Marked
<1>2. Phases(p, f) /\ Counts(p, f.obj)
  BY <1>1, LayoutPhases
<1>3. FrameDone(p, g, ix, pl2) /\ Grown(ix, ix, pl, pl2)
  BY TakenFrame
<1>4. SlicesMarked(p, o, row)
  <2>1. 8 \in 1 .. g.step - 1
    BY <1>1
  <2>2. StepDone(p, o, 8, row, ix, pl2)
    BY <2>1, <1>3 DEF FrameDone
  <2> QED
    BY <2>2, <1>1, MarkDone
<1>5. bo \in Nat /\ r \in Nat /\ s \in Nat /\ b \in Nat
  BY <1>2, <1>4 DEF SlicesMarked, Counts
<1>6. SubsIn(p, g) = c + 1 /\ c = f.step - 9 - r - s /\ c + 1 >= 0
  <2>1. c = f.step - 9 - r - s
    BY DEF SubsIn
  <2>2. SubsIn(p, g) = g.step - 9 - RangeCount(p[g.obj]) - SetCount(p[g.obj])
    BY DEF SubsIn
  <2>3. RangeCount(p[g.obj]) = r /\ SetCount(p[g.obj]) = s /\ g.step = f.step + 1 /\ f.step \in Nat
    BY <1>1
  <2>4. SubsIn(p, g) >= 0
    BY DEF InSubs
  <2> HIDE DEF c, r, s
  <2> QED
    BY SMTT(60), <2>1, <2>2, <2>3, <2>4, <1>5
<1>7. Len(sb) \in Nat /\ Len(sb2) \in Nat
  BY <1>3, PoolKept, ItemFacts
\* What remains to be shown.
<1>8. ASSUME /\ c + 1 < b => Len(sb2) = bo + (c + 1)
             /\ \A k \in 1 .. b : k <= c + 1 => SubDone(p, o, k, row, ix, pl2)
      PROVE  SubsExact(p, g, ix, pl2)
  BY <1>6, <1>8 DEF SubsExact
<1>9. CASE SubAdded(p, f, ix, pl, pl2)
  <2>1. InSubs(p, f) /\ Marked(p, f) /\ c >= 0 /\ c < b /\ SubsExact(p, f, ix, pl)
    BY <1>9 DEF SubAdded, InSubs
  <2>2. SlicesSame(f.row, row)
    BY <2>1, SlicesKept
  <2>3. Len(sb) = bo + c /\ \A k \in 1 .. b : k <= c => SubDone(p, o, k, f.row, ix, pl)
    BY <2>1, <2>2 DEF SubsExact, SlicesSame
  <2>4. LET d == p[o].subs[c + 1]
            e == sb2[Len(sb) + 1]
        IN  Len(sb2) = Len(sb) + 1 /\ e.range = d.range /\ NamesIn(ix, e.offset, d.offset)
    BY <1>9 DEF SubAdded
  <2>10. c \in Nat
    <3> HIDE DEF c, r, s
    <3> QED
      BY <2>1, <1>1, <1>5, <1>6
  <2>5. Len(sb) + 1 = bo + (c + 1) /\ Len(sb2) = bo + (c + 1)
    <3> HIDE DEF c, sb, sb2, bo
    <3> QED
      BY SMTT(60), <2>3, <2>4, <2>10, <1>5
  <2>6. SubDone(p, o, c + 1, row, ix, pl2)
    <3>1. bo + (c + 1) <= Len(sb2)
      BY <2>5, <1>7
    <3> HIDE DEF c
    <3> QED
      BY <2>4, <2>5, <3>1 DEF SubDone
  <2>7. \A k \in 1 .. b : k <= c => SubDone(p, o, k, row, ix, pl2)
    <3> SUFFICES ASSUME NEW k \in 1 .. b, k <= c PROVE SubDone(p, o, k, row, ix, pl2)
      OBVIOUS
    <3>1. SubDone(p, o, k, f.row, ix, pl)
      BY <2>3
    <3>2. k \in Nat \ {0}
      BY <1>5
    <3> HIDE DEF o
    <3>3. SubDone(p, o, k, row, ix, pl)
      BY <2>2, <3>1, SameSlices
    <3> QED
      BY <3>2, <3>3, <1>3, <1>5, SubDoneKept
  <2> HIDE DEF o, b, c
  <2>8. \A k \in 1 .. b : k <= c + 1 => SubDone(p, o, k, row, ix, pl2)
    <3> TAKE k \in 1 .. b
    <3>1. k <= c + 1 => k <= c \/ k = c + 1
      BY <2>10, <1>5
    <3> QED
      BY <3>1, <2>6, <2>7
  <2> QED
    BY <2>5, <2>8, <1>8
<1>10. CASE sb2 = sb /\ ~InSubs(p, f)
  <2>1. c + 1 = 0
    <3>1. f.step > 8 => ~(c >= 0)
      BY <1>1, <1>10 DEF InSubs, Marked
    <3> HIDE DEF c, r, s
    <3> QED
      BY SMTT(60), <3>1, <1>1, <1>5, <1>6
  <2>2. Len(sb) = bo
    <3>1. CASE f.step = 8
      <4>1. StepOf(p, f).op = "mark"
        BY <1>2, <3>1 DEF Phases
      <4> QED
        BY <4>1 DEF Effect, BindingEffect
    <3>2. CASE f.step > 8
      <4>1. Marked(p, f) /\ c < 0
        <5>1. c < 0
          <6> HIDE DEF c
          <6> QED
            BY <2>1, <1>1, <1>5, <1>6
        <5> QED
          BY <5>1, <3>2, <1>1 DEF Marked
      <4>2. SlicesSame(f.row, row)
        BY <4>1, SlicesKept
      <4>3. Len(sb) = f.row["subs"].off
        BY <4>1 DEF BindingFrame, Undisturbed
      <4> QED
        BY <4>2, <4>3 DEF SlicesSame
    <3> QED
      BY <3>1, <3>2, <1>1
  <2> HIDE DEF b, c, sb, sb2, bo
  <2>3. Len(sb2) = bo + (c + 1)
    BY <2>1, <2>2, <1>5, <1>10
  <2>4. \A k \in 1 .. b : ~(k <= c + 1)
    BY <2>1, <1>5
  <2> QED
    BY <2>3, <2>4, <1>8
<1> QED
  BY <1>9, <1>10, SubPool
-----------------------------------------------------------------------------
(* Every operation keeps the sub-objects.                                  *)

LEMMA SubObjectsAre ==
    ASSUME NEW p, NEW st, NEW ix, NEW tb, NEW pl
    PROVE  SubObjects(p, st, ix, tb, pl) <=>
             /\ InOrder(p, st, ix) /\ SubFrames(p, st, ix, tb, pl)
             /\ SubsBetween(p, st, ix, tb) /\ SubRows(p, st, ix, tb, pl)
BY DEF SubObjects

\* A layout that marks its slices does so behind what the layouts below it
\* have added so far.
LEMMA NewlyMarked ==
    ASSUME NEW p, NEW st, NEW ix, NEW tb, NEW pl, Sound(p, st, ix, tb, pl),
           InOrder(p, st, ix), SubFrames(p, st, ix, tb, pl),
           NEW m \in 1 .. Len(st) - 1, InSubs(p, st[m]),
           NEW f, f = st[Len(st)], IsLayout(p, f.obj),
           NEW c \in Slices, c.off = Len(pl["subObjectRange"]), c.count > 0,
           NEW st2, HasSubs(f.obj, c, st2, ix, tb),
           \A i, d : Intruded(p, i, d, st, ix, tb) => Intruded(p, i, d, st2, ix, tb)
    PROVE  Intruded(p, ix[st[m].obj], st[m].row["subs"], st2, ix, tb)
<1> DEFINE e == st[m]
           k == SubsIn(p, e)
           d == e.row["subs"]
<1>1. /\ p \in Programs /\ StackInv(p, st, ix) /\ Len(st) \in Nat /\ Registered(p, st, ix)
      /\ m \in 1 .. Len(st) /\ Len(st) \in 1 .. Len(st) /\ m < Len(st)
  BY SoundFacts
<1>2. e \in Frames(p) /\ FrameOK(p, e) /\ FrameDone(p, e, ix, pl) /\ Marked(p, e)
  BY <1>1, SoundFacts DEF InSubs
<1>3. k >= 0 /\ k < SubCount(p[e.obj])
  <2>1. ~(p[f.obj].kind \in Plain)
    BY DEF Plain, IsLayout
  <2>2. SubsIn(p, e) >= 0 /\ SubsIn(p, e) < SubCount(p[e.obj])
    BY <1>1, <1>2, <2>1, LowerCalm
  <2> QED
    BY <2>2
<1>4. SlicesMarked(p, e.obj, e.row) /\ Counts(p, e.obj) /\ e.step \in Nat
  BY <1>1, <1>2, MarkedFacts
<1>5. d.off \in Nat /\ d.count = SubCount(p[e.obj]) /\ SubCount(p[e.obj]) \in Nat
      /\ RangeCount(p[e.obj]) \in Nat /\ SetCount(p[e.obj]) \in Nat
  BY <1>4 DEF SlicesMarked, Counts
<1>6. f.obj \in DOMAIN ix /\ ix[f.obj] > ix[e.obj]
  <2>1. f.obj \in DOMAIN ix /\ e.obj \in DOMAIN ix
    BY <1>1, <1>2 DEF Registered, IsLayout, Marked
  <2>2. ix[f.obj] \in Nat /\ ix[e.obj] \in Nat
    BY <2>1, SoundFacts
  <2>3. ix[e.obj] < ix[f.obj]
    BY <1>1, <1>2 DEF InOrder, Marked
  <2> QED
    BY <2>1, <2>2, <2>3
<1>7. k \in Nat
  <2>1. k = e.step - 9 - RangeCount(p[e.obj]) - SetCount(p[e.obj])
    BY DEF SubsIn
  <2> HIDE DEF k
  <2> QED
    BY <2>1, <1>3, <1>4, <1>5
<1>8. CASE SubsExact(p, e, ix, pl)
  <2>1. c.off = d.off + k
    BY <1>3, <1>8 DEF SubsExact
  <2> HIDE DEF d, k
  <2>2. d.off <= c.off /\ c.off < d.off + d.count
    BY <2>1, <1>3, <1>5, <1>7
  <2> QED
    BY <2>2, <1>6 DEF Intruded, d
<1>9. CASE Intruded(p, ix[e.obj], d, st, ix, tb)
  BY <1>9
<1> QED
  BY <1>1, <1>8, <1>9 DEF SubFrames

LEMMA SubObjectsTaken ==
    ASSUME NEW p, NEW st, NEW st2, NEW ix, NEW tb, NEW pl, NEW pl2, Sound(p, st, ix, tb, pl),
           Bindings(p, st, ix, tb, pl), SubObjects(p, st, ix, tb, pl), Taken(p, st, st2, ix, pl, pl2)
    PROVE  SubObjects(p, st2, ix, tb, pl2)
<1>1. /\ p \in Programs /\ StackInv(p, st, ix) /\ StackOK(p, st) /\ Len(st) \in Nat /\ PoolsOK(pl)
      /\ FramesBound(p, st, ix, pl) /\ TablesDone(p, st, ix, tb, pl)
      /\ InOrder(p, st, ix) /\ SubFrames(p, st, ix, tb, pl)
      /\ SubsBetween(p, st, ix, tb) /\ SubRows(p, st, ix, tb, pl)
      /\ \A n \in 1 .. Len(st) :
           st[n] \in Frames(p) /\ FrameOK(p, st[n]) /\ FrameDone(p, st[n], ix, pl)
      /\ \A o \in DOMAIN ix : o \in DOMAIN p
  BY SoundFacts, BindingsAre, SubObjectsAre
<1>2. PICK row : /\ st # <<>> /\ Busy(p, st[Len(st)]) /\ StackOK(p, st2) /\ st2 # <<>>
                 /\ Advanced(st, st2, row) /\ Effect(p, st[Len(st)], row, ix, pl, pl2)
  BY DEF Taken
<1>3. SameFrames(st, st2)
  BY <1>1, TakenFrames
<1>4. Len(st) \in 1 .. Len(st)
  BY <1>1, <1>2, StackFacts
<1> DEFINE N == Len(st)
           f == st[N]
           g == st2[N]
<1>5. g.obj = f.obj /\ g.step = f.step + 1 /\ g.row = row /\ g.got = <<>> /\ Len(st2) = N
  BY <1>2 DEF Advanced
<1>6. /\ f \in Frames(p) /\ FrameOK(p, f) /\ FrameDone(p, f, ix, pl) /\ BindingFrame(p, f, ix, pl)
      /\ Busy(p, f) /\ Effect(p, f, row, ix, pl, pl2) /\ f.step \in Nat \ {0} /\ f.obj \in DOMAIN p
  BY <1>1, <1>2, <1>4 DEF FramesBound, Frames
<1>7. \A n \in 1 .. N : st2[n].obj = st[n].obj /\ (n # N => st2[n] = st[n])
  <2>1. \A n \in 1 .. N : n # N => n \in 1 .. N - 1
    BY <1>1
  <2> QED
    BY <2>1, <1>3, <1>5 DEF SameFrames
<1> HIDE DEF f, g
<1>8. Grown(ix, ix, pl, pl2) /\ FrameDone(p, g, ix, pl2)
  BY <1>1, <1>5, <1>6, TakenFrame
<1>9. Marked(p, f) => g.step > 8 /\ row["subs"] = f.row["subs"]
  <2> SUFFICES ASSUME Marked(p, f) PROVE g.step > 8 /\ row["subs"] = f.row["subs"]
    OBVIOUS
  <2>1. SlicesSame(f.row, row)
    BY <1>1, <1>6, SlicesKept
  <2> QED
    BY <2>1, <1>5, <1>6 DEF SlicesSame, Marked
<1>10. SubsKept(p, st, st2, ix, ix, tb, tb)
  BY <1>1, <1>3, <1>5, <1>9, FramesKeepSubs DEF f, g
<1>11. \A i, d : Intruded(p, i, d, st, ix, tb) => Intruded(p, i, d, st2, ix, tb)
  BY <1>10, SameIndex, IntrudedKept
<1>12. InOrder(p, st2, ix)
  BY <1>1, <1>5, <1>7 DEF InOrder
<1>13. ASSUME NEW m \in 1 .. N, NEW n \in 1 .. N, m < n,
              InSubs(p, st2[m]), Marked(p, st2[n]), st2[n].row["subs"].count > 0
       PROVE  Intruded(p, ix[st2[m].obj], st2[m].row["subs"], st2, ix, tb)
  <2>1. m # N /\ st2[m] = st[m] /\ m \in 1 .. N - 1
    BY <1>1, <1>7, <1>13
  <2>2. CASE n # N
    <3>1. st2[n] = st[n]
      BY <2>2, <1>7
    <3> QED
      BY <2>1, <3>1, <1>1, <1>11, <1>13 DEF SubsBetween
  <2>3. CASE n = N /\ Marked(p, f)
    <3>1. st[n] = f /\ f.row["subs"].count > 0
      BY <2>3, <1>5, <1>9, <1>13 DEF f, g
    <3> QED
      BY <2>1, <2>3, <3>1, <1>1, <1>11, <1>13 DEF SubsBetween
  <2>4. CASE n = N /\ ~Marked(p, f)
    <3>1. IsLayout(p, f.obj) /\ f.step = 8
      <4>1. st2[n] = g /\ IsLayout(p, g.obj) /\ g.step > 8
        BY <2>4, <1>13 DEF Marked, g
      <4>2. ~(f.step > 8) /\ IsLayout(p, f.obj)
        BY <4>1, <2>4, <1>5 DEF Marked
      <4> QED
        BY <4>1, <4>2, <1>5, <1>6
    <3>2. StepOf(p, f).op = "mark"
      <4>1. Phases(p, f)
        BY <3>1, <1>1, <1>6, LayoutPhases
      <4> QED
        BY <3>1, <4>1 DEF Phases
    <3>3. row["subs"].off = Len(pl["subObjectRange"])
      BY <3>2, <1>6 DEF Effect, BindingEffect
    <3>4. SlicesMarked(p, f.obj, row)
      <4>1. StepDone(p, f.obj, 8, row, ix, pl2)
        BY <3>1, <1>6 DEF Effect
      <4> QED
        BY <4>1, <3>1, <1>1, <1>6, MarkDone
    <3>5. row["subs"] \in Slices /\ row["subs"].count > 0
      BY <3>4, <2>4, <1>5, <1>13 DEF SlicesMarked, g
    <3>6. HasSubs(f.obj, row["subs"], st2, ix, tb)
      <4>1. N \in 1 .. Len(st2) /\ st2[N].obj = f.obj /\ st2[N].step > 8 /\ st2[N].row["subs"] = row["subs"]
        BY <3>1, <1>4, <1>5 DEF g
      <4> QED
        BY <4>1 DEF HasSubs
    <3>7. InSubs(p, st[m])
      BY <2>1, <1>13
    <3>8. Intruded(p, ix[st[m].obj], st[m].row["subs"], st2, ix, tb)
      BY <2>1, <3>1, <3>3, <3>5, <3>6, <3>7, <1>1, <1>11, NewlyMarked DEF f
    <3> QED
      BY <2>1, <3>8
  <2> QED
    BY <2>2, <2>3, <2>4
<1>14. ASSUME NEW n \in 1 .. N, InSubs(p, st2[n])
       PROVE  \/ Intruded(p, ix[st2[n].obj], st2[n].row["subs"], st2, ix, tb)
              \/ SubsExact(p, st2[n], ix, pl2)
  <2>1. CASE n = N
    <3>1. st2[n] = g /\ InSubs(p, g)
      BY <2>1, <1>14 DEF g
    <3>2. CASE InSubs(p, f) /\ Intruded(p, ix[f.obj], f.row["subs"], st, ix, tb)
      <4>1. g.row["subs"] = f.row["subs"]
        BY <3>2, <1>5, <1>9 DEF InSubs
      <4> QED
        BY <3>1, <3>2, <4>1, <1>5, <1>11
    <3>3. CASE ~(InSubs(p, f) /\ Intruded(p, ix[f.obj], f.row["subs"], st, ix, tb))
      <4>1. InSubs(p, f) => SubsExact(p, f, ix, pl)
        BY <3>3, <1>1, <1>4 DEF SubFrames, f
      <4>2. SubsExact(p, g, ix, pl2)
        BY <3>1, <4>1, <1>1, <1>5, <1>6, SubsExactTaken
      <4> QED
        BY <3>1, <4>2
    <3> QED
      BY <3>2, <3>3
  <2>2. CASE n # N
    <3>1. st2[n] = st[n] /\ InSubs(p, st[n]) /\ n < N
      BY <2>2, <1>1, <1>7, <1>14
    <3>2. CASE Intruded(p, ix[st[n].obj], st[n].row["subs"], st, ix, tb)
      BY <3>1, <3>2, <1>11
    <3>3. CASE SubsExact(p, st[n], ix, pl) /\ pl2["subObjectRange"] = pl["subObjectRange"]
      <4>1. SubsExact(p, st[n], ix, pl2)
        BY <3>1, <3>3, <1>1, <1>8, SubsExactKept
      <4> QED
        BY <3>1, <4>1
    <3>4. CASE SubAdded(p, f, ix, pl, pl2)
      <4>1. InSubs(p, f) /\ SubsIn(p, f) < SubCount(p[f.obj]) /\ SubsIn(p, f) >= 0 /\ Marked(p, f)
        BY <3>4 DEF SubAdded, InSubs
      <4>2. SlicesMarked(p, f.obj, f.row) /\ Counts(p, f.obj)
        BY <4>1, <1>1, <1>6, MarkedFacts
      <4>3. f.row["subs"].count > 0
        <5> DEFINE k == SubsIn(p, f)
                   b == SubCount(p[f.obj])
        <5>1. b \in Nat /\ f.row["subs"].count = b
          BY <4>2 DEF SlicesMarked, Counts
        <5>2. k = f.step - 9 - RangeCount(p[f.obj]) - SetCount(p[f.obj])
              /\ RangeCount(p[f.obj]) \in Nat /\ SetCount(p[f.obj]) \in Nat
          BY <4>2 DEF SubsIn, Counts
        <5>3. k >= 0 /\ k < b
          BY <4>1
        <5> HIDE DEF k, b
        <5>4. b > 0
          BY <5>1, <5>2, <5>3, <1>6
        <5> QED
          BY <5>1, <5>4
      <4>4. Intruded(p, ix[st[n].obj], st[n].row["subs"], st, ix, tb)
        BY <3>1, <4>1, <4>3, <1>1, <1>4 DEF SubsBetween, f
      <4> QED
        BY <3>1, <4>4, <1>11
    <3>5. pl2["subObjectRange"] = pl["subObjectRange"] \/ SubAdded(p, f, ix, pl, pl2)
      BY <1>1, <1>6, SubPool
    <3> QED
      BY <3>1, <3>2, <3>3, <3>4, <3>5, <1>1 DEF SubFrames
  <2> QED
    BY <2>1, <2>2
<1>15. ASSUME NEW o \in DOMAIN ix, IsLayout(p, o), ~OnStack(o, st2)
       PROVE  LET r == tb["typeLayout"][ix[o] + 1]
              IN  Intruded(p, ix[o], r["subs"], st2, ix, tb) \/ SubRow(p, o, r, ix, pl2)
  <2> DEFINE r == tb["typeLayout"][ix[o] + 1]
  <2>1. ~OnStack(o, st)
    BY <1>3, <1>5, <1>15, SameObjects
  <2>2. RowDone(p, o, r, ix, pl) /\ o \in DOMAIN p
    BY <2>1, <1>1, <1>15 DEF TablesDone, IsLayout
  <2>3. Intruded(p, ix[o], r["subs"], st, ix, tb) \/ SubRow(p, o, r, ix, pl)
    BY <2>1, <1>1, <1>15 DEF SubRows
  <2> HIDE DEF r
  <2>4. SubRow(p, o, r, ix, pl) => SubRow(p, o, r, ix, pl2)
    BY <2>2, <1>1, <1>8, <1>15, SubRowKept
  <2> QED
    BY <2>3, <2>4, <1>11 DEF r
<1>16. SubFrames(p, st2, ix, tb, pl2)
  BY <1>5, <1>14 DEF SubFrames
<1>17. SubsBetween(p, st2, ix, tb)
  BY <1>5, <1>13 DEF SubsBetween
<1>18. SubRows(p, st2, ix, tb, pl2)
  BY <1>15 DEF SubRows
<1> QED
  BY <1>12, <1>16, <1>17, <1>18, SubObjectsAre
\* Frames that have marked their slices stay as they are.
SubsSame(p, st, st2) ==
    \A n \in 1 .. Len(st2) : Marked(p, st2[n]) =>
      /\ n \in 1 .. Len(st)
      /\ st2[n].obj = st[n].obj /\ st2[n].step = st[n].step /\ st2[n].row = st[n].row

LEMMA CalmSubs ==
    ASSUME NEW p, NEW st, NEW st2, NEW ix, NEW ix2, NEW tb, NEW tb2, NEW pl, NEW pl2,
           Sound(p, st, ix, tb, pl), SubObjects(p, st, ix, tb, pl), Grown(ix, ix2, pl, pl2),
           pl2["subObjectRange"] = pl["subObjectRange"],
           SubsSame(p, st, st2), SubsKept(p, st, st2, ix, ix2, tb, tb2)
    PROVE  SubFrames(p, st2, ix2, tb2, pl2) /\ SubsBetween(p, st2, ix2, tb2)
<1>1. /\ p \in Programs /\ Registered(p, st, ix)
      /\ SubFrames(p, st, ix, tb, pl) /\ SubsBetween(p, st, ix, tb)
      /\ \A n \in 1 .. Len(st) :
           st[n] \in Frames(p) /\ FrameOK(p, st[n]) /\ FrameDone(p, st[n], ix, pl)
  BY SoundFacts, SubObjectsAre
<1>2. \A i, d : Intruded(p, i, d, st, ix, tb) => Intruded(p, i, d, st2, ix2, tb2)
  BY IntrudedKept DEF Grown
\* The frames of st2 are those of st.
<1>3. ASSUME NEW n \in 1 .. Len(st2), Marked(p, st2[n])
      PROVE  /\ n \in 1 .. Len(st) /\ Marked(p, st[n]) /\ SubsIn(p, st2[n]) = SubsIn(p, st[n])
             /\ st2[n].obj = st[n].obj /\ st2[n].step = st[n].step /\ st2[n].row = st[n].row
             /\ ix2[st2[n].obj] = ix[st[n].obj]
  <2>1. /\ n \in 1 .. Len(st)
        /\ st2[n].obj = st[n].obj /\ st2[n].step = st[n].step /\ st2[n].row = st[n].row
    BY <1>3 DEF SubsSame
  <2>2. Marked(p, st[n]) /\ SubsIn(p, st2[n]) = SubsIn(p, st[n])
    BY <2>1, <1>3 DEF Marked, SubsIn
  <2>3. st[n].obj \in DOMAIN ix
    BY <2>1, <2>2, <1>1 DEF Registered, Marked, IsLayout
  <2> QED
    BY <2>1, <2>2, <2>3 DEF Grown, IndexGrown
<1>4. ASSUME NEW n \in 1 .. Len(st2), InSubs(p, st2[n])
      PROVE  n \in 1 .. Len(st) /\ Marked(p, st2[n]) /\ InSubs(p, st[n])
  BY <1>3, <1>4 DEF InSubs
<1>5. ASSUME NEW n \in 1 .. Len(st2), InSubs(p, st2[n])
      PROVE  \/ Intruded(p, ix2[st2[n].obj], st2[n].row["subs"], st2, ix2, tb2)
             \/ SubsExact(p, st2[n], ix2, pl2)
  <2>1. n \in 1 .. Len(st) /\ Marked(p, st2[n]) /\ InSubs(p, st[n])
    BY <1>4, <1>5
  <2>2. /\ st2[n].obj = st[n].obj /\ st2[n].step = st[n].step /\ st2[n].row = st[n].row
        /\ ix2[st2[n].obj] = ix[st[n].obj]
    BY <2>1, <1>3
  <2>3. CASE Intruded(p, ix[st[n].obj], st[n].row["subs"], st, ix, tb)
    BY <2>2, <2>3, <1>2
  <2>4. CASE SubsExact(p, st[n], ix, pl)
    <3>1. st[n] \in Frames(p) /\ FrameOK(p, st[n]) /\ FrameDone(p, st[n], ix, pl)
      BY <2>1, <1>1
    <3>2. SubsExact(p, st2[n], ix2, pl2)
      BY <2>1, <2>2, <2>4, <3>1, <1>1, SubsExactKept
    <3> QED
      BY <3>2
  <2> QED
    BY <2>1, <2>3, <2>4, <1>1 DEF SubFrames
<1>6. ASSUME NEW m \in 1 .. Len(st2), NEW n \in 1 .. Len(st2), m < n,
             InSubs(p, st2[m]), Marked(p, st2[n]), st2[n].row["subs"].count > 0
      PROVE  Intruded(p, ix2[st2[m].obj], st2[m].row["subs"], st2, ix2, tb2)
  <2>1. m \in 1 .. Len(st) /\ Marked(p, st2[m]) /\ InSubs(p, st[m])
    BY <1>4, <1>6
  <2>2. st2[m].row = st[m].row /\ ix2[st2[m].obj] = ix[st[m].obj]
    BY <2>1, <1>3
  <2>3. n \in 1 .. Len(st) /\ Marked(p, st[n]) /\ st2[n].row = st[n].row
    BY <1>3, <1>6
  <2>4. Intruded(p, ix[st[m].obj], st[m].row["subs"], st, ix, tb)
    BY <2>1, <2>3, <1>1, <1>6 DEF SubsBetween
  <2> QED
    BY <2>2, <2>4, <1>2
<1> QED
  BY <1>5, <1>6 DEF SubFrames, SubsBetween

\* The row of a layout that was off the stack.
LEMMA CalmRow ==
    ASSUME NEW p, NEW st, NEW st2, NEW ix, NEW ix2, NEW tb, NEW tb2, NEW pl, NEW pl2,
           Sound(p, st, ix, tb, pl), SubRows(p, st, ix, tb, pl), Grown(ix, ix2, pl, pl2),
           SubsKept(p, st, st2, ix, ix2, tb, tb2), NEW o \in DOMAIN ix, IsLayout(p, o), ~OnStack(o, st)
    PROVE  LET r == tb["typeLayout"][ix[o] + 1]
           IN  Intruded(p, ix[o], r["subs"], st2, ix2, tb2) \/ SubRow(p, o, r, ix2, pl2)
<1> DEFINE r == tb["typeLayout"][ix[o] + 1]
<1>1. p \in Programs /\ o \in DOMAIN p /\ TablesDone(p, st, ix, tb, pl)
  BY SoundFacts
<1>2. RowDone(p, o, r, ix, pl)
  BY <1>1 DEF TablesDone, IsLayout
<1>3. Intruded(p, ix[o], r["subs"], st, ix, tb) \/ SubRow(p, o, r, ix, pl)
  BY DEF SubRows
<1> HIDE DEF r
<1>4. \A i, d : Intruded(p, i, d, st, ix, tb) => Intruded(p, i, d, st2, ix2, tb2)
  BY IntrudedKept DEF Grown
<1>5. SubRow(p, o, r, ix, pl) => SubRow(p, o, r, ix2, pl2)
  BY <1>1, <1>2, SubRowKept
<1> QED
  BY <1>3, <1>4, <1>5 DEF r

LEMMA SubObjectsPassed ==
    ASSUME NEW p, NEW st, NEW st2, NEW i, NEW ix, NEW tb, NEW pl, NEW pl2, Sound(p, st, ix, tb, pl),
           SubObjects(p, st, ix, tb, pl), Passed(p, st, st2, i, ix, pl, pl2)
    PROVE  SubObjects(p, st2, ix, tb, pl2)
<1>1. /\ p \in Programs /\ StackOK(p, st) /\ Len(st) \in Nat /\ PoolsOK(pl)
      /\ InOrder(p, st, ix) /\ SubRows(p, st, ix, tb, pl)
  BY SoundFacts, SubObjectsAre
<1>2. /\ st # <<>> /\ Given(st, st2, i) /\ PoolsOK(pl2) /\ PoolGrown(pl, pl2)
      /\ pl2["subObjectRange"] = pl["subObjectRange"]
  BY DEF Passed
<1>3. SameFrames(st, st2)
  BY <1>1, PassedFrames
<1> DEFINE N == Len(st)
<1>4. /\ Len(st2) = N /\ SameBelow(st, st2, N - 1)
      /\ st2[N].obj = st[N].obj /\ st2[N].step = st[N].step /\ st2[N].row = st[N].row
  BY <1>2 DEF Given
<1>5. \A n \in 1 .. N : st2[n].obj = st[n].obj /\ st2[n].step = st[n].step /\ st2[n].row = st[n].row
  <2>1. \A n \in 1 .. N : n = N \/ n \in 1 .. N - 1
    BY <1>1
  <2> QED
    BY <2>1, <1>4 DEF SameBelow
<1>6. Grown(ix, ix, pl, pl2)
  BY <1>1, <1>2, SameIndex DEF Grown
<1>7. SubsSame(p, st, st2)
  BY <1>4, <1>5 DEF SubsSame
<1>8. SubsKept(p, st, st2, ix, ix, tb, tb)
  <2>1. Marked(p, st[N]) => st2[N].step > 8 /\ st2[N].row["subs"] = st[N].row["subs"]
    BY <1>4 DEF Marked
  <2> QED
    BY <2>1, <1>1, <1>3, <1>4, FramesKeepSubs
<1>9. SubFrames(p, st2, ix, tb, pl2) /\ SubsBetween(p, st2, ix, tb)
  BY <1>2, <1>6, <1>7, <1>8, CalmSubs
<1>10. InOrder(p, st2, ix)
  BY <1>1, <1>4, <1>5 DEF InOrder
<1>11. SubRows(p, st2, ix, tb, pl2)
  <2> SUFFICES ASSUME NEW o \in DOMAIN ix, IsLayout(p, o), ~OnStack(o, st2)
               PROVE  LET r == tb["typeLayout"][ix[o] + 1]
                      IN  Intruded(p, ix[o], r["subs"], st2, ix, tb) \/ SubRow(p, o, r, ix, pl2)
    BY DEF SubRows
  <2>1. ~OnStack(o, st)
    BY <1>3, <1>4, SameObjects
  <2> QED
    BY <2>1, <1>1, <1>6, <1>8, CalmRow
<1> QED
  BY <1>9, <1>10, <1>11, SubObjectsAre

LEMMA SubObjectsEntered ==
    ASSUME NEW p, NEW st, NEW st2, NEW ix, NEW ix2, NEW tb, NEW tb2, NEW pl, Sound(p, st, ix, tb, pl),
           SubObjects(p, st, ix, tb, pl), Entered(p, st, st2, ix, ix2, tb, tb2)
    PROVE  SubObjects(p, st2, ix2, tb2, pl)
<1>1. /\ p \in Programs /\ StackOK(p, st) /\ Len(st) \in Nat /\ PoolsOK(pl)
      /\ IndexOK(p, ix, tb) /\ TablesOK(tb) /\ Registered(p, st, ix)
      /\ InOrder(p, st, ix) /\ SubRows(p, st, ix, tb, pl)
  BY SoundFacts, SubObjectsAre
<1>2. Registered(p, st2, ix2)
  BY EnteredSound, SoundFacts
<1>3. PICK t : EnteredFacts(p, st, st2, ix, ix2, tb, tb2, t)
  BY <1>1, EnteredIs
<1> DEFINE N == Len(st)
<1>4. /\ IndexGrown(ix, ix2) /\ DOMAIN ix2 \subseteq DOMAIN ix \cup {t} /\ TablesGrown(tb, tb2)
      /\ t \notin DOMAIN ix /\ (t \in DOMAIN ix2 => ix2[t] = Len(tb[p[t].kind]))
      /\ Len(st2) = N + 1 /\ \A n \in 1 .. N : st2[n] = st[n]
      /\ st2[N + 1].obj = t /\ st2[N + 1].step = 1
  BY <1>3 DEF EnteredFacts
<1>5. \A n \in 1 .. Len(st2) : n \in 1 .. N \/ n = N + 1
  BY <1>1, <1>4
<1>6. Grown(ix, ix2, pl, pl)
  BY <1>1, <1>4, NotGrown DEF Grown
<1>7. SubsSame(p, st, st2)
  <2> SUFFICES ASSUME NEW n \in 1 .. Len(st2), Marked(p, st2[n]) PROVE n \in 1 .. N /\ st2[n] = st[n]
    BY DEF SubsSame
  <2>1. CASE n = N + 1
    BY <2>1, <1>4 DEF Marked
  <2> QED
    BY <2>1, <1>4, <1>5
\* A layout that was off the stack is off it, and its row is the same.
<1>8. ASSUME NEW o \in DOMAIN ix, IsLayout(p, o)
      PROVE  /\ ix2[o] = ix[o] /\ tb2["typeLayout"][ix2[o] + 1] = tb["typeLayout"][ix[o] + 1]
             /\ OnStack(o, st2) => OnStack(o, st)
             /\ ix[o] \in Nat /\ Len(tb["typeLayout"]) \in Nat /\ ix[o] < Len(tb["typeLayout"])
  <2>1. /\ tb2[p[o].kind][ix[o] + 1] = tb[p[o].kind][ix[o] + 1]
        /\ ix[o] \in Nat /\ Len(tb[p[o].kind]) \in Nat /\ ix[o] < Len(tb[p[o].kind])
    BY <1>1, <1>4, RowFound
  <2>2. OnStack(o, st2) => OnStack(o, st)
    BY <1>4, <1>5 DEF OnStack
  <2> QED
    BY <2>1, <2>2, <1>4, <1>8 DEF IndexGrown, IsLayout
<1>9. SubsKept(p, st, st2, ix, ix2, tb, tb2)
  <2> SUFFICES ASSUME NEW o \in DOMAIN ix, NEW c, IsLayout(p, o), HasSubs(o, c, st, ix, tb)
               PROVE  HasSubs(o, c, st2, ix2, tb2)
    BY DEF SubsKept
  <2>1. CASE \E n \in 1 .. N : st[n].obj = o /\ st[n].step > 8 /\ st[n].row["subs"] = c
    <3>1. PICK n \in 1 .. N : st[n].obj = o /\ st[n].step > 8 /\ st[n].row["subs"] = c
      BY <2>1
    <3>2. n \in 1 .. Len(st2) /\ st2[n] = st[n]
      BY <1>1, <1>4
    <3> QED
      BY <3>1, <3>2 DEF HasSubs
  <2>2. CASE ~OnStack(o, st) /\ tb["typeLayout"][ix[o] + 1]["subs"] = c
    BY <2>2, <1>8 DEF HasSubs
  <2> QED
    BY <2>1, <2>2 DEF HasSubs
<1>10. SubFrames(p, st2, ix2, tb2, pl) /\ SubsBetween(p, st2, ix2, tb2)
  BY <1>6, <1>7, <1>9, CalmSubs
<1>11. InOrder(p, st2, ix2)
  <2> SUFFICES ASSUME NEW m \in 1 .. Len(st2), NEW n \in 1 .. Len(st2), m < n,
                      IsLayout(p, st2[m].obj), IsLayout(p, st2[n].obj)
               PROVE  ix2[st2[m].obj] < ix2[st2[n].obj]
    BY DEF InOrder
  <2>1. m \in 1 .. N /\ st2[m] = st[m]
    BY <1>1, <1>4
  <2>2. st[m].obj \in DOMAIN ix /\ IsLayout(p, st[m].obj)
    BY <2>1, <1>1 DEF Registered, IsLayout
  <2>3. ix2[st2[m].obj] = ix[st[m].obj] /\ ix[st[m].obj] < Len(tb["typeLayout"])
    BY <2>1, <2>2, <1>8
  <2>4. CASE n = N + 1
    <3>1. t \in DOMAIN ix2 /\ p[t].kind = "typeLayout"
      BY <2>4, <1>2, <1>4 DEF Registered, IsLayout
    <3> QED
      BY <2>3, <2>4, <3>1, <1>4
  <2>5. CASE n \in 1 .. N
    <3>1. st2[n] = st[n] /\ st[n].obj \in DOMAIN ix /\ IsLayout(p, st[n].obj)
      BY <2>5, <1>1, <1>4 DEF Registered, IsLayout
    <3>2. ix[st[m].obj] < ix[st[n].obj]
      BY <2>1, <2>2, <2>5, <3>1, <1>1 DEF InOrder
    <3> QED
      BY <2>3, <3>1, <3>2, <1>8
  <2> QED
    BY <2>4, <2>5, <1>5
<1>12. SubRows(p, st2, ix2, tb2, pl)
  <2> SUFFICES ASSUME NEW o \in DOMAIN ix2, IsLayout(p, o), ~OnStack(o, st2)
               PROVE  LET r == tb2["typeLayout"][ix2[o] + 1]
                      IN  Intruded(p, ix2[o], r["subs"], st2, ix2, tb2) \/ SubRow(p, o, r, ix2, pl)
    BY DEF SubRows
  <2>1. N + 1 \in 1 .. Len(st2)
    BY <1>1, <1>4
  <2>2. o \in DOMAIN ix
    BY <2>1, <1>4 DEF OnStack
  <2>3. ~OnStack(o, st)
    <3>1. \A n \in 1 .. N : n \in 1 .. Len(st2)
      BY <1>1, <1>4
    <3> QED
      BY <3>1, <1>4 DEF OnStack
  <2>4. LET r == tb["typeLayout"][ix[o] + 1]
        IN  Intruded(p, ix[o], r["subs"], st2, ix2, tb2) \/ SubRow(p, o, r, ix2, pl)
    BY <2>2, <2>3, <1>1, <1>6, <1>9, CalmRow
  <2> QED
    BY <2>2, <2>4, <1>8
<1> QED
  BY <1>10, <1>11, <1>12, SubObjectsAre

LEMMA SubObjectsLeft ==
    ASSUME NEW p, NEW st, NEW st2, NEW i, NEW ix, NEW tb, NEW tb2, NEW pl, Sound(p, st, ix, tb, pl),
           SubObjects(p, st, ix, tb, pl), Left(p, st, st2, i, ix, tb, tb2)
    PROVE  SubObjects(p, st2, ix, tb2, pl)
<1>1. /\ p \in Programs /\ Len(st) \in Nat /\ PoolsOK(pl) /\ OnceOnStack(st)
      /\ InOrder(p, st, ix) /\ SubRows(p, st, ix, tb, pl) /\ SubFrames(p, st, ix, tb, pl)
      /\ \A n \in 1 .. Len(st) : st[n] \in Frames(p) /\ FrameOK(p, st[n])
  BY SMTT(60), SoundFacts, SubObjectsAre
<1>2. LeftFacts(p, st, st2, ix, tb, tb2)
  BY LeftIs
<1> DEFINE N == Len(st)
           e == st[N]
<1>3. /\ N - 1 \in Nat \ {0} /\ Len(st2) = N - 1 /\ ~Busy(p, e)
      /\ \A m \in 1 .. N - 1 : st2[m].obj = st[m].obj /\ st2[m].step = st[m].step /\ st2[m].row = st[m].row
      /\ RowsKept(p, ix, tb, tb2, e.obj)
      /\ e.obj \in DOMAIN ix => tb2[p[e.obj].kind][ix[e.obj] + 1] = e.row
  BY <1>2 DEF LeftFacts
<1>4. Grown(ix, ix, pl, pl)
  BY <1>1, SameIndex, NotGrown DEF Grown
<1>5. N \in 1 .. N /\ \A m \in 1 .. Len(st2) : m \in 1 .. N /\ m \in 1 .. N - 1 /\ m # N
  BY <1>1, <1>3
<1>6. SubsSame(p, st, st2)
  BY <1>3, <1>5 DEF SubsSame
<1>7. SubsKept(p, st, st2, ix, ix, tb, tb2)
  <2> SUFFICES ASSUME NEW o \in DOMAIN ix, NEW c, IsLayout(p, o), HasSubs(o, c, st, ix, tb)
               PROVE  HasSubs(o, c, st2, ix, tb2)
    BY DEF SubsKept
  <2>1. CASE \E n \in 1 .. N : st[n].obj = o /\ st[n].step > 8 /\ st[n].row["subs"] = c
    <3>1. PICK n \in 1 .. N : st[n].obj = o /\ st[n].step > 8 /\ st[n].row["subs"] = c
      BY <2>1
    <3>2. CASE n = N
      <4>1. tb2["typeLayout"][ix[o] + 1]["subs"] = c
        BY <3>1, <3>2, <1>3 DEF IsLayout
      <4>2. ~OnStack(o, st2)
        BY ZenonT(60), <3>1, <3>2, <1>1, <1>3, <1>5 DEF OnStack, OnceOnStack
      <4> QED
        BY <4>1, <4>2 DEF HasSubs
    <3>3. CASE n # N
      <4>1. n \in 1 .. Len(st2) /\ n \in 1 .. N - 1
        BY <3>3, <1>1, <1>3
      <4> QED
        BY <3>1, <4>1, <1>3 DEF HasSubs
    <3> QED
      BY <3>2, <3>3
  <2>2. CASE ~OnStack(o, st) /\ tb["typeLayout"][ix[o] + 1]["subs"] = c
    <3>1. o # e.obj /\ ~OnStack(o, st2)
      BY <2>2, <1>3, <1>5 DEF OnStack
    <3>2. tb2["typeLayout"][ix[o] + 1] = tb["typeLayout"][ix[o] + 1]
      BY <3>1, <1>3 DEF RowsKept, IsLayout
    <3> QED
      BY <2>2, <3>1, <3>2 DEF HasSubs
  <2> QED
    BY <2>1, <2>2 DEF HasSubs
<1>8. SubFrames(p, st2, ix, tb2, pl) /\ SubsBetween(p, st2, ix, tb2)
  BY <1>4, <1>6, <1>7, CalmSubs
<1>9. InOrder(p, st2, ix)
  BY <1>1, <1>3, <1>5 DEF InOrder
<1>10. SubRows(p, st2, ix, tb2, pl)
  <2> SUFFICES ASSUME NEW o \in DOMAIN ix, IsLayout(p, o), ~OnStack(o, st2)
               PROVE  LET r == tb2["typeLayout"][ix[o] + 1]
                      IN  Intruded(p, ix[o], r["subs"], st2, ix, tb2) \/ SubRow(p, o, r, ix, pl)
    BY DEF SubRows
  <2>1. CASE o = e.obj
    <3>1. tb2["typeLayout"][ix[o] + 1] = e.row /\ IsLayout(p, e.obj)
      BY <2>1, <1>3 DEF IsLayout
    <3>2. e \in Frames(p) /\ FrameOK(p, e)
      BY <1>1, <1>5
    <3>3. Marked(p, e) /\ Counts(p, o) /\ SubsIn(p, e) = SubCount(p[o])
      BY <2>1, <3>1, <3>2, <1>1, <1>3, LayoutEnd
    <3>4. SubCount(p[o]) \in Nat
      BY <3>3 DEF Counts
    <3>5. InSubs(p, e) /\ \A k \in 1 .. SubCount(p[o]) : k <= SubsIn(p, e)
      BY <3>3, <3>4 DEF InSubs
    <3>6. CASE Intruded(p, ix[o], e.row["subs"], st, ix, tb)
      <4>1. Intruded(p, ix[o], e.row["subs"], st2, ix, tb2)
        BY <3>6, <1>7, SameIndex, IntrudedKept
      <4> QED
        BY <3>1, <4>1
    <3>7. CASE SubsExact(p, e, ix, pl)
      <4>1. SubRow(p, o, e.row, ix, pl)
        BY <2>1, <3>5, <3>7 DEF SubsExact, SubRow
      <4> QED
        BY <3>1, <4>1
    <3> QED
      BY <2>1, <3>5, <3>6, <3>7, <1>1, <1>5 DEF SubFrames
  <2>2. CASE o # e.obj
    <3>1. ~OnStack(o, st)
      BY <2>2, <1>1, <1>2, LeftObjects
    <3>2. tb2["typeLayout"][ix[o] + 1] = tb["typeLayout"][ix[o] + 1]
      BY <2>2, <1>3 DEF RowsKept, IsLayout
    <3>3. LET r == tb["typeLayout"][ix[o] + 1]
          IN  Intruded(p, ix[o], r["subs"], st2, ix, tb2) \/ SubRow(p, o, r, ix, pl)
      BY <3>1, <1>1, <1>4, <1>7, CalmRow
    <3> QED
      BY <3>2, <3>3
  <2> QED
    BY <2>1, <2>2
<1> QED
  BY <1>8, <1>9, <1>10, SubObjectsAre
-----------------------------------------------------------------------------
(* The invariant of the binding tables.                                    *)

LEMMA NothingOnStack ==
    ASSUME NEW p, NEW st, NEW ix, NEW tb, NEW pl, Sound(p, st, ix, tb, pl), Len(st) = 1 \/ DOMAIN ix = {}
    PROVE  \A o \in DOMAIN ix : ~OnStack(o, st)
<1> SUFFICES ASSUME NEW o \in DOMAIN ix, Len(st) = 1, NEW n \in 1 .. Len(st), st[n].obj = o PROVE FALSE
  BY DEF OnStack
<1>1. p \in Programs /\ StackOK(p, st) /\ IndexOK(p, ix, tb)
  BY SoundFacts
<1>2. n = 1 /\ st # <<>>
  BY EmptySeqs
<1>3. o = "root"
  BY <1>1, <1>2 DEF StackOK
<1> QED
  BY <1>1, <1>3, ProgramFacts DEF IndexOK, Indexed

LEMMA LayoutsFinished ==
    ASSUME NEW p, NEW st, NEW ix, NEW tb, NEW pl, Sound(p, st, ix, tb, pl), Len(st) = 1 \/ DOMAIN ix = {},
           Bindings(p, st, ix, tb, pl), SubObjects(p, st, ix, tb, pl)
    PROVE  Bindings(p, <<>>, ix, tb, pl) /\ SubObjects(p, <<>>, ix, tb, pl)
<1> DEFINE e == <<>>
<1>1. \A n : ~(n \in 1 .. Len(e))
  BY EmptySeqs
<1> HIDE DEF e
<1>2. \A o : ~OnStack(o, e)
  BY <1>1 DEF OnStack
<1>3. \A o \in DOMAIN ix : ~OnStack(o, st)
  BY NothingOnStack
<1>4. RowsBound(p, st, ix, tb, pl) /\ SubRows(p, st, ix, tb, pl) /\ PoolsOK(pl)
  BY BindingsAre, SubObjectsAre, SoundFacts
<1>5. FramesBound(p, e, ix, pl) /\ RowsBound(p, e, ix, tb, pl)
  BY <1>1, <1>3, <1>4 DEF FramesBound, RowsBound
<1>6. SubsKept(p, st, e, ix, ix, tb, tb)
  <2> SUFFICES ASSUME NEW o \in DOMAIN ix, NEW c, HasSubs(o, c, st, ix, tb) PROVE HasSubs(o, c, e, ix, tb)
    BY DEF SubsKept
  <2> QED
    BY <1>2, <1>3 DEF HasSubs, OnStack
<1>7. Grown(ix, ix, pl, pl)
  BY <1>4, SameIndex, NotGrown DEF Grown
<1>8. SubRows(p, e, ix, tb, pl)
  <2> SUFFICES ASSUME NEW o \in DOMAIN ix, IsLayout(p, o)
               PROVE  LET r == tb["typeLayout"][ix[o] + 1]
                      IN  Intruded(p, ix[o], r["subs"], e, ix, tb) \/ SubRow(p, o, r, ix, pl)
    BY DEF SubRows
  <2> QED
    BY <1>3, <1>4, <1>6, <1>7, CalmRow
<1>9. InOrder(p, e, ix) /\ SubFrames(p, e, ix, tb, pl) /\ SubsBetween(p, e, ix, tb)
  BY <1>1 DEF InOrder, SubFrames, SubsBetween
<1>10. Bindings(p, e, ix, tb, pl) /\ SubObjects(p, e, ix, tb, pl)
  BY <1>5, <1>8, <1>9, BindingsAre, SubObjectsAre
<1> QED
  BY <1>10 DEF e

LEMMA InitLayouts == Init => LayoutsInv
<1> SUFFICES ASSUME Init PROVE LayoutsInv
  OBVIOUS
<1>1. DOMAIN index = {} /\ stack = <<Frame("root", Blank)>>
  BY DEF Init
<1>2. \A n \in 1 .. Len(stack) : n = 1
  BY <1>1
<1>3. stack[1].step = 1
  BY <1>1 DEF Frame
<1>4. \A n \in 1 .. Len(stack) : ~Marked(prog, stack[n])
  BY <1>2, <1>3 DEF Marked
<1>5. FramesBound(prog, stack, index, pool) /\ RowsBound(prog, stack, index, table, pool)
  BY <1>1, <1>4 DEF FramesBound, RowsBound, BindingFrame
<1>6. /\ InOrder(prog, stack, index) /\ SubFrames(prog, stack, index, table, pool)
      /\ SubsBetween(prog, stack, index, table) /\ SubRows(prog, stack, index, table, pool)
  BY <1>1, <1>2, <1>4 DEF InOrder, SubFrames, InSubs, SubsBetween, SubRows
<1> QED
  BY <1>5, <1>6, BindingsAre, SubObjectsAre DEF LayoutsInv

LEMMA NextLayouts == Shape /\ Progress /\ LayoutsInv /\ [Next]_vars => LayoutsInv'
<1> SUFFICES ASSUME Shape, Progress, LayoutsInv, [Next]_vars
             PROVE  Bindings(prog', stack', index', table', pool') /\ SubObjects(prog', stack', index', table', pool')
  BY DEF LayoutsInv, Bindings, SubObjects, InOrder, SubFrames, SubsBetween, SubRows
<1>1. Sound(prog, stack, index, table, pool) /\ (prog["root"].layout \/ DOMAIN index = {})
      /\ Bindings(prog, stack, index, table, pool) /\ SubObjects(prog, stack, index, table, pool)
  BY SoundState DEF LayoutsInv
<1>2. CASE UNCHANGED vars
  BY <1>1, <1>2 DEF vars
<1>3. CASE Next
  <2>1. CASE Same /\ Taken(prog, stack, stack', index, pool, pool')
    <3>1. Bindings(prog, stack', index, table, pool') /\ SubObjects(prog, stack', index, table, pool')
      BY <2>1, <1>1, BindingsTaken, SubObjectsTaken
    <3> QED
      BY <2>1, <3>1 DEF Same
  <2>2. CASE Same /\ \E i \in Nat : Passed(prog, stack, stack', i, index, pool, pool')
    <3>1. Bindings(prog, stack', index, table, pool') /\ SubObjects(prog, stack', index, table, pool')
      BY <2>2, <1>1, BindingsPassed, SubObjectsPassed
    <3> QED
      BY <2>2, <3>1 DEF Same
  <2>3. CASE /\ prog' = prog /\ pool' = pool /\ file' = file /\ prog["root"].layout
             /\ Entered(prog, stack, stack', index, index', table, table')
    <3>1. Bindings(prog, stack', index', table', pool) /\ SubObjects(prog, stack', index', table', pool)
      BY <2>3, <1>1, BindingsEntered, SubObjectsEntered
    <3> QED
      BY <2>3, <3>1
  <2>4. CASE /\ prog' = prog /\ pool' = pool /\ file' = file /\ index' = index
             /\ \E i \in Nat : Left(prog, stack, stack', i, index, table, table')
    <3>1. Bindings(prog, stack', index, table', pool) /\ SubObjects(prog, stack', index, table', pool)
      BY <2>4, <1>1, BindingsLeft, SubObjectsLeft
    <3> QED
      BY <2>4, <3>1
  <2>5. CASE Finished
    <3>1. Bindings(prog, <<>>, index, table, pool) /\ SubObjects(prog, <<>>, index, table, pool)
      BY <2>5, <1>1, LayoutsFinished DEF Finished
    <3> QED
      BY <2>5, <3>1 DEF Finished
  <2> QED
    BY <1>2, <1>3, <2>1, <2>2, <2>3, <2>4, <2>5, Operations
<1> QED
  BY <1>2, <1>3

LEMMA LayoutsInvariant == Spec => [](Shape /\ Progress /\ LayoutsInv)
<1>1. Init => LayoutsInv
  BY InitLayouts
<1>2. Shape /\ Progress /\ LayoutsInv /\ [Next]_vars => LayoutsInv'
  BY NextLayouts
<1> QED
  BY <1>1, <1>2, Invariant, PTL DEF Spec

-----------------------------------------------------------------------------
(* The binding tables of the file.                                         *)

LEMMA WrittenLayout ==
    ASSUME Shape, Progress, LayoutsInv, NEW o \in LayoutsDone
    PROVE  LET r == table["typeLayout"][index[o] + 1]
           IN  /\ o \in DOMAIN index /\ o \in DOMAIN prog /\ IsLayout(prog, o) /\ prog \in Programs
               /\ RowDone(prog, o, r, index, pool) /\ BindingRow(prog, o, r, index, pool)
               /\ \/ Intruded(prog, index[o], r["subs"], stack, index, table)
                  \/ SubRow(prog, o, r, index, pool)
               /\ \A g : ~OnStack(g, stack)
<1>1. o \in DOMAIN index /\ IsLayout(prog, o) /\ stack = <<>>
  BY DEF LayoutsDone, IsLayout, Written, Shape
<1>2. \A g : ~OnStack(g, stack)
  BY <1>1, EmptySeqs DEF OnStack
<1>3. Sound(prog, stack, index, table, pool)
  BY SoundState
<1>4. prog \in Programs /\ o \in DOMAIN prog /\ TablesDone(prog, stack, index, table, pool)
  BY <1>1, <1>3, SoundFacts
<1>5. RowsBound(prog, stack, index, table, pool) /\ SubRows(prog, stack, index, table, pool)
  BY BindingsAre, SubObjectsAre DEF LayoutsInv
<1> QED
  BY <1>1, <1>2, <1>4, <1>5 DEF TablesDone, RowsBound, SubRows, IsLayout

\* The binding ranges and descriptor sets of a layout are its own: the
\* recursion from a binding range only reaches variables and types, so that no
\* other layout adds rows to these tables between those of one layout.
THEOREM BindingSlicesAreOwn == Spec => []BindingSlicesExact
<1>1. Shape /\ Progress /\ LayoutsInv => BindingSlicesExact
  <2> SUFFICES ASSUME Shape, Progress, LayoutsInv, NEW o \in LayoutsDone, Walked(o)
               PROVE  LET x == prog[o]
                          r == table["typeLayout"][index[o] + 1]
                      IN  /\ \A k \in DOMAIN x.ranges :
                               LET row == pool["bindingRange"][r["ranges"].off + k]
                               IN  /\ row.type = x.ranges[k].type /\ NamesIn(index, row.var, x.ranges[k].var)
                                   /\ row.leaf = Invalid \/ NamesIn(index, row.leaf, x.ranges[k].leaf)
                          /\ \A k \in DOMAIN x.sets :
                               Holds(pool["descriptorSet"][r["sets"].off + k], "descriptorRange", x.sets[k])
    BY DEF BindingSlicesExact, LayoutRow, Names, NamesIn
  <2> DEFINE x == prog[o]
             r == table["typeLayout"][index[o] + 1]
  <2>1. prog \in Programs /\ o \in DOMAIN prog /\ IsLayout(prog, o) /\ BindingRow(prog, o, r, index, pool)
        /\ RowDone(prog, o, r, index, pool)
    BY WrittenLayout
  <2>2. x.ranges \in Seq([type : Nat, var : Pointers(prog, {"var"}), leaf : Pointers(prog, {"typeLayout"})])
        /\ x.sets \in Seq(Seq(Nat)) /\ RangeCount(x) \in Nat /\ SetCount(x) \in Nat
    BY <2>1, TypedLayout
  <2>3. RangeCount(x) = Len(x.ranges) /\ SetCount(x) = Len(x.sets)
    BY DEF RangeCount, SetCount, Walked
  <2>4. DOMAIN x.ranges = 1 .. RangeCount(x) /\ DOMAIN x.sets = 1 .. SetCount(x)
    BY <2>2, <2>3
  <2>5. SlicesMarked(prog, o, r)
    BY <2>1, RowMarked
  <2>6. r["sets"].off \in Nat /\ pool["descriptorRange"] \in Seq(Nat)
        /\ pool["descriptorSet"] \in Seq(Slices)
    BY SMTT(60), <2>5, ItemFacts DEF SlicesMarked, Shape, PoolsOK
  <2> HIDE DEF r
  <2>7. ASSUME NEW k \in DOMAIN x.ranges
        PROVE  LET row == pool["bindingRange"][r["ranges"].off + k]
               IN  /\ row.type = x.ranges[k].type /\ NamesIn(index, row.var, x.ranges[k].var)
                   /\ row.leaf = Invalid \/ NamesIn(index, row.leaf, x.ranges[k].leaf)
    <3>1. RangeDone(prog, o, k, r, index, pool)
      BY SMTT(60), <2>1, <2>4 DEF BindingRow
    <3> QED
      BY <3>1 DEF RangeDone
  <2>8. ASSUME NEW k \in DOMAIN x.sets
        PROVE  Holds(pool["descriptorSet"][r["sets"].off + k], "descriptorRange", x.sets[k])
    <3> DEFINE d == x.sets[k]
               j == r["sets"].off + k
               b == pool["descriptorSet"][j]
               s == pool["descriptorRange"]
    <3>1. SetDone(prog, o, k, r, pool)
      BY SMTT(60), <2>1, <2>4 DEF BindingRow
    <3>2. /\ j <= Len(pool["descriptorSet"]) /\ b.count = Len(d) /\ b.off + b.count <= Len(s)
          /\ \A n \in 1 .. Len(d) : s[b.off + n] = d[n]
      BY <3>1 DEF SetDone
    <3>3. d \in Seq(Nat) /\ k \in Nat \ {0}
      BY SMTT(60), <2>2
    <3>4. b \in Slices
      <4>1. r["sets"].off \in Nat
        BY <2>6
      <4>2. Len(pool["descriptorSet"]) \in Nat
        BY <2>6
      <4> HIDE DEF x
      <4>3. j \in Nat \ {0}
        BY <3>3, <4>1
      <4> HIDE DEF j
      <4>4. j \in 1 .. Len(pool["descriptorSet"])
        BY <3>2, <4>2, <4>3
      <4> QED
        BY <2>6, <4>4
    <3>5. b.off \in Nat
      BY <3>4 DEF Slices
    <3> HIDE DEF d, b, s
    <3>6. Follows(s, b.off, d)
      BY <3>2 DEF Follows
    <3>7. SubSeq(s, b.off + 1, b.off + Len(d)) = d
      BY ZenonT(60), <2>6, <3>3, <3>5, <3>6, SliceIs DEF s
    <3> QED
      BY <3>2, <3>7 DEF Holds, s, d, b
  <2> QED
    BY ZenonT(60), <2>7, <2>8 DEF r
<1> QED
  BY <1>1, LayoutsInvariant, PTL

\* A layout's slice of sub-objects is exact, or else the slice of a layout
\* first met below it starts inside it: addTypeLayout notes where its
\* sub-objects begin and then meets other layouts between them.
THEOREM SubObjectSlicesOverlap == Spec => []SubObjectSliceUnlessIntruded
<1>1. Shape /\ Progress /\ LayoutsInv => SubObjectSliceUnlessIntruded
  <2> SUFFICES ASSUME Shape, Progress, LayoutsInv, NEW o \in LayoutsDone, Walked(o)
               PROVE  LET subs == prog[o].subs
                          r == table["typeLayout"][index[o] + 1]
                      IN  \/ \E n \in LayoutsDone : Intrudes(n, o)
                          \/ /\ r["subs"].count = Len(subs)
                             /\ r["subs"].off + Len(subs) <= Len(pool["subObjectRange"])
                             /\ \A k \in DOMAIN subs :
                                  LET row == pool["subObjectRange"][r["subs"].off + k]
                                  IN  row.range = subs[k].range /\ NamesIn(index, row.offset, subs[k].offset)
    BY DEF SubObjectSliceUnlessIntruded, OwnSubObjects, LayoutRow, Names, NamesIn
  <2> DEFINE subs == prog[o].subs
             r == table["typeLayout"][index[o] + 1]
             d == r["subs"]
  <2>1. /\ prog \in Programs /\ o \in DOMAIN prog /\ IsLayout(prog, o)
        /\ RowDone(prog, o, r, index, pool) /\ BindingRow(prog, o, r, index, pool)
        /\ Intruded(prog, index[o], d, stack, index, table) \/ SubRow(prog, o, r, index, pool)
        /\ \A g : ~OnStack(g, stack)
    BY WrittenLayout
  <2>2. SlicesMarked(prog, o, r)
    BY SMTT(60), <2>1, RowMarked
  <2>3. d.off \in Nat /\ d.count \in Nat
    BY SMTT(60), <2>2 DEF SlicesMarked, Slices
  <2>4. CASE Intruded(prog, index[o], d, stack, index, table)
    <3> HIDE DEF d
    <3>1. PICK g \in DOMAIN index, c \in Slices :
            /\ IsLayout(prog, g) /\ index[g] > index[o] /\ HasSubs(g, c, stack, index, table)
            /\ c.count > 0 /\ d.off <= c.off /\ c.off < d.off + d.count
      BY <2>4 DEF Intruded
    <3>2. table["typeLayout"][index[g] + 1]["subs"] = c
      BY <3>1, <2>1 DEF HasSubs, OnStack
    <3>3. LayoutRow(g).subs = c /\ LayoutRow(o).subs = d
      BY <3>2 DEF LayoutRow, d
    <3>4. g \in LayoutsDone
      BY <3>1 DEF LayoutsDone, IsLayout
    <3>5. c.off \in Nat
      BY DEF Slices
    <3>6. c.off \in d.off .. d.off + d.count - 1
      BY <3>1, <3>5, <2>3
    <3>7. Intrudes(g, o)
      BY SMTT(60), <3>1, <3>3, <3>6 DEF Intrudes
    <3> QED
      BY <3>4, <3>7
  <2>5. CASE SubRow(prog, o, r, index, pool)
    <3>1. subs \in Seq([range : Nat, offset : Pointers(prog, {"varLayout"})]) /\ SubCount(prog[o]) \in Nat
      BY <2>1, TypedLayout
    <3>2. SubCount(prog[o]) = Len(subs)
      BY DEF SubCount, Walked
    <3>3. DOMAIN subs = 1 .. SubCount(prog[o])
      BY <3>1, <3>2
    <3> HIDE DEF r, subs
    <3>4. \A k \in 1 .. SubCount(prog[o]) :
            LET row == pool["subObjectRange"][d.off + k]
            IN  /\ d.off + k <= Len(pool["subObjectRange"])
                /\ row.range = subs[k].range /\ NamesIn(index, row.offset, subs[k].offset)
      BY <2>5 DEF SubRow, SubDone, subs
    <3>5. d.off + Len(subs) <= Len(pool["subObjectRange"])
      <4>1. CASE Len(subs) = 0
        <5>1. d.off <= Len(pool["subObjectRange"])
          BY <2>1 DEF BindingRow
        <5> QED
          BY <4>1, <5>1, <2>3
      <4>2. CASE Len(subs) # 0
        <5>1. Len(subs) \in 1 .. SubCount(prog[o])
          BY <4>2, <3>1, <3>2
        <5> QED
          BY <5>1, <3>4
      <4> QED
        BY <4>1, <4>2
    <3>6. d.count = Len(subs)
      BY <2>2, <3>2 DEF SlicesMarked
    <3> QED
      BY <3>3, <3>4, <3>5, <3>6 DEF subs, r
  <2> QED
    BY ZenonT(60), <2>1, <2>4, <2>5
<1> QED
  BY <1>1, LayoutsInvariant, PTL

-----------------------------------------------------------------------------
(* Functions that are defined by recursion over an interval.               *)

Least(h, S) == h \in S /\ \A g \in S : h <= g

LEMMA LeastExists ==
    ASSUME NEW n \in Nat, NEW S \in SUBSET (1 .. n), S # {}
    PROVE  \E h : Least(h, S)
<1> DEFINE N == 1 .. n
           T == {1 .. x : x \in S}
           R == StrictSubsetOrdering(N)
<1>1. IsFiniteSet(N)
  BY FS_Interval
<1>2. T \subseteq SUBSET N
  <2>1. \A x \in S : x \in 1 .. n
    OBVIOUS
  <2>2. \A x \in S : 1 .. x \subseteq 1 .. n
    BY <2>1
  <2> QED
    BY <2>2
<1>3. T \subseteq FiniteSubsetsOf(N) /\ T # {}
  <2>1. T # {}
    OBVIOUS
  <2> HIDE DEF T, N
  <2>2. \A t \in T : t \in SUBSET N
    BY <1>2
  <2>3. \A t \in T : IsFiniteSet(t)
    BY <1>1, <2>2, FS_Subset
  <2> QED
    BY <2>1, <2>2, <2>3 DEF FiniteSubsetsOf
<1>4. IsWellFoundedOn(R, FiniteSubsetsOf(N))
  BY FS_StrictSubsetOrderingWellFounded
<1> HIDE DEF R
<1>5. \E t \in T : \A y \in T : <<y, t>> \notin R
  <2> HIDE DEF T, N
  <2> QED
    BY <1>3, <1>4, WFMin
<1>6. PICK x \in S : \A y \in T : <<y, 1 .. x>> \notin R
  BY <1>5
<1>7. ASSUME NEW g \in S, g < x
      PROVE  FALSE
  <2>1. 1 .. g \in SUBSET N /\ 1 .. x \in SUBSET N
    BY <1>2
  <2>2. 1 .. g \subseteq 1 .. x /\ x \in 1 .. x /\ x \notin 1 .. g
    BY <1>7
  <2>3. <<1 .. g, 1 .. x>> \in R
    BY <2>1, <2>2 DEF R, StrictSubsetOrdering
  <2> QED
    BY <1>6, <2>3
<1>8. \A g \in S : x <= g
  BY <1>7
<1> QED
  BY <1>8 DEF Least

\* Induction up to N, for a set.
LEMMA IntervalInduction ==
    ASSUME NEW N \in Nat, NEW S, 0 \in S, \A n \in 1 .. N : n - 1 \in S => n \in S
    PROVE  \A n \in 0 .. N : n \in S
<1> DEFINE T == {k \in 1 .. N : k \notin S}
<1>1. ASSUME T # {} PROVE FALSE
  <2>1. T \in SUBSET (1 .. N)
    OBVIOUS
  <2> HIDE DEF T
  <2>2. PICK h : Least(h, T)
    BY <1>1, <2>1, LeastExists
  <2>3. h \in T /\ h \in 1 .. N /\ \A g \in T : h <= g
    BY <2>1, <2>2 DEF Least
  <2>4. h - 1 \in S
    <3>1. CASE h = 1
      BY <3>1
    <3>2. CASE h # 1
      <4>1. h - 1 \in 1 .. N /\ ~(h <= h - 1)
        BY <2>3, <3>2
      <4>2. h - 1 \notin T
        BY <2>3, <4>1
      <4> QED
        BY <4>1, <4>2 DEF T
    <3> QED
      BY <3>1, <3>2
  <2>5. h \in S
    BY <2>3, <2>4
  <2> QED
    BY <2>3, <2>5 DEF T
<1>2. \A n \in 1 .. N : n \in S
  BY <1>1
<1>3. \A n \in 0 .. N : n = 0 \/ n \in 1 .. N
  OBVIOUS
<1> QED
  BY <1>2, <1>3

\* f is c at 0, and then what G makes of the value before.
Recurs(f, k, c, G) ==
    /\ f \in [0 .. k -> Nat] /\ f[0] = c
    /\ \A n \in 1 .. k : f[n] = G[<<n, f[n - 1]>>]

LEMMA Recursion ==
    ASSUME NEW N \in Nat, NEW c \in Nat, NEW G \in [(1 .. N) \X Nat -> Nat]
    PROVE  \E f : Recurs(f, N, c, G)
<1> DEFINE S == {k \in 0 .. N : \E f : Recurs(f, k, c, G)}
<1>1. \E f : Recurs(f, 0, c, G)
  <2> DEFINE f == [i \in 0 .. 0 |-> c]
  <2>1. Recurs(f, 0, c, G)
    BY DEF Recurs
  <2> QED
    BY <2>1
<1>2. ASSUME NEW k \in 1 .. N, NEW f, Recurs(f, k - 1, c, G) PROVE \E g : Recurs(g, k, c, G)
  <2> DEFINE v == G[<<k, f[k - 1]>>]
             g == [i \in 0 .. k |-> IF i = k THEN v ELSE f[i]]
  <2>1. f \in [0 .. k - 1 -> Nat] /\ f[0] = c /\ \A n \in 1 .. k - 1 : f[n] = G[<<n, f[n - 1]>>]
    BY <1>2 DEF Recurs
  <2>2. v \in Nat
    BY <2>1
  <2>3. \A i \in 0 .. k : i = k \/ (i \in 0 .. k - 1 /\ i # k)
    OBVIOUS
  <2> HIDE DEF v
  <2>4. g \in [0 .. k -> Nat] /\ g[k] = v /\ \A i \in 0 .. k - 1 : g[i] = f[i]
    BY <2>1, <2>2, <2>3
  <2> HIDE DEF g
  <2>5. ASSUME NEW n \in 1 .. k PROVE g[n] = G[<<n, g[n - 1]>>]
    <3>1. g[n - 1] = f[n - 1]
      BY <2>4
    <3>2. CASE n = k
      BY <2>4, <3>1, <3>2 DEF v
    <3>3. CASE n # k
      <4>1. n \in 1 .. k - 1 /\ n \in 0 .. k - 1
        BY <3>3
      <4> QED
        BY <2>1, <2>4, <3>1, <4>1
    <3> QED
      BY <3>2, <3>3
  <2>6. g[0] = c
    BY <2>1, <2>4
  <2>7. Recurs(g, k, c, G)
    BY <2>4, <2>5, <2>6 DEF Recurs
  <2> QED
    BY <2>7
<1>3. \A k \in 1 .. N : k - 1 \in S => k \in S
  <2> SUFFICES ASSUME NEW k \in 1 .. N, k - 1 \in S PROVE k \in S
    OBVIOUS
  <2>1. k \in 0 .. N
    OBVIOUS
  <2> QED
    BY <2>1, <1>2
<1>4. 0 \in S /\ N \in 0 .. N
  BY <1>1
<1> HIDE DEF S
<1>5. N \in S
  BY <1>3, <1>4, IntervalInduction
<1> QED
  BY <1>5 DEF S

-----------------------------------------------------------------------------
(* The sections of the file.                                               *)

\* s holds the bytes of the first strings of ss.
SumIs(s, ss) == s = [n \in 0 .. Len(ss) |-> IF n = 0 THEN 0 ELSE s[n - 1] + Length(ss[n]) + 1]

LEMMA SumExists == \A ss \in Seq(Text) : \E s : SumIs(s, ss)
<1> SUFFICES ASSUME NEW ss \in Seq(Text) PROVE \E s : SumIs(s, ss)
  OBVIOUS
<1> DEFINE N == Len(ss)
           G == [x \in (1 .. N) \X Nat |-> x[2] + Length(ss[x[1]]) + 1]
<1>1. N \in Nat /\ \A n \in 1 .. N : Length(ss[n]) \in Nat
  BY ReflectionAssumption
<1> HIDE DEF N
<1>2. G \in [(1 .. N) \X Nat -> Nat] /\ \A n \in 1 .. N : \A v \in Nat : G[<<n, v>>] = v + Length(ss[n]) + 1
  BY SMTT(60), <1>1
<1> HIDE DEF G
<1>3. PICK f : Recurs(f, N, 0, G)
  BY <1>1, <1>2, Recursion
<1>4. f \in [0 .. N -> Nat] /\ f[0] = 0 /\ \A n \in 1 .. N : f[n] = G[<<n, f[n - 1]>>]
  BY <1>3 DEF Recurs
<1>5. ASSUME NEW n \in 0 .. N PROVE f[n] = IF n = 0 THEN 0 ELSE f[n - 1] + Length(ss[n]) + 1
  <2>1. CASE n = 0
    BY <2>1, <1>4
  <2>2. CASE n # 0
    <3>1. n \in 1 .. N /\ n - 1 \in 0 .. N
      BY <2>2, <1>1
    <3>2. f[n - 1] \in Nat
      BY <3>1, <1>4
    <3>3. f[n] = G[<<n, f[n - 1]>>]
      BY <3>1, <1>4
    <3>4. G[<<n, f[n - 1]>>] = f[n - 1] + Length(ss[n]) + 1
      BY <3>1, <3>2, <1>2
    <3> QED
      BY <2>2, <3>3, <3>4
  <2> QED
    BY <2>1, <2>2
<1>6. f = [n \in 0 .. N |-> f[n]]
  BY <1>4
<1>7. f = [n \in 0 .. N |-> IF n = 0 THEN 0 ELSE f[n - 1] + Length(ss[n]) + 1]
  BY <1>5, <1>6, Zenon
<1>8. SumIs(f, ss)
  BY <1>7 DEF SumIs, N
<1> QED
  BY <1>8

LEMMA SumNat ==
    ASSUME NEW ss \in Seq(Text), NEW s, SumIs(s, ss)
    PROVE  s[Len(ss)] \in Nat
<1> DEFINE N == Len(ss)
           S == {n \in 0 .. N : s[n] \in Nat}
<1>1. N \in Nat /\ \A n \in 1 .. N : Length(ss[n]) \in Nat
  BY ReflectionAssumption
<1>2. \A n \in 0 .. N : s[n] = IF n = 0 THEN 0 ELSE s[n - 1] + Length(ss[n]) + 1
  BY DEF SumIs
<1> HIDE DEF N
<1>3. 0 \in S
  BY <1>1, <1>2
<1>4. \A n \in 1 .. N : n - 1 \in S => n \in S
  <2> SUFFICES ASSUME NEW n \in 1 .. N, s[n - 1] \in Nat PROVE n \in 0 .. N /\ s[n] \in Nat
    OBVIOUS
  <2>1. n \in 0 .. N /\ n # 0
    OBVIOUS
  <2>2. s[n] = s[n - 1] + Length(ss[n]) + 1
    BY <2>1, <1>2
  <2>3. Length(ss[n]) \in Nat
    BY <1>1
  <2> QED
    BY <2>1, <2>2, <2>3
<1>5. N \in 0 .. N
  BY <1>1
<1> HIDE DEF S
<1>6. N \in S
  BY <1>1, <1>3, <1>4, <1>5, IntervalInduction
<1> QED
  BY <1>6 DEF S, N

LEMMA StrideNat == \A k \in Kinds \cup Pools : k # "string" => Stride(k) \in Nat
BY DEF Stride, Kinds, Pools

LEMMA BytesNat ==
    ASSUME TablesOK(table), PoolsOK(pool), NEW k \in Kinds \cup Pools
    PROVE  Bytes(k) \in Nat
<1> DEFINE ss == pool["string"]
<1>1. ss \in Seq(Text)
  BY ItemFacts DEF PoolsOK
<1>2. CASE k = "string"
  <2> HIDE DEF ss
  <2> DEFINE sum == CHOOSE s : SumIs(s, ss)
  <2>1. SumIs(sum, ss)
    BY <1>1, SumExists, Zenon
  <2>2. Bytes(k) = sum[Len(ss)]
    BY <1>2, Zenon DEF Bytes, SumIs, ss
  <2> HIDE DEF sum
  <2> QED
    BY <2>1, <2>2, <1>1, SumNat
<1>3. CASE k # "string"
  <2>1. Stride(k) \in Nat
    BY <1>3, StrideNat
  <2>2. Len(Rows(k)) \in Nat
    <3>1. CASE k \in Kinds
      BY <3>1 DEF Rows, TablesOK
    <3>2. CASE k \notin Kinds
      <4>1. k \in Pools /\ Rows(k) = pool[k] /\ pool[k] \in Seq(Items(k))
        BY <3>2 DEF Rows, PoolsOK
      <4> QED
        BY <4>1
    <3> QED
      BY <3>1, <3>2
  <2>3. Bytes(k) = Len(Rows(k)) * Stride(k)
    BY <1>3, Zenon DEF Bytes
  <2> QED
    BY <2>1, <2>2, <2>3
<1> QED
  BY <1>2, <1>3

LEMMA SectionFacts ==
    /\ Len(Sections) = 18 /\ DOMAIN Sections = 1 .. 18
    /\ \A n \in 1 .. 18 : Sections[n] \in Kinds \cup Pools
<1>1. Len(Sections) = 18 /\ DOMAIN Sections = 1 .. 18
  BY DEF Sections
<1>2. \A n \in 1 .. 18 : Sections[n] \in {Sections[1], Sections[2], Sections[3], Sections[4], Sections[5],
        Sections[6], Sections[7], Sections[8], Sections[9], Sections[10], Sections[11], Sections[12],
        Sections[13], Sections[14], Sections[15], Sections[16], Sections[17], Sections[18]}
  <2>1. \A n \in 1 .. 18 : n \in {1, 2, 3, 4, 5, 6, 7, 8, 9, 10, 11, 12, 13, 14, 15, 16, 17, 18}
    OBVIOUS
  <2> QED
    BY <2>1
<1>3. /\ Sections[1] = "string" /\ Sections[2] = "hashedStr" /\ Sections[3] = "attrArg"
      /\ Sections[4] = "attr" /\ Sections[5] = "modifier" /\ Sections[6] = "type"
      /\ Sections[7] = "typeLayout" /\ Sections[8] = "var" /\ Sections[9] = "varLayout"
      /\ Sections[10] = "func" /\ Sections[11] = "generic" /\ Sections[12] = "decl"
      /\ Sections[13] = "entryPoint" /\ Sections[14] = "bindingRange"
      /\ Sections[15] = "descriptorSet" /\ Sections[16] = "descriptorRange"
      /\ Sections[17] = "subObjectRange" /\ Sections[18] = "u32"
  BY DEF Sections
<1>4. \A n \in 1 .. 18 : Sections[n] \in Kinds \cup Pools
  BY <1>2, <1>3 DEF Kinds, Pools
<1> QED
  BY <1>1, <1>4

LEMMA Aligned ==
    ASSUME NEW n \in Nat
    PROVE  /\ LayoutTable(n) \in Nat /\ LayoutTable(n) % 8 = 0
           /\ n <= LayoutTable(n) /\ LayoutTable(n) <= n + 7
BY DEF LayoutTable

\* A value for each section, from that of the section before.
Chain(G, f) == \A n \in 1 .. 18 : f[n] = G[<<n, IF n = 1 THEN 0 ELSE f[n - 1]>>]

LEMMA ChainExists ==
    ASSUME NEW G \in [(1 .. 18) \X Nat -> Nat]
    PROVE  \E f : f = [n \in 1 .. 18 |-> G[<<n, IF n = 1 THEN 0 ELSE f[n - 1]>>]]
<1>1. PICK f : Recurs(f, 18, 0, G)
  BY Recursion
<1>2. f[0] = 0 /\ \A n \in 1 .. 18 : f[n] = G[<<n, f[n - 1]>>]
  BY <1>1 DEF Recurs
<1> DEFINE w == [n \in 1 .. 18 |-> f[n]]
<1>3. \A n \in 1 .. 18 : w[n] = G[<<n, IF n = 1 THEN 0 ELSE w[n - 1]>>]
  <2> SUFFICES ASSUME NEW n \in 1 .. 18 PROVE w[n] = G[<<n, IF n = 1 THEN 0 ELSE w[n - 1]>>]
    OBVIOUS
  <2>1. CASE n = 1
    <3>1. n - 1 = 0
      BY <2>1
    <3> QED
      BY <2>1, <3>1, <1>2
  <2>2. CASE n # 1
    <3>1. n - 1 \in 1 .. 18
      BY <2>2
    <3> QED
      BY <2>2, <3>1, <1>2
  <2> QED
    BY <2>1, <2>2
<1>4. w = [n \in 1 .. 18 |-> w[n]]
  OBVIOUS
<1> HIDE DEF w
<1>5. w = [n \in 1 .. 18 |-> G[<<n, IF n = 1 THEN 0 ELSE w[n - 1]>>]]
  BY <1>3, <1>4, Zenon
<1> QED
  BY <1>5, Zenon

LEMMA ChainNat ==
    ASSUME NEW G \in [(1 .. 18) \X Nat -> Nat], NEW f, Chain(G, f)
    PROVE  \A n \in 1 .. 18 : f[n] \in Nat
<1> DEFINE S == {n \in 0 .. 18 : n = 0 \/ f[n] \in Nat}
<1>1. ASSUME NEW n \in 1 .. 18, n - 1 \in S PROVE n \in S
  <2> DEFINE v == IF n = 1 THEN 0 ELSE f[n - 1]
  <2>1. f[n] = G[<<n, v>>]
    BY DEF Chain
  <2>2. v \in Nat
    BY <1>1
  <2> HIDE DEF v
  <2>3. f[n] \in Nat
    BY <2>1, <2>2
  <2> QED
    BY <2>3
<1>2. 0 \in S
  OBVIOUS
<1> HIDE DEF S
<1>3. \A n \in 0 .. 18 : n \in S
  BY <1>1, <1>2, IntervalInduction
<1> SUFFICES ASSUME NEW n \in 1 .. 18 PROVE f[n] \in Nat
  OBVIOUS
<1>4. n \in S /\ n # 0
  BY <1>3
<1> QED
  BY <1>4 DEF S

\* Where the table before section n ends.
EndBefore(at, n) == IF n = 1 THEN HeaderSize ELSE at[n - 1] + Bytes(Sections[n - 1])

LEMMA EndsNat ==
    ASSUME \A n \in 1 .. 18 : Bytes(Sections[n]) \in Nat, NEW at, \A n \in 1 .. 18 : at[n] \in Nat,
           NEW n \in 1 .. 18
    PROVE  EndBefore(at, n) \in Nat
<1>1. CASE n = 1
  BY <1>1 DEF EndBefore, HeaderSize
<1>2. CASE n # 1
  <2>1. n - 1 \in 1 .. 18
    BY <1>2
  <2>2. at[n - 1] \in Nat /\ Bytes(Sections[n - 1]) \in Nat
    BY <2>1
  <2> QED
    BY <1>2, <2>2 DEF EndBefore
<1> QED
  BY <1>1, <1>2

\* The layout pass goes through the sections, and puts each at the first
\* aligned place.
LEMMA CurFacts ==
    ASSUME \A n \in 1 .. 18 : Bytes(Sections[n]) \in Nat
    PROVE  \A n \in 1 .. 18 :
             /\ Cur[n] \in Nat /\ EndBefore(Cur, n) \in Nat /\ Cur[n] % 8 = 0
             /\ EndBefore(Cur, n) <= Cur[n] /\ Cur[n] <= EndBefore(Cur, n) + 7
<1> DEFINE V(n, v) == LayoutTable(IF n = 1 THEN HeaderSize ELSE v + Bytes(Sections[n - 1]))
           G == [x \in (1 .. 18) \X Nat |-> V(x[1], x[2])]
<1>1. \A n \in 1 .. 18 : \A v \in Nat : V(n, v) \in Nat
  <2> SUFFICES ASSUME NEW n \in 1 .. 18, NEW v \in Nat PROVE V(n, v) \in Nat
    OBVIOUS
  <2>1. (IF n = 1 THEN HeaderSize ELSE v + Bytes(Sections[n - 1])) \in Nat
    <3>1. CASE n = 1
      BY <3>1 DEF HeaderSize
    <3>2. CASE n # 1
      <4>1. n - 1 \in 1 .. 18
        BY <3>2
      <4>2. Bytes(Sections[n - 1]) \in Nat
        BY <4>1
      <4> QED
        BY <3>2, <4>2
    <3> QED
      BY <3>1, <3>2
  <2> QED
    BY <2>1, Aligned
<1>2. \A v, w : V(1, v) = V(1, w)
  OBVIOUS
<1> HIDE DEF V
<1>3. G \in [(1 .. 18) \X Nat -> Nat] /\ \A n \in 1 .. 18 : \A v \in Nat : G[<<n, v>>] = V(n, v)
  BY <1>1
<1> HIDE DEF G
<1>4. PICK w : w = [n \in 1 .. 18 |-> G[<<n, IF n = 1 THEN 0 ELSE w[n - 1]>>]]
  BY <1>3, ChainExists
<1>5. \A n \in 1 .. 18 : w[n] \in Nat
  <2>1. Chain(G, w)
    BY <1>4, Zenon DEF Chain
  <2> QED
    BY <1>3, <2>1, ChainNat
<1>6. ASSUME NEW n \in 1 .. 18 PROVE G[<<n, IF n = 1 THEN 0 ELSE w[n - 1]>>] = V(n, w[n - 1])
  <2>1. CASE n = 1
    BY <2>1, <1>2, <1>3
  <2>2. CASE n # 1
    <3>1. n - 1 \in 1 .. 18
      BY <2>2
    <3> QED
      BY <2>2, <3>1, <1>3, <1>5
  <2> QED
    BY <2>1, <2>2
<1>7. w = [n \in 1 .. 18 |-> V(n, w[n - 1])]
  BY <1>4, <1>6, Zenon
<1>8. \E g : g = [n \in DOMAIN Sections |->
                    LayoutTable(IF n = 1 THEN HeaderSize ELSE g[n - 1] + Bytes(Sections[n - 1]))]
  <2>1. w = [n \in DOMAIN Sections |->
               LayoutTable(IF n = 1 THEN HeaderSize ELSE w[n - 1] + Bytes(Sections[n - 1]))]
    BY <1>7, SectionFacts, Zenon DEF V
  <2> QED
    BY <2>1, Zenon
<1>9. Cur = [n \in DOMAIN Sections |->
               LayoutTable(IF n = 1 THEN HeaderSize ELSE Cur[n - 1] + Bytes(Sections[n - 1]))]
  BY <1>8, Zenon DEF Cur
<1>10. \A n \in 1 .. 18 : Cur[n] = V(n, Cur[n - 1]) /\ Cur[n] = LayoutTable(EndBefore(Cur, n))
  BY <1>9, SectionFacts, Zenon DEF V, EndBefore
<1> DEFINE S == {n \in 0 .. 18 : n = 0 \/ Cur[n] \in Nat}
<1>11. ASSUME NEW n \in 1 .. 18, n - 1 \in S PROVE n \in S
  <2>1. CASE n = 1
    <3>1. V(1, Cur[n - 1]) = V(1, 0) /\ V(1, 0) \in Nat
      BY <1>1, <1>2
    <3> QED
      BY <2>1, <3>1, <1>10
  <2>2. CASE n # 1
    <3>1. Cur[n - 1] \in Nat
      BY <2>2, <1>11
    <3>2. V(n, Cur[n - 1]) \in Nat
      BY <3>1, <1>1
    <3>3. Cur[n] \in Nat
      BY <3>2, <1>10
    <3> QED
      BY <3>3
  <2> QED
    BY <2>1, <2>2
<1>12. 0 \in S
  OBVIOUS
<1> HIDE DEF S
<1>13. \A n \in 0 .. 18 : n \in S
  BY <1>11, <1>12, IntervalInduction
<1>14. \A n \in 1 .. 18 : Cur[n] \in Nat
  <2> SUFFICES ASSUME NEW n \in 1 .. 18 PROVE Cur[n] \in Nat
    OBVIOUS
  <2>1. n \in S /\ n # 0
    BY <1>13
  <2> QED
    BY <2>1 DEF S
<1> SUFFICES ASSUME NEW n \in 1 .. 18
             PROVE  /\ Cur[n] \in Nat /\ EndBefore(Cur, n) \in Nat /\ Cur[n] % 8 = 0
                    /\ EndBefore(Cur, n) <= Cur[n] /\ Cur[n] <= EndBefore(Cur, n) + 7
  OBVIOUS
<1>15. EndBefore(Cur, n) \in Nat
  BY <1>14, EndsNat
<1> QED
  BY <1>10, <1>14, <1>15, Aligned

\* Modulo a larger number nothing changes; otherwise at least it is lost.
LEMMA Wrapped ==
    ASSUME NEW c \in Nat
    PROVE  /\ c % Wrap \in Nat /\ c % Wrap < Wrap
           /\ c < Wrap => c % Wrap = c
           /\ c >= Wrap => (c % Wrap) + Wrap <= c
<1>1. Wrap \in Nat /\ Wrap > 0
  BY WrapAssumption DEF HeaderSize
<1> DEFINE q == c \div Wrap
           m == c % Wrap
<1>2. q \in Int /\ m \in Nat /\ m < Wrap /\ c = Wrap * q + m
  BY <1>1
<1> HIDE DEF q, m
<1>3. q >= 0
  <2>1. ASSUME q <= 0 - 1 PROVE FALSE
    <3>1. Wrap * q <= Wrap * (0 - 1)
      BY <1>1, <1>2, <2>1
    <3>2. Wrap * q \in Int /\ Wrap * (0 - 1) = 0 - Wrap
      BY <1>1, <1>2
    <3> QED
      BY <1>1, <1>2, <3>1, <3>2
  <2> QED
    BY <1>2, <2>1
<1>4. CASE q = 0
  <2>1. Wrap * q = 0
    BY <1>1, <1>4
  <2> QED
    BY <1>1, <1>2, <2>1 DEF m
<1>5. CASE q >= 1
  <2>1. Wrap * q >= Wrap * 1
    BY <1>1, <1>2, <1>5
  <2>2. Wrap * q \in Int /\ Wrap * 1 = Wrap
    BY <1>1, <1>2
  <2>3. c >= Wrap /\ m + Wrap <= c
    BY <1>1, <1>2, <2>1, <2>2
  <2> QED
    BY <1>1, <1>2, <2>3 DEF m
<1> QED
  BY <1>2, <1>3, <1>4, <1>5

\* The writing pass is never ahead of the layout pass, and for each section at
\* most the alignment behind it.
LEMMA AtFacts ==
    ASSUME \A n \in 1 .. 18 : Bytes(Sections[n]) \in Nat
    PROVE  \A n \in 1 .. 18 :
             /\ At[n] \in Nat /\ EndBefore(At, n) \in Nat
             /\ At[n] = IF EndBefore(At, n) < Off[n] THEN Off[n] ELSE EndBefore(At, n)
<1> DEFINE V(n, v) == LET size == IF n = 1 THEN HeaderSize ELSE v + Bytes(Sections[n - 1])
                      IN  IF size < Off[n] THEN Off[n] ELSE size
           G == [x \in (1 .. 18) \X Nat |-> V(x[1], x[2])]
<1>0. \A n \in 1 .. 18 : Off[n] \in Nat
  BY CurFacts, SectionFacts, Wrapped DEF Off
<1>1. \A n \in 1 .. 18 : \A v \in Nat : V(n, v) \in Nat
  <2> SUFFICES ASSUME NEW n \in 1 .. 18, NEW v \in Nat PROVE V(n, v) \in Nat
    OBVIOUS
  <2>1. (IF n = 1 THEN HeaderSize ELSE v + Bytes(Sections[n - 1])) \in Nat
    <3>1. CASE n = 1
      BY <3>1 DEF HeaderSize
    <3>2. CASE n # 1
      <4>1. n - 1 \in 1 .. 18
        BY <3>2
      <4>2. Bytes(Sections[n - 1]) \in Nat
        BY <4>1
      <4> QED
        BY <3>2, <4>2
    <3> QED
      BY <3>1, <3>2
  <2> QED
    BY <2>1, <1>0
<1>2. \A v, w : V(1, v) = V(1, w)
  OBVIOUS
<1> HIDE DEF V
<1>3. G \in [(1 .. 18) \X Nat -> Nat] /\ \A n \in 1 .. 18 : \A v \in Nat : G[<<n, v>>] = V(n, v)
  BY <1>1
<1> HIDE DEF G
<1>4. PICK w : w = [n \in 1 .. 18 |-> G[<<n, IF n = 1 THEN 0 ELSE w[n - 1]>>]]
  BY <1>3, ChainExists
<1>5. \A n \in 1 .. 18 : w[n] \in Nat
  <2>1. Chain(G, w)
    BY <1>4, Zenon DEF Chain
  <2> QED
    BY <1>3, <2>1, ChainNat
<1>6. ASSUME NEW n \in 1 .. 18 PROVE G[<<n, IF n = 1 THEN 0 ELSE w[n - 1]>>] = V(n, w[n - 1])
  <2>1. CASE n = 1
    BY <2>1, <1>2, <1>3
  <2>2. CASE n # 1
    <3>1. n - 1 \in 1 .. 18
      BY <2>2
    <3> QED
      BY <2>2, <3>1, <1>3, <1>5
  <2> QED
    BY <2>1, <2>2
<1>7. w = [n \in 1 .. 18 |-> V(n, w[n - 1])]
  BY <1>4, <1>6, Zenon
<1>8. \E g : g = [n \in DOMAIN Sections |->
                    LET size == IF n = 1 THEN HeaderSize ELSE g[n - 1] + Bytes(Sections[n - 1])
                    IN  IF size < Off[n] THEN Off[n] ELSE size]
  <2>1. w = [n \in DOMAIN Sections |->
               LET size == IF n = 1 THEN HeaderSize ELSE w[n - 1] + Bytes(Sections[n - 1])
               IN  IF size < Off[n] THEN Off[n] ELSE size]
    BY <1>7, SectionFacts, Zenon DEF V
  <2> QED
    BY <2>1, Zenon
<1>9. At = [n \in DOMAIN Sections |->
              LET size == IF n = 1 THEN HeaderSize ELSE At[n - 1] + Bytes(Sections[n - 1])
              IN  IF size < Off[n] THEN Off[n] ELSE size]
  BY <1>8, Zenon DEF At
<1>10. \A n \in 1 .. 18 :
         /\ At[n] = V(n, At[n - 1])
         /\ At[n] = IF EndBefore(At, n) < Off[n] THEN Off[n] ELSE EndBefore(At, n)
  BY <1>9, SectionFacts, Zenon DEF V, EndBefore
<1> DEFINE S == {n \in 0 .. 18 : n = 0 \/ At[n] \in Nat}
<1>11. ASSUME NEW n \in 1 .. 18, n - 1 \in S PROVE n \in S
  <2>1. CASE n = 1
    <3>1. V(1, At[n - 1]) = V(1, 0) /\ V(1, 0) \in Nat
      BY <1>1, <1>2
    <3> QED
      BY <2>1, <3>1, <1>10
  <2>2. CASE n # 1
    <3>1. At[n - 1] \in Nat
      BY <2>2, <1>11
    <3>2. V(n, At[n - 1]) \in Nat
      BY <3>1, <1>1
    <3>3. At[n] \in Nat
      BY <3>2, <1>10
    <3> QED
      BY <3>3
  <2> QED
    BY <2>1, <2>2
<1>12. 0 \in S
  OBVIOUS
<1> HIDE DEF S
<1>13. \A n \in 0 .. 18 : n \in S
  BY <1>11, <1>12, IntervalInduction
<1>14. \A n \in 1 .. 18 : At[n] \in Nat
  <2> SUFFICES ASSUME NEW n \in 1 .. 18 PROVE At[n] \in Nat
    OBVIOUS
  <2>1. n \in S /\ n # 0
    BY <1>13
  <2> QED
    BY <2>1 DEF S
<1> QED
  BY <1>10, <1>14, EndsNat

\* The distance between the two passes.
Behind(n) == At[n] <= Cur[n] /\ Cur[n] <= At[n] + 7 * n

\* The two passes are at the same place as long as offsets do not wrap.
Together(n) == Cur[n] < Wrap => At[n] = Cur[n]

LEMMA Passes ==
    ASSUME \A n \in 1 .. 18 : Bytes(Sections[n]) \in Nat
    PROVE  \A n \in 1 .. 18 : Behind(n) /\ Together(n)
<1> DEFINE S == {n \in 0 .. 18 : n = 0 \/ (Behind(n) /\ Together(n))}
<1>1. ASSUME NEW n \in 1 .. 18, n - 1 \in S PROVE n \in S
  <2> DEFINE a == EndBefore(At, n)
             c == EndBefore(Cur, n)
  <2>1. /\ Cur[n] \in Nat /\ c \in Nat /\ c <= Cur[n] /\ Cur[n] <= c + 7
        /\ At[n] \in Nat /\ a \in Nat /\ At[n] = IF a < Off[n] THEN Off[n] ELSE a
    BY CurFacts, AtFacts
  <2>2. Off[n] = Cur[n] % Wrap
    BY SectionFacts DEF Off
  <2>3. Off[n] \in Nat /\ Off[n] <= Cur[n] /\ (Cur[n] < Wrap => Off[n] = Cur[n]) /\ Wrap \in Nat
    BY <2>1, <2>2, Wrapped, WrapAssumption
  <2>4. a <= c /\ c <= a + 7 * (n - 1) /\ (c < Wrap => a = c)
    <3>1. CASE n = 1
      BY <2>1, <3>1 DEF EndBefore
    <3>2. CASE n # 1
      <4>1. n - 1 \in 1 .. 18
        BY <3>2
      <4>2. Behind(n - 1) /\ Together(n - 1)
        BY <3>2, <1>1
      <4>3. At[n - 1] \in Nat /\ Cur[n - 1] \in Nat /\ Bytes(Sections[n - 1]) \in Nat
        BY <4>1, AtFacts, CurFacts
      <4>4. a = At[n - 1] + Bytes(Sections[n - 1]) /\ c = Cur[n - 1] + Bytes(Sections[n - 1])
        BY <3>2 DEF EndBefore
      <4> QED
        BY <2>3, <4>2, <4>3, <4>4 DEF Behind, Together
    <3> QED
      BY <3>1, <3>2
  <2> HIDE DEF a, c
  <2>5. Behind(n) /\ Together(n)
    BY <2>1, <2>3, <2>4 DEF Behind, Together
  <2> QED
    BY <2>5
<1>2. 0 \in S
  OBVIOUS
<1> HIDE DEF S
<1>3. \A n \in 0 .. 18 : n \in S
  BY <1>1, <1>2, IntervalInduction
<1> SUFFICES ASSUME NEW n \in 1 .. 18 PROVE Behind(n) /\ Together(n)
  OBVIOUS
<1>4. n \in S /\ n # 0
  BY <1>3
<1> QED
  BY <1>4 DEF S

\* A section is where the header says if and only if its offset is not wrapped.
LEMMA SectionAt ==
    ASSUME \A n \in 1 .. 18 : Bytes(Sections[n]) \in Nat, NEW n \in 1 .. 18
    PROVE  /\ At[n] = Off[n] <=> Cur[n] < Wrap
           /\ Cur[n] < Wrap => Off[n] = Cur[n] /\ At[n] = Cur[n]
<1>1. Cur[n] \in Nat /\ At[n] \in Nat /\ Behind(n) /\ Together(n)
  BY CurFacts, AtFacts, Passes
<1>2. Off[n] = Cur[n] % Wrap
  BY SectionFacts DEF Off
<1>3. /\ Off[n] \in Nat /\ (Cur[n] < Wrap => Off[n] = Cur[n])
      /\ (Cur[n] >= Wrap => Off[n] + Wrap <= Cur[n])
  BY <1>1, <1>2, Wrapped
<1>4. Wrap \in Nat /\ 184 < Wrap
  BY WrapAssumption DEF HeaderSize
<1>5. ASSUME Cur[n] >= Wrap PROVE At[n] # Off[n]
  BY <1>1, <1>3, <1>4, <1>5 DEF Behind
<1> QED
  BY <1>1, <1>3, <1>4, <1>5 DEF Together

\* Bytes and Cur, of tables and pools that are given.
BytesOf(tb, pl, k) ==
    LET ss == pl["string"]
        sum[n \in 0 .. Len(ss)] == IF n = 0 THEN 0 ELSE sum[n - 1] + Length(ss[n]) + 1
    IN  IF k = "string" THEN sum[Len(ss)] ELSE Len(IF k \in Kinds THEN tb[k] ELSE pl[k]) * Stride(k)

CurOf(tb, pl) ==
    LET cur[n \in DOMAIN Sections] ==
          LayoutTable(IF n = 1 THEN HeaderSize ELSE cur[n - 1] + BytesOf(tb, pl, Sections[n - 1]))
    IN  cur

LEMMA BytesAre == \A k : Bytes(k) = BytesOf(table, pool, k)
BY Zenon DEF Bytes, BytesOf, Rows

LEMMA CurIs == Cur = CurOf(table, pool)
BY Zenon DEF Cur, CurOf, Bytes, BytesOf, Rows

\* The sections of a file with these tables and pools.
Placed(f, tb, pl) ==
    /\ \A n \in 1 .. 18 :
         /\ f.at[n] = f.off[n] <=> CurOf(tb, pl)[n] < Wrap
         /\ CurOf(tb, pl)[n] < Wrap =>
              /\ f.off[n] % 8 = 0
              /\ f.off[n] + BytesOf(tb, pl, Sections[n]) <= (IF n = 18 THEN f.bytes ELSE f.at[n + 1])
    /\ f.size = f.bytes <=> f.bytes < Wrap

LEMMA PlacedSections == SectionsPlaced <=> (Written => Placed(file, table, pool))
BY BytesAre, CurIs, SectionFacts DEF SectionsPlaced, Placed

\* The length of the file and the size in its header.
LEMMA FileEnds ==
    ASSUME Shape, WriteFile
    PROVE  /\ \A n \in 1 .. 18 : Bytes(Sections[n]) \in Nat
           /\ file'.off = Off /\ file'.at = At
           /\ CurEnd = Cur[18] + Bytes(Sections[18]) /\ CurEnd \in Nat
           /\ file'.bytes = CurEnd /\ file'.size = CurEnd % Wrap
<1>1. \A n \in 1 .. 18 : Bytes(Sections[n]) \in Nat
  BY SectionFacts, BytesNat DEF Shape
<1>2. /\ file'.off = Off /\ file'.at = At /\ file'.size = CurEnd % Wrap
      /\ file'.bytes = IF AtEnd < CurEnd THEN CurEnd ELSE AtEnd
  BY DEF WriteFile
<1>3. CurEnd = Cur[18] + Bytes(Sections[18]) /\ AtEnd = At[18] + Bytes(Sections[18])
  BY SectionFacts DEF CurEnd, AtEnd
<1>4. 18 \in 1 .. 18
  OBVIOUS
<1>5. Cur[18] \in Nat /\ At[18] \in Nat /\ Bytes(Sections[18]) \in Nat /\ At[18] <= Cur[18]
  BY <1>1, <1>4, CurFacts, AtFacts, Passes DEF Behind
<1>6. CurEnd \in Nat /\ AtEnd \in Nat /\ AtEnd <= CurEnd
  BY <1>3, <1>5
<1> QED
  BY <1>1, <1>2, <1>3, <1>6

LEMMA WriteFilePlaces ==
    ASSUME Shape, WriteFile
    PROVE  Placed(file', table, pool)
<1>1. \A n \in 1 .. 18 : Bytes(Sections[n]) \in Nat
  BY FileEnds
<1>2. ASSUME NEW n \in 1 .. 18
      PROVE  /\ At[n] = Off[n] <=> Cur[n] < Wrap
             /\ Cur[n] < Wrap =>
                  /\ Off[n] % 8 = 0
                  /\ Off[n] + Bytes(Sections[n]) <= (IF n = 18 THEN CurEnd ELSE At[n + 1])
  <2>1. At[n] = Off[n] <=> Cur[n] < Wrap
    BY <1>1, SectionAt
  <2>2. ASSUME Cur[n] < Wrap
        PROVE  /\ Off[n] % 8 = 0
               /\ Off[n] + Bytes(Sections[n]) <= (IF n = 18 THEN CurEnd ELSE At[n + 1])
    <3>1. Off[n] = Cur[n] /\ At[n] = Cur[n] /\ Cur[n] \in Nat /\ Cur[n] % 8 = 0 /\ Bytes(Sections[n]) \in Nat
      BY <1>1, <2>2, SectionAt, CurFacts
    <3>2. CASE n = 18
      <4>1. CurEnd = Cur[18] + Bytes(Sections[18]) /\ CurEnd \in Nat
        BY FileEnds
      <4> QED
        BY <3>1, <3>2, <4>1
    <3>3. CASE n # 18
      <4>1. n + 1 \in 1 .. 18 /\ n + 1 # 1 /\ (n + 1) - 1 = n
        BY <3>3
      <4>2. EndBefore(At, n + 1) = At[n] + Bytes(Sections[n])
        BY <4>1 DEF EndBefore
      <4>3. Off[n + 1] \in Nat
        BY <1>1, <4>1, CurFacts, SectionFacts, Wrapped DEF Off
      <4>4. EndBefore(At, n + 1) \in Nat /\ At[n + 1] \in Nat
            /\ At[n + 1] = IF EndBefore(At, n + 1) < Off[n + 1] THEN Off[n + 1] ELSE EndBefore(At, n + 1)
        BY <1>1, <4>1, AtFacts
      <4>5. At[n + 1] >= EndBefore(At, n + 1)
        BY <4>3, <4>4
      <4> QED
        BY <3>1, <3>3, <4>2, <4>5
    <3> QED
      BY <3>2, <3>3
  <2> QED
    BY <2>1, <2>2
<1>3. file'.off = Off /\ file'.at = At /\ file'.bytes = CurEnd /\ file'.size = CurEnd % Wrap
  BY FileEnds
<1>4. CurEnd % Wrap = CurEnd <=> CurEnd < Wrap
  <2>1. CurEnd \in Nat /\ Wrap \in Nat
    BY FileEnds, WrapAssumption
  <2> QED
    BY <2>1, Wrapped
<1> QED
  BY <1>2, <1>3, <1>4, BytesAre, CurIs DEF Placed

\* The header of the section and its tables agree as far as 32-bit offsets go,
\* however large the tables: the pass that lays them out and the pass that
\* writes them, which pads on its own, put a table at the same aligned place
\* if and only if it begins below 2^32, and there none runs into the next.
THEOREM SectionsAgree == Spec => []SectionsPlaced
<1>1. Init => SectionsPlaced
  BY DEF Init, SectionsPlaced, Written
<1>2. Shape /\ SectionsPlaced /\ [Next]_vars => SectionsPlaced'
  <2>0. (SectionsPlaced <=> (Written => Placed(file, table, pool)))'
    BY PlacedSections, PTL
  <2> SUFFICES ASSUME Shape, Written => Placed(file, table, pool), [Next]_vars, file' # NoFile
               PROVE  Placed(file', table', pool')
    BY <2>0, PlacedSections DEF Written, Placed
  <2>1. CASE WriteFile
    <3>1. Placed(file', table, pool)
      BY <2>1, WriteFilePlaces
    <3> QED
      BY <2>1, <3>1 DEF WriteFile
  <2>2. CASE stack = <<>>
    <3>1. UNCHANGED vars
      BY <2>2 DEF Next, AddKnown, AddNew, Return, SetRef, Ignore, PushU32List, InternStr,
         AddModifiers, AddAttribute, SetAttributes, MarkSlices, AddBindingRange, AddDescriptorSet,
         AddSubObjectRange, AddHashedStr, WriteFile, NoLayout, Done, AtStep, Adding, Running, vars
    <3> QED
      BY <3>1 DEF vars, Written
  <2>3. CASE stack # <<>> /\ ~WriteFile
    <3>1. file = NoFile
      BY SMTT(60), <2>3 DEF Shape
    <3>2. file' = file
      BY <2>3 DEF Next, AddKnown, AddNew, Return, SetRef, Ignore, PushU32List, InternStr,
         AddModifiers, AddAttribute, SetAttributes, MarkSlices, AddBindingRange, AddDescriptorSet,
         AddSubObjectRange, AddHashedStr, NoLayout, Done, vars
    <3> QED
      BY <3>1, <3>2
  <2> QED
    BY <2>1, <2>2, <2>3
<1> QED
  BY <1>1, <1>2, Invariant, PTL DEF Spec
=============================================================================
