------------------------ MODULE ReflectionSerializer ------------------------
(***************************************************************************)
(* ReflectionSerializer (src/src/slangmake_reflection_serialize.cpp): the  *)
(* cyclic graph of Slang's reflection objects becomes flat tables whose    *)
(* rows refer to one another by index.                                     *)
(*                                                                         *)
(* Each addX function is the list of the calls it makes, in their order;   *)
(* the recursion is an explicit stack with one frame per addX in progress. *)
(* Fields copied without looking at other objects are left out.  Strings   *)
(* are values and string offsets their positions; indices count from 0.    *)
(***************************************************************************)
EXTENDS Naturals, Sequences, Loops

CONSTANTS
    Programs,  \* each a function from the names of Slang's objects to records
    Nil,       \* the null pointer
    Invalid,   \* kInvalidIndex
    Text,      \* the names and other strings of the programs
    Length(_), \* bytes of a string
    Wrap       \* 2^32: offsets and sizes in the header are taken modulo it

Kinds == {"type", "typeLayout", "var", "varLayout", "func", "generic", "decl",
          "entryPoint"}

\* The pointers of program p to objects of some kinds: Slang's own types.
Pointers(p, kinds) == {o \in DOMAIN p : p[o].kind \in kinds} \cup {Nil}

Modified(x) == x.mods \in Seq(Nat) /\ x.attrs \in Seq([name : Text, args : Seq(Nat)] \cup {Nil})

\* The object x is as its class has it.
Typed(p, x) ==
    LET To(k) == Pointers(p, {k})
    IN  CASE x.kind = "type" ->
               /\ x.name \in Text \cup {Nil} /\ x.struct \in BOOLEAN
               /\ x.fields \in Seq(To("var")) /\ x.element \in To("type") /\ x.result \in To("type")
          [] x.kind = "typeLayout" ->
               /\ x.shape \in {"struct", "container", "leaf"} /\ x.type \in To("type")
               /\ x.sizes \in Seq(Nat) /\ x.fields \in Seq(To("varLayout"))
               /\ x.container \in To("varLayout") /\ x.element \in To("typeLayout")
               /\ x.elementVar \in To("varLayout") /\ x.counter \in To("varLayout")
               /\ x.ranges \in Seq([type : Nat, var : To("var"), leaf : To("typeLayout")])
               /\ x.sets \in Seq(Seq(Nat))
               /\ x.subs \in Seq([range : Nat, offset : To("varLayout")])
          [] x.kind = "var" ->
               /\ x.name \in Text \cup {Nil} /\ x.type \in To("type") /\ Modified(x)
               /\ x.generic \in To("generic")
          [] x.kind = "varLayout" ->
               /\ x.var \in To("var") /\ x.typeLayout \in To("typeLayout")
               /\ x.offsets \in Seq(Nat) /\ x.spaces \in Seq(Nat)
          [] x.kind = "func" ->
               /\ x.name \in Text \cup {Nil} /\ x.result \in To("type") /\ x.params \in Seq(To("var"))
               /\ Modified(x) /\ x.generic \in To("generic")
          [] x.kind = "generic" ->
               /\ x.name \in Text \cup {Nil} /\ x.typeParams \in Seq(To("var"))
               /\ x.valueParams \in Seq(To("var"))
               /\ x.constraints \in Seq(Pointers(p, {"var", "type"})) /\ x.outer \in To("generic")
          [] x.kind = "decl" ->
               /\ x.name \in Text \cup {Nil} /\ x.children \in Seq(To("decl"))
               /\ x.payload \in Pointers(p, {"type", "func", "var", "generic"})
          [] x.kind = "entryPoint" ->
               /\ x.name \in Text \cup {Nil} /\ x.varLayout \in To("varLayout")
               /\ x.typeLayout \in To("typeLayout") /\ x.resultLayout \in To("varLayout")
               /\ x.function \in To("func") /\ x.params \in Seq(To("varLayout"))
          [] x.kind = "root" ->
               /\ x.layout \in BOOLEAN /\ x.params \in Seq(To("varLayout"))
               /\ x.global \in To("varLayout") /\ x.module \in To("decl")
               /\ x.entryPoints \in Seq(To("entryPoint")) /\ x.hashed \in Seq(Text \cup {Nil})

ASSUME ReflectionAssumption ==
    /\ Invalid \in Nat /\ Nil \notin Text
    /\ \A s \in Text : Length(s) \in Nat
    /\ \A p \in Programs :
          /\ "root" \in DOMAIN p /\ Nil \notin DOMAIN p
          /\ \A o \in DOMAIN p :
                /\ p[o].kind \in Kinds \cup {"root"} /\ Typed(p, p[o])
                /\ p[o].kind = "root" => o = "root"
          /\ p["root"].kind = "root"

VARIABLES
    prog,   \* the program, as Slang reflects it
    stack,  \* the addX calls in progress: object, step, indices added, row
    index,  \* m_typeIdx ... m_declIdx: the row of each object that has one
    table,  \* m_types ... m_entryPoints: rows of the objects
    pool,   \* m_u32Pool, m_strings, m_bindingRanges ...: everything else
    file    \* the serialized section

vars == <<prog, stack, index, table, pool, file>>

Pools == {"u32", "string", "modifier", "attr", "attrArg", "hashedStr",
          "bindingRange", "descriptorSet", "descriptorRange", "subObjectRange"}

NoFile == [size |-> 0, bytes |-> 0]
Blank  == <<>>

\* rec.field = value; also map[key] = value.
With(rec, field, value) ==
    [f \in DOMAIN rec \cup {field} |-> IF f = field THEN value ELSE rec[f]]

-----------------------------------------------------------------------------
(* The steps of the addX functions: a step adds the objects in `to' and    *)
(* then does what `op' says with their indices.                            *)

Step(op, field, to, data) == [op |-> op, field |-> field, to |-> to, data |-> data]

Ref(field, x)     == Step("ref", field, <<x>>, <<>>)
List(field, xs)   == Step("list", field, xs, <<>>)
Words(field, ws)  == Step("list", field, <<>>, ws)
Name(field, s)    == Step("name", field, <<>>, <<s>>)
Mods(ms)          == Step("mods", "modifiers", <<>>, ms)
Attrs(as)         == Step("attrs", "attributes", <<>>, as)
Add(x)            == Step("add", "", <<x>>, <<>>)

AddType(t) ==
    <<Name("name", t.name),
      List("fields", IF t.struct THEN t.fields ELSE <<>>),
      Ref("element", t.element), Ref("result", t.result)>>

\* The layouts whose binding tables Slang lets one read.
WalkBindingTables(tl) == tl.shape \in {"struct", "container"}

Mark(tl) == Step("mark", "", <<>>, tl)

BindingTables(tl) ==
    IF ~WalkBindingTables(tl) THEN <<>>
    ELSE [r \in DOMAIN tl.ranges |->
            Step("range", "", <<tl.ranges[r].var>>, tl.ranges[r])]
         \o [s \in DOMAIN tl.sets |-> Step("set", "", <<>>, tl.sets[s])]
         \o [s \in DOMAIN tl.subs |-> Step("sub", "", <<tl.subs[s].offset>>, tl.subs[s])]

\* The calls before the binding tables.
LayoutRefs(tl) ==
    <<Ref("type", tl.type), Words("sizes", tl.sizes),
      List("fields", IF tl.shape = "struct" THEN tl.fields ELSE <<>>),
      Ref("container", tl.container), Ref("elementLayout", tl.element),
      Ref("elementVar", tl.elementVar), Ref("counter", tl.counter)>>

\* Mutant: the slices start before the fields are added.
AddTypeLayoutMarksFirst(tl) == <<Mark(tl)>> \o LayoutRefs(tl) \o BindingTables(tl)

AddTypeLayout(tl) == LayoutRefs(tl) \o <<Mark(tl)>> \o BindingTables(tl)

AddVariable(v) ==
    <<Name("name", v.name), Ref("type", v.type), Mods(v.mods), Attrs(v.attrs),
      Ref("generic", v.generic)>>

AddVarLayout(vl, v) ==
    <<Ref("var", vl.var), Ref("typeLayout", vl.typeLayout),
      Words("offsets", vl.offsets), Words("spaces", vl.spaces),
      Mods(v.mods), Attrs(v.attrs)>>

AddFunction(f) ==
    <<Name("name", f.name), Ref("result", f.result), List("params", f.params),
      Mods(f.mods), Attrs(f.attrs), Ref("generic", f.generic)>>

\* Constraints are (type parameter, constraint type) pairs.
AddGeneric(g) ==
    <<Name("name", g.name), List("typeParams", g.typeParams),
      List("valueParams", g.valueParams), List("constraints", g.constraints),
      Ref("outer", g.outer)>>

AddDecl(d) ==
    <<Name("name", d.name), Ref("payload", d.payload), List("children", d.children)>>

AddEntryPoint(ep, f) ==
    <<Name("name", ep.name), Ref("varLayout", ep.varLayout),
      Ref("typeLayout", ep.typeLayout), Ref("resultLayout", ep.resultLayout),
      Ref("function", ep.function), List("params", ep.params), Attrs(f.attrs)>>

\* serialize up to the header.
Serialize(r) ==
    [k \in DOMAIN r.params |-> Add(r.params[k])]
    \o <<Ref("globalParams", r.global), Add(r.module)>>
    \o [k \in DOMAIN r.entryPoints |-> Add(r.entryPoints[k])]
    \o [k \in DOMAIN r.hashed |-> Step("hash", "", <<>>, <<r.hashed[k]>>)]

\* The variable or function a layout or an entry point takes its attributes
\* from; there are none without it.
Annotated(p, x) == IF x = Nil THEN [mods |-> <<>>, attrs |-> <<>>] ELSE p[x]

\* What addX does for object o of program p.
Script(p, o) ==
    LET x == p[o]
    IN  CASE x.kind = "type"       -> AddType(x)
          [] x.kind = "typeLayout" -> AddTypeLayout(x)
          [] x.kind = "var"        -> AddVariable(x)
          [] x.kind = "varLayout"  -> AddVarLayout(x, Annotated(p, x.var))
          [] x.kind = "func"       -> AddFunction(x)
          [] x.kind = "generic"    -> AddGeneric(x)
          [] x.kind = "decl"       -> AddDecl(x)
          [] x.kind = "entryPoint" -> AddEntryPoint(x, Annotated(p, x.function))
          [] x.kind = "root"       -> Serialize(x)

-----------------------------------------------------------------------------
Frame(o, row) == [obj |-> o, step |-> 1, got |-> <<>>, row |-> row]

Init ==
    /\ prog \in Programs
    /\ stack = <<Frame("root", Blank)>>
    /\ index = <<>>
    /\ table = [k \in Kinds |-> <<>>]
    /\ pool = [p \in Pools |-> <<>>]
    /\ file = NoFile

Top    == stack[Len(stack)]
Steps  == Script(prog, Top.obj)
Now    == Steps[Top.step]
Target == Now.to[Len(Top.got) + 1]

\* The program has a layout; without one serialize returns no bytes.
Running == stack # <<>> /\ prog["root"].layout

AtStep(op) ==
    /\ Running /\ Top.step \in DOMAIN Steps
    /\ Now.op = op /\ Len(Top.got) >= Len(Now.to)

Adding ==
    /\ Running /\ Top.step \in DOMAIN Steps
    /\ Len(Top.got) < Len(Now.to)

\* An addX called by frames s returns i.
Give(s, i) == [s EXCEPT ![Len(s)].got = Append(@, i)]

\* The running addX goes to its next step with this row.
Advance(row) ==
    stack' = [stack EXCEPT ![Len(stack)] =
                [obj |-> Top.obj, step |-> Top.step + 1, got |-> <<>>, row |-> row]]

\* addX(nullptr), or an object the map knows.
AddKnown ==
    /\ Adding
    /\ Target = Nil \/ Target \in DOMAIN index
    /\ stack' = Give(stack, IF Target = Nil THEN Invalid ELSE index[Target])
    /\ UNCHANGED <<prog, index, table, pool, file>>

\* Mutant: a nested declaration has no parent.
NewRowNoParent(o) == IF prog[o].kind = "decl" THEN With(Blank, "parent", Invalid) ELSE Blank

\* The parent addDecl passes down, and what the other functions start with.
NewRow(o) ==
    IF prog[o].kind = "decl"
    THEN With(Blank, "parent", IF Top.obj \in DOMAIN index THEN index[Top.obj] ELSE Invalid)
    ELSE Blank

\* Mutant: the object enters the map when its row is complete.
AddNewUnregistered ==
    /\ Adding
    /\ Target # Nil /\ Target \notin DOMAIN index
    /\ stack' = Append(stack, Frame(Target, NewRow(Target)))
    /\ UNCHANGED <<prog, index, table, pool, file>>

\* A row is reserved and registered before the recursion.  Entry points have
\* no map, and no row until they are complete.
AddNew ==
    /\ Adding
    /\ Target # Nil /\ Target \notin DOMAIN index
    /\ LET k == prog[Target].kind
       IN  IF k = "entryPoint" THEN UNCHANGED <<index, table>>
           ELSE /\ index' = With(index, Target, Len(table[k]))
                /\ table' = [table EXCEPT ![k] = Append(@, Blank)]
    /\ stack' = Append(stack, Frame(Target, NewRow(Target)))
    /\ UNCHANGED <<prog, pool, file>>

\* m_types[idx] = rec, and the caller gets the index.
Return ==
    /\ Running /\ Len(stack) > 1 /\ Top.step \notin DOMAIN Steps
    /\ LET k == prog[Top.obj].kind
           i == IF k = "entryPoint" THEN Len(table[k]) ELSE index[Top.obj]
       IN  /\ table' = [table EXCEPT ![k] =
                          IF k = "entryPoint" THEN Append(@, Top.row)
                          ELSE [@ EXCEPT ![i + 1] = Top.row]]
           /\ stack' = Give(SubSeq(stack, 1, Len(stack) - 1), i)
    /\ UNCHANGED <<prog, index, pool, file>>

-----------------------------------------------------------------------------
(* What a step does with the indices it got.                               *)

Slice(p, items) == [off |-> Len(pool[p]), count |-> Len(items)]

\* Nothing to store is {0, 0}.
SliceOrNone(p, items) == IF items = <<>> THEN [off |-> 0, count |-> 0] ELSE Slice(p, items)

\* internStr.
Strings(ss, s) ==
    IF s = Nil \/ \E k \in DOMAIN ss : ss[k] = s THEN ss ELSE Append(ss, s)
Position(ss, s) ==
    IF s = Nil THEN Invalid ELSE (CHOOSE k \in DOMAIN ss : ss[k] = s) - 1

SetRef ==
    /\ AtStep("ref")
    /\ Advance(With(Top.row, Now.field, Top.got[1]))
    /\ UNCHANGED <<prog, index, table, pool, file>>

\* A result nobody keeps.
Ignore ==
    /\ AtStep("add")
    /\ Advance(Top.row)
    /\ UNCHANGED <<prog, index, table, pool, file>>

\* Mutant: the offset is the end of the slice.
PushU32ListLate ==
    /\ AtStep("list")
    /\ pool' = [pool EXCEPT !["u32"] = @ \o Top.got \o Now.data]
    /\ Advance(With(Top.row, Now.field, [off |-> Len(pool'["u32"]),
                                         count |-> Len(Top.got \o Now.data)]))
    /\ UNCHANGED <<prog, index, table, file>>

\* The list is complete before it goes into the pool.
PushU32List ==
    /\ AtStep("list")
    /\ LET words == Top.got \o Now.data
       IN  /\ pool' = [pool EXCEPT !["u32"] = @ \o words]
           /\ Advance(With(Top.row, Now.field, SliceOrNone("u32", words)))
    /\ UNCHANGED <<prog, index, table, file>>

InternStr ==
    /\ AtStep("name")
    /\ pool' = [pool EXCEPT !["string"] = Strings(@, Now.data[1])]
    /\ Advance(With(Top.row, Now.field, Position(pool'["string"], Now.data[1])))
    /\ UNCHANGED <<prog, index, table, file>>

AddModifiers ==
    /\ AtStep("mods")
    /\ pool' = [pool EXCEPT !["modifier"] = @ \o Now.data]
    /\ Advance(With(Top.row, Now.field, SliceOrNone("modifier", Now.data)))
    /\ UNCHANGED <<prog, index, table, file>>

\* serializeAttributes; an attribute is its name and its arguments.
PoolWithAttr(p, a) ==
    IF a = Nil
    THEN [p EXCEPT !["attr"] = Append(@, [name |-> Invalid, off |-> 0, count |-> 0])]
    ELSE [p EXCEPT !["string"]  = Strings(@, a.name),
                  !["attrArg"] = @ \o a.args,
                  !["attr"]    = Append(@,
                    [name  |-> Position(Strings(p["string"], a.name), a.name),
                     off   |-> Len(p["attrArg"]),
                     count |-> Len(a.args)])]

\* One attribute; what the step got so far are the rows of the ones before.
AddAttribute ==
    /\ AtStep("attrs") /\ Len(Top.got) < Len(Now.data)
    /\ pool' = PoolWithAttr(pool, Now.data[Len(Top.got) + 1])
    /\ stack' = Give(stack, Len(pool["attr"]))
    /\ UNCHANGED <<prog, index, table, file>>

SetAttributes ==
    /\ AtStep("attrs") /\ Len(Top.got) = Len(Now.data)
    /\ Advance(With(Top.row, Now.field,
          [off |-> IF Top.got = <<>> THEN 0 ELSE Top.got[1], count |-> Len(Top.got)]))
    /\ UNCHANGED <<prog, index, table, pool, file>>

\* The three binding slices start at the present end of their tables.
MarkSlices ==
    /\ AtStep("mark")
    /\ LET tl == Now.data
           Count(xs) == IF WalkBindingTables(tl) THEN Len(xs) ELSE 0
           Start(p, xs) == [off |-> Len(pool[p]), count |-> Count(xs)]
       IN  Advance(With(With(With(Top.row,
             "ranges", Start("bindingRange", tl.ranges)),
             "sets",   Start("descriptorSet", tl.sets)),
             "subs",   Start("subObjectRange", tl.subs)))
    /\ UNCHANGED <<prog, index, table, pool, file>>

\* A leaf layout is looked up, never added.
AddBindingRange ==
    /\ AtStep("range")
    /\ LET leaf == Now.data.leaf
       IN  pool' = [pool EXCEPT !["bindingRange"] = Append(@,
                     [type |-> Now.data.type, var |-> Top.got[1],
                      leaf |-> IF leaf \in DOMAIN index THEN index[leaf] ELSE Invalid])]
    /\ Advance(Top.row)
    /\ UNCHANGED <<prog, index, table, file>>

AddDescriptorSet ==
    /\ AtStep("set")
    /\ pool' = [pool EXCEPT
                 !["descriptorSet"] = Append(@, Slice("descriptorRange", Now.data)),
                 !["descriptorRange"] = @ \o Now.data]
    /\ Advance(Top.row)
    /\ UNCHANGED <<prog, index, table, file>>

\* Mutant: a sub-object without an offset layout is passed over.
AddSubObjectRangeSkipsNull ==
    /\ AtStep("sub")
    /\ pool' = IF Top.got[1] = Invalid THEN pool
               ELSE [pool EXCEPT !["subObjectRange"] = Append(@,
                      [range |-> Now.data.range, offset |-> Top.got[1]])]
    /\ Advance(Top.row)
    /\ UNCHANGED <<prog, index, table, file>>

AddSubObjectRange ==
    /\ AtStep("sub")
    /\ pool' = [pool EXCEPT !["subObjectRange"] = Append(@,
                 [range |-> Now.data.range, offset |-> Top.got[1]])]
    /\ Advance(Top.row)
    /\ UNCHANGED <<prog, index, table, file>>

AddHashedStr ==
    /\ AtStep("hash")
    /\ LET ss == Strings(pool["string"], Now.data[1])
       IN  pool' = [pool EXCEPT !["string"] = ss,
                                !["hashedStr"] = Append(@, Position(ss, Now.data[1]))]
    /\ Advance(Top.row)
    /\ UNCHANGED <<prog, index, table, file>>

-----------------------------------------------------------------------------
(* The file: a layout pass, and a writing pass that pads on its own.       *)

Sections == <<"string", "hashedStr", "attrArg", "attr", "modifier", "type",
              "typeLayout", "var", "varLayout", "func", "generic", "decl",
              "entryPoint", "bindingRange", "descriptorSet", "descriptorRange",
              "subObjectRange", "u32">>

HeaderSize == 184

ASSUME WrapAssumption == Wrap \in Nat /\ HeaderSize < Wrap

Stride(k) ==
    CASE k \in {"modifier", "u32"} -> 4   [] k = "hashedStr" -> 8
      [] k \in {"attr", "subObjectRange"} -> 12
      [] k \in {"attrArg", "descriptorSet", "descriptorRange"} -> 16
      [] k = "decl" -> 24        [] k \in {"func", "bindingRange"} -> 36
      [] k = "generic" -> 40     [] k = "var" -> 44   [] k = "type" -> 56
      [] k = "varLayout" -> 64   [] k = "entryPoint" -> 76
      [] k = "typeLayout" -> 80

Rows(k) == IF k \in Kinds THEN table[k] ELSE pool[k]

Bytes(k) ==
    LET ss == pool["string"]
        sum[n \in 0 .. Len(ss)] == IF n = 0 THEN 0 ELSE sum[n - 1] + Length(ss[n]) + 1
    IN  IF k = "string" THEN sum[Len(ss)] ELSE Len(Rows(k)) * Stride(k)

\* Mutant: a table follows the one before it directly.
LayoutTableUnaligned(cur) == cur

\* align8(cur), in layoutTable.
LayoutTable(cur) == 8 * ((cur + 7) \div 8)

\* The layout pass: cur, a size_t, where each section begins and where the
\* last one ends.
Cur[n \in DOMAIN Sections] ==
    LayoutTable(IF n = 1 THEN HeaderSize ELSE Cur[n - 1] + Bytes(Sections[n - 1]))
CurEnd == Cur[Len(Sections)] + Bytes(Sections[Len(Sections)])

\* The offset in the header: static_cast<uint32_t>(cur).
Off == [n \in DOMAIN Sections |-> Cur[n] % Wrap]

\* The writing pass: writeTable fills up with zeros to the section's offset,
\* and appends where the output is past it.
At[n \in DOMAIN Sections] ==
    LET size == IF n = 1 THEN HeaderSize ELSE At[n - 1] + Bytes(Sections[n - 1])
    IN  IF size < Off[n] THEN Off[n] ELSE size
AtEnd == At[Len(Sections)] + Bytes(Sections[Len(Sections)])

\* size is the header's; bytes is the length, filled up to cur.
WriteFile ==
    /\ Running /\ Len(stack) = 1 /\ Top.step \notin DOMAIN Steps
    /\ file' = [size   |-> CurEnd % Wrap,
                bytes  |-> IF AtEnd < CurEnd THEN CurEnd ELSE AtEnd,
                off    |-> Off,
                at     |-> At,
                rows   |-> [k \in Kinds \cup Pools |-> Rows(k)],
                global |-> Top.row["globalParams"]]
    /\ stack' = <<>>
    /\ UNCHANGED <<prog, index, table, pool>>

\* serialize's caller gets no bytes.
NoLayout ==
    /\ stack # <<>> /\ ~prog["root"].layout
    /\ stack' = <<>>
    /\ UNCHANGED <<prog, index, table, pool, file>>

Done ==
    /\ stack = <<>>
    /\ UNCHANGED vars

Next ==
    \/ AddKnown \/ AddNew \/ Return
    \/ SetRef \/ Ignore \/ PushU32List \/ InternStr \/ AddModifiers
    \/ AddAttribute \/ SetAttributes
    \/ MarkSlices \/ AddBindingRange \/ AddDescriptorSet \/ AddSubObjectRange
    \/ AddHashedStr
    \/ WriteFile \/ NoLayout \/ Done

Spec == Init /\ [][Next]_vars

-----------------------------------------------------------------------------
Written == file # NoFile

\* The offsets in the header are those of the sections.
Fits == file.bytes < Wrap

\* The recursion over a cyclic graph ends: no object is entered while an addX
\* call for it is in progress (the maps are filled before the recursion).
NoReentry ==
    \A m, n \in DOMAIN stack : stack[m].obj = stack[n].obj => m = n

\* An index i in a row stands for the object x.
Names(i, x) == IF x = Nil THEN i = Invalid ELSE x \in DOMAIN index /\ i = index[x]

\* A slice of the word pool stands for the objects xs.
Lists(s, xs) ==
    /\ s.count = Len(xs)
    /\ \A k \in DOMAIN xs : Names(pool["u32"][s.off + k], xs[k])

Holds(s, p, items) == SubSeq(pool[p], s.off + 1, s.off + s.count) = items

\* An index i in a row stands for the string s.
Spells(i, s) ==
    IF s = Nil THEN i = Invalid
    ELSE i < Len(pool["string"]) /\ pool["string"][i + 1] = s

\* A slice of the attribute table stands for the attributes as.
Attributed(c, as) ==
    /\ c.count = Len(as)
    /\ \A k \in DOMAIN as :
         LET row == pool["attr"][c.off + k]
         IN  IF as[k] = Nil THEN row.name = Invalid /\ row.count = 0
             ELSE Spells(row.name, as[k].name) /\ Holds(row, "attrArg", as[k].args)

\* The row r stands for the object o: its columns, one after the other.
StandsFor(r, o) ==
    LET x == prog[o]
        Covers(c, xs) == c.count = IF WalkBindingTables(x) THEN Len(xs) ELSE 0
        Modifies(f) == Holds(r.modifiers, "modifier", f.mods)
    IN  CASE x.kind = "type" ->
               /\ Spells(r.name, x.name)
               /\ Names(r.element, x.element) /\ Names(r.result, x.result)
               /\ Lists(r.fields, IF x.struct THEN x.fields ELSE <<>>)
          [] x.kind = "typeLayout" ->
               /\ Names(r.type, x.type) /\ Names(r.container, x.container)
               /\ Names(r.elementLayout, x.element) /\ Names(r.elementVar, x.elementVar)
               /\ Names(r.counter, x.counter)
               /\ Lists(r.fields, IF x.shape = "struct" THEN x.fields ELSE <<>>)
               /\ Holds(r.sizes, "u32", x.sizes)
               /\ Covers(r.ranges, x.ranges) /\ Covers(r.sets, x.sets) /\ Covers(r.subs, x.subs)
          [] x.kind = "var" ->
               /\ Spells(r.name, x.name)
               /\ Names(r.type, x.type) /\ Names(r.generic, x.generic)
               /\ Modifies(x) /\ Attributed(r.attributes, x.attrs)
          [] x.kind = "varLayout" ->
               /\ Names(r.var, x.var) /\ Names(r.typeLayout, x.typeLayout)
               /\ Holds(r.offsets, "u32", x.offsets) /\ Holds(r.spaces, "u32", x.spaces)
               /\ Modifies(Annotated(prog, x.var))
               /\ Attributed(r.attributes, Annotated(prog, x.var).attrs)
          [] x.kind = "func" ->
               /\ Spells(r.name, x.name)
               /\ Names(r.result, x.result) /\ Lists(r.params, x.params)
               /\ Names(r.generic, x.generic)
               /\ Modifies(x) /\ Attributed(r.attributes, x.attrs)
          [] x.kind = "generic" ->
               /\ Spells(r.name, x.name)
               /\ Lists(r.typeParams, x.typeParams) /\ Lists(r.valueParams, x.valueParams)
               /\ Lists(r.constraints, x.constraints) /\ Names(r.outer, x.outer)
          [] x.kind = "decl" ->
               /\ Spells(r.name, x.name)
               /\ Names(r.payload, x.payload) /\ Lists(r.children, x.children)
               /\ \A k \in DOMAIN x.children : x.children[k] # Nil =>
                    table["decl"][index[x.children[k]] + 1].parent = index[o]
               /\ o = prog["root"].module => r.parent = Invalid
          [] x.kind = "entryPoint" ->
               /\ Spells(r.name, x.name) /\ Names(r.varLayout, x.varLayout)
               /\ Names(r.typeLayout, x.typeLayout) /\ Names(r.resultLayout, x.resultLayout)
               /\ Names(r.function, x.function) /\ Lists(r.params, x.params)
               /\ Attributed(r.attributes, Annotated(prog, x.function).attrs)

\* The entry points that get a row, in the order of the program.
EntriesAdded ==
    LET all == prog["root"].entryPoints
    IN  PushBacks([k \in {k \in DOMAIN all : all[k] # Nil} |-> all[k]], Len(all))

\* The tables are the graph: every row was completed after its recursion, and
\* each of its indices and slices, those of its names, modifiers and
\* attributes among them, is the one of the object or the words that Slang
\* has there, however often and in whatever order the objects were met.  No
\* two objects share a row.  The rows of the entry points are in the order of
\* the program, and so are the hashed strings.  (Whose binding ranges and
\* sub-objects the three slices of a layout hold: see the next properties.)
RowsFaithful ==
    Written =>
      /\ \A o \in DOMAIN index :
           /\ \A n \in DOMAIN index :
                n # o /\ prog[n].kind = prog[o].kind => index[n] # index[o]
           /\ StandsFor(table[prog[o].kind][index[o] + 1], o)
      /\ Len(table["entryPoint"]) = Len(EntriesAdded)
      /\ \A e \in DOMAIN EntriesAdded : StandsFor(table["entryPoint"][e], EntriesAdded[e])
      /\ Names(file.global, prog["root"].global)
      /\ Len(pool["hashedStr"]) = Len(prog["root"].hashed)
      /\ \A k \in DOMAIN prog["root"].hashed :
           Spells(pool["hashedStr"][k], prog["root"].hashed[k])

LayoutRow(o) == table["typeLayout"][index[o] + 1]
LayoutsDone  == {o \in DOMAIN index : prog[o].kind = "typeLayout" /\ Written}
Walked(o)    == WalkBindingTables(prog[o])

\* The binding ranges and descriptor sets of a layout are its own, although
\* other layouts fill the same tables while it is being added.
BindingSlicesExact ==
    \A o \in LayoutsDone : Walked(o) =>
      LET x == prog[o]
          r == LayoutRow(o)
      IN  /\ \A k \in DOMAIN x.ranges :
               LET row == pool["bindingRange"][r.ranges.off + k]
               IN  /\ row.type = x.ranges[k].type /\ Names(row.var, x.ranges[k].var)
                   /\ row.leaf = Invalid \/ Names(row.leaf, x.ranges[k].leaf)
          /\ \A k \in DOMAIN x.sets :
               Holds(pool["descriptorSet"][r.sets.off + k], "descriptorRange", x.sets[k])

\* A layout first met through a sub-object of o, whose own sub-objects came
\* between the rows of o: its slice starts in that of o.
Intrudes(n, o) ==
    /\ index[n] > index[o] /\ LayoutRow(n).subs.count > 0
    /\ LayoutRow(n).subs.off \in
         LayoutRow(o).subs.off .. LayoutRow(o).subs.off + LayoutRow(o).subs.count - 1

OwnSubObjects(o) ==
    LET subs == prog[o].subs
        r    == LayoutRow(o)
    IN  /\ r.subs.count = Len(subs)
        /\ r.subs.off + Len(subs) <= Len(pool["subObjectRange"])
        /\ \A k \in DOMAIN subs :
             LET row == pool["subObjectRange"][r.subs.off + k]
             IN  row.range = subs[k].range /\ Names(row.offset, subs[k].offset)

\* docs/reflection.md:137-145: the sub-object slice of a layout has the
\* layout's own sub-objects.  The code does not keep this: the loop that fills
\* the slice adds the offset layouts, and another layout first met there puts
\* its rows between.
SubObjectSliceExact == \A o \in LayoutsDone : Walked(o) => OwnSubObjects(o)

\* Nothing else goes wrong with a sub-object slice: it is the layout's own
\* unless the slice of another layout begins inside it, so a reader can tell
\* the slices to distrust.
SubObjectSliceUnlessIntruded ==
    \A o \in LayoutsDone :
      Walked(o) /\ (\A n \in LayoutsDone : ~Intrudes(n, o)) => OwnSubObjects(o)

\* The layout pass and the writing pass agree as far as 32 bits go: a section
\* is at the offset in the header exactly if it begins below 2^32, there it is
\* aligned and ends before the next one, and the header's size is the length
\* of the file exactly if that is below 2^32.  Nothing in the code refuses a
\* longer file: its later offsets name other bytes.
SectionsPlaced ==
    Written =>
      /\ \A n \in DOMAIN Sections :
           /\ file.at[n] = file.off[n] <=> Cur[n] < Wrap
           /\ Cur[n] < Wrap =>
                /\ file.off[n] % 8 = 0
                /\ file.off[n] + Bytes(Sections[n])
                     <= (IF n = Len(Sections) THEN file.bytes ELSE file.at[n + 1])
      /\ file.size = file.bytes <=> file.bytes < Wrap
=============================================================================
