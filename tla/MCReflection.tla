---------------------------- MODULE MCReflection ----------------------------
(***************************************************************************)
(* Programs with one struct that points to itself, a generic variable, a   *)
(* nested parameter block, a module with a declaration tree and two entry  *)
(* points, varied where the order of the visits depends on it, and a       *)
(* string so long that the section is longer than its offsets can say.     *)
(***************************************************************************)
EXTENDS ReflectionView, TLC

CONSTANT null

MCLength(s) == CASE s = "S" -> 1 [] s = "next" -> 4 [] s = "main" -> 4
                 [] s = "T" -> 1 [] s = "" -> 0
                 [] s = "long" -> 1000

MCText == {"S", "next", "main", "T", "", "long"}

\* Two of Slang's modifiers.
In  == 1
Out == 2

Type(name, fields, element) ==
    [kind |-> "type", name |-> name, struct |-> fields # <<>>, fields |-> fields,
     element |-> element, result |-> null]

Variable(name, type, generic, mods, attrs) ==
    [kind |-> "var", name |-> name, type |-> type, generic |-> generic,
     mods |-> mods, attrs |-> attrs]

VarLayout(var, tl, offsets, spaces) ==
    [kind |-> "varLayout", var |-> var, typeLayout |-> tl, offsets |-> offsets,
     spaces |-> spaces]

Layout(shape, type, sizes, fields, element, ranges, sets, subs) ==
    [kind |-> "typeLayout", shape |-> shape, type |-> type, sizes |-> sizes,
     fields |-> fields, container |-> null, element |-> element,
     elementVar |-> null, counter |-> null, ranges |-> ranges, sets |-> sets,
     subs |-> subs]

\* What the programs differ in.
Choices ==
    [element : {"S", null},            \* the element type of P
     leaf    : {"block", "late"},       \* leaf layout of a binding range
     offset  : {"vlBlock", "vlNew", null}, \* offset of the first sub-object
     field   : {"next", null},         \* a field of the struct
     constraint : {"S", "T"},
     first   : {"vlBlock", null},      \* the first parameter
     module  : {"dRoot", null},
     second  : {"ep2", null},
     hashed  : {"T"},
     layout  : {TRUE}]
    \cup [element : {null}, leaf : {null}, offset : {null}, field : {null},
          constraint : {"T"}, first : {null}, module : {null}, second : {null},
          hashed : {"T"}, layout : {FALSE}]
    \cup [element : {"S"}, leaf : {"block"}, offset : {"vlNew", null}, field : {"next"},
          constraint : {"S"}, first : {null}, module : {"dRoot", null}, second : {"ep2"},
          hashed : {"long"}, layout : {TRUE}]  \* longer than Wrap

Program(c) ==
    ("root" :> [kind |-> "root", layout |-> c.layout, params |-> <<c.first>>,
                global |-> "vlGlobal", module |-> c.module,
                entryPoints |-> <<"ep1", c.second>>, hashed |-> <<"main", c.hashed>>])
    @@ ("S" :> Type("S", <<"next", c.field>>, null))
    @@ ("P" :> [Type("", <<>>, c.element) EXCEPT !.result = "T"])
    @@ ("T" :> Type("T", <<>>, null))
    @@ ("next" :> Variable("next", "P", "g", <<In, Out>>,
                           <<[name |-> "S", args |-> <<3, 4>>], null>>))
    @@ ("tp" :> Variable("T", "T", "g", <<>>, <<[name |-> "T", args |-> <<5>>]>>))
    @@ ("gv" :> Variable(null, "S", null, <<In>>, <<>>))
    @@ ("g" :> [kind |-> "generic", name |-> "T", typeParams |-> <<"tp">>,
                valueParams |-> <<"gv">>, constraints |-> <<"tp", c.constraint>>, outer |-> "g0"])
    @@ ("g0" :> [kind |-> "generic", name |-> "main", typeParams |-> <<>>,
                 valueParams |-> <<null>>, constraints |-> <<>>, outer |-> null])
    @@ ("f" :> [kind |-> "func", name |-> "main", result |-> "T", params |-> <<"next", null>>,
                mods |-> <<>>, attrs |-> <<[name |-> "T", args |-> <<6>>]>>, generic |-> null])
    @@ ("vlGlobal" :> VarLayout(null, "global", <<>>, <<>>))
    @@ ("vlBlock" :> VarLayout("gv", "block", <<8, 9>>, <<2, 3>>))
    @@ ("vlNew" :> VarLayout(null, "late", <<>>, <<>>))
    @@ ("global" :> Layout("struct", "S", <<16>>, <<"vlBlock", null>>, null,
          <<[type |-> 1, var |-> "gv", leaf |-> c.leaf],
            [type |-> 2, var |-> "next", leaf |-> null]>>,
          <<<<7, 8>>, <<9>>>>,
          <<[range |-> 0, offset |-> c.offset], [range |-> 1, offset |-> "vlBlock"]>>))
    @@ ("block" :> [Layout("container", "S", <<32, 4>>, <<>>, null,
                      <<[type |-> 3, var |-> null, leaf |-> null]>>, <<<<10>>>>, <<>>)
                    EXCEPT !.container = "vlBlock"])
    @@ ("late" :> [Layout("container", "S", <<>>, <<>>, "leaf",
                     <<[type |-> 4, var |-> null, leaf |-> "leaf"]>>, <<<<11>>>>,
                     <<[range |-> 2, offset |-> null]>>)
                   EXCEPT !.elementVar = "vlBlock", !.counter = "vlGlobal"])
    @@ ("leaf" :> Layout("leaf", "P", <<4>>, <<>>, null, <<>>, <<>>, <<>>))
    @@ ("dRoot" :> [kind |-> "decl", name |-> "", payload |-> null,
                    children |-> <<"dStruct", null, "dFunc">>])
    @@ ("dStruct" :> [kind |-> "decl", name |-> "S", payload |-> "S", children |-> <<"dVar">>])
    @@ ("dVar" :> [kind |-> "decl", name |-> "next", payload |-> "next", children |-> <<>>])
    @@ ("dFunc" :> [kind |-> "decl", name |-> "main", payload |-> "f", children |-> <<>>])
    @@ ("ep1" :> [kind |-> "entryPoint", name |-> "main", varLayout |-> "vlGlobal",
                  typeLayout |-> "global", resultLayout |-> null, function |-> "f",
                  params |-> <<"vlBlock", null>>])
    @@ ("ep2" :> [kind |-> "entryPoint", name |-> "S", varLayout |-> null,
                  typeLayout |-> "late", resultLayout |-> "vlNew", function |-> null,
                  params |-> <<>>])

MCPrograms == {Program(c) : c \in Choices}
=============================================================================
