--------------------------- MODULE ReflectionView ---------------------------
(***************************************************************************)
(* ReflectionView (src/src/slangmake_reflection.cpp): what a reader gets   *)
(* from the bytes of a reflection section, which is empty for an entry     *)
(* without one.                                                            *)
(***************************************************************************)
EXTENDS ReflectionSerializer, FiniteSets

\* Slang's declarations are a tree: each but the module's own is the child of
\* one declaration at most.
ASSUME DeclAssumption ==
    \A p \in Programs : \A d \in DOMAIN p : p[d].kind = "decl" =>
      \A j \in DOMAIN p[d].children :
        LET c == p[d].children[j]
        IN  c # Nil =>
              /\ c # p["root"].module
              /\ \A e \in DOMAIN p : p[e].kind = "decl" =>
                   \A k \in DOMAIN p[e].children : p[e].children[k] = c => e = d

\* There are fewer objects and strings than kInvalidIndex, the largest of the
\* 32-bit indices: the code counts on it.
ASSUME IndexAssumption ==
    /\ IsFiniteSet(Text) /\ Cardinality(Text) <= Invalid
    /\ \A p \in Programs : IsFiniteSet(DOMAIN p) /\ Cardinality(DOMAIN p) <= Invalid

\* m_hdr: there is none in bytes that are too few for the header or for the
\* size in it.
HasHeader == file.bytes >= HeaderSize /\ file.size <= file.bytes

\* tableSpan: whatever is at the offset in the header.  What other bytes than
\* the section's would be read as is left out: no property speaks of a file
\* whose offsets are wrong.
TableSpan(k) ==
    IF ~HasHeader THEN <<>>
    ELSE LET n == CHOOSE m \in DOMAIN Sections : Sections[m] = k
         IN  IF file.at[n] = file.off[n] THEN file.rows[k] ELSE <<>>

\* string: the name at an index, or nothing.
String(i) ==
    LET ss == TableSpan("string")
    IN  IF i = Invalid \/ i >= Len(ss) THEN Nil ELSE ss[i + 1]

\* hashedString: the string a hash stands for.
HashedString(k) ==
    LET hs == TableSpan("hashedStr")
    IN  IF k >= Len(hs) THEN Nil ELSE String(hs[k + 1])

\* pool[off], the value for the first category, if there is a category.
FirstWord(slice) ==
    LET words == TableSpan("u32")
    IN  IF slice.count > 0 /\ slice.off < Len(words) THEN words[slice.off + 1] ELSE 0

\* Mutant: the space is read where the offsets are.
DecodeParamMixed(vl) ==
    LET vs  == TableSpan("var")
        tls == TableSpan("typeLayout")
    IN  [name   |-> IF vl.var < Len(vs) THEN String(vs[vl.var + 1].name) ELSE Nil,
         space  |-> FirstWord(vl.offsets),
         offset |-> FirstWord(vl.offsets),
         size   |-> IF vl.typeLayout < Len(tls) THEN FirstWord(tls[vl.typeLayout + 1].sizes) ELSE 0]

DecodeParam(vl) ==
    LET vs  == TableSpan("var")
        tls == TableSpan("typeLayout")
    IN  [name   |-> IF vl.var < Len(vs) THEN String(vs[vl.var + 1].name) ELSE Nil,
         space  |-> FirstWord(vl.spaces),
         offset |-> FirstWord(vl.offsets),
         size   |-> IF vl.typeLayout < Len(tls) THEN FirstWord(tls[vl.typeLayout + 1].sizes) ELSE 0]

\* The parameters in a slice of layout indices; null ones are passed over.
DecodeParams(slice) ==
    LET vls   == TableSpan("varLayout")
        at(k) == TableSpan("u32")[slice.off + k]
    IN  PushBacks([k \in {k \in 1 .. slice.count : at(k) < Len(vls)} |->
                     DecodeParam(vls[at(k) + 1])], slice.count)

DecodedEntryPoints ==
    LET eps   == TableSpan("entryPoint")
        attrs == TableSpan("attr")
        args  == TableSpan("attrArg")
    IN  [e \in DOMAIN eps |->
          [name       |-> String(eps[e].name),
           parameters |-> DecodeParams(eps[e].params),
           attributes |-> [a \in 1 .. eps[e].attributes.count |->
             LET row == attrs[eps[e].attributes.off + a]
             IN  [name |-> String(row.name),
                  args |-> SubSeq(args, row.off + 1, row.off + row.count)]]]]

DecodedGlobalParameters ==
    LET vls == TableSpan("varLayout")
        tls == TableSpan("typeLayout")
    IN  IF ~HasHeader \/ file.global = Invalid \/ file.global >= Len(vls) THEN <<>>
        ELSE LET tl == vls[file.global + 1].typeLayout
             IN  IF tl >= Len(tls) THEN <<>> ELSE DecodeParams(tls[tl + 1].fields)

\* decl, for an index inside the table.
Decl(i) ==
    LET d     == TableSpan("decl")[i + 1]
        words == TableSpan("u32")
    IN  [name     |-> String(d.name),
         parent   |-> d.parent,
         payload  |-> d.payload,
         children |-> IF d.children.off + d.children.count <= Len(words)
                      THEN SubSeq(words, d.children.off + 1, d.children.off + d.children.count)
                      ELSE <<>>]

\* rootDecl.
RootDecl == IF TableSpan("decl") = <<>> THEN Nil ELSE Decl(0)

-----------------------------------------------------------------------------
(* What Slang said of the program.                                         *)

First(ws) == IF ws = <<>> THEN 0 ELSE ws[1]

SlangParam(vl) ==
    LET x == prog[vl]
    IN  [name   |-> IF x.var = Nil THEN Nil ELSE prog[x.var].name,
         space  |-> First(x.spaces),
         offset |-> First(x.offsets),
         size   |-> IF x.typeLayout = Nil THEN 0 ELSE First(prog[x.typeLayout].sizes)]

\* The positions of xs that are not null.
NonNull(xs) == {k \in DOMAIN xs : xs[k] # Nil}

SlangParams(vls) == PushBacks([k \in NonNull(vls) |-> SlangParam(vls[k])], Len(vls))

Root == prog["root"]

\* The attributes as they are read back: a null one has no name and no
\* arguments.
SlangAttrs(f) ==
    LET as == Annotated(prog, f).attrs
    IN  [k \in DOMAIN as |-> IF as[k] = Nil THEN [name |-> Nil, args |-> <<>>] ELSE as[k]]

\* In a section below 2^32 bytes, whose offsets are therefore right (this goes
\* for the next two properties too),
\* the decoded entry points are those of the program, in its order, each with
\* the names, registers and attributes of its own parameters.
EntryPointsDecoded ==
    Written /\ Fits =>
      LET all == Root.entryPoints
          eps == PushBacks([k \in NonNull(all) |-> all[k]], Len(all))
      IN  DecodedEntryPoints =
            [e \in DOMAIN eps |->
              [name       |-> prog[eps[e]].name,
               parameters |-> SlangParams(prog[eps[e]].params),
               attributes |-> SlangAttrs(prog[eps[e]].function)]]

\* The decoded global parameters are the fields of the global scope, and an
\* entry without a reflection section has none.  Its hashed strings are those
\* that Slang hashed, in their order.
GlobalsDecoded ==
    stack = <<>> /\ Fits =>
      /\ \A k \in DOMAIN Root.hashed :
           HashedString(k - 1) = IF Written THEN Root.hashed[k] ELSE Nil
      /\ DecodedGlobalParameters =
        IF ~Written \/ Root.global = Nil THEN <<>>
        ELSE LET tl == prog[Root.global].typeLayout
             IN  IF tl = Nil \/ prog[tl].shape # "struct" THEN <<>>
                 ELSE SlangParams(prog[tl].fields)

\* The declarations form a tree below rootDecl: every declaration
\* names its children, and they name it as their parent.
DeclTreeDecoded ==
    Written /\ Fits => \A o \in DOMAIN index : prog[o].kind = "decl" =>
      LET d == Decl(index[o])
          x == prog[o]
      IN  /\ d.name = x.name
          /\ o = Root.module => RootDecl = d /\ d.parent = Invalid
          /\ Len(d.children) = Len(x.children)
          /\ \A k \in DOMAIN x.children :
               /\ Names(d.children[k], x.children[k])
               /\ x.children[k] # Nil => Decl(d.children[k]).parent = index[o]
=============================================================================
