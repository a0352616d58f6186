------------------------ MODULE ReflectionViewProofs ------------------------
(***************************************************************************)
(* TLAPS proofs about ReflectionView: a reader of the section gets what    *)
(* Slang said of the program.                                              *)
(***************************************************************************)
EXTENDS ReflectionProofs

\* The pools hold attribute a at position j.
AttrIs(pl, j, a) ==
    LET r == pl["attr"][j]
    IN  /\ j <= Len(pl["attr"])
        /\ a = Nil => r = [name |-> Invalid, off |-> 0, count |-> 0]
        /\ a # Nil =>
             /\ r.name < Len(pl["string"]) /\ pl["string"][r.name + 1] = a.name
             /\ r.count = Len(a.args) /\ r.off + r.count <= Len(pl["attrArg"])
             /\ \A i \in 1 .. Len(a.args) : pl["attrArg"][r.off + i] = a.args[i]

\* Step m of object o has left its attributes in the slice of row.
AttrsStored(p, o, m, row, pl) ==
    LET s == Script(p, o)[m]
    IN  s.op = "attrs" =>
          \A k \in 1 .. Len(s.data) : AttrIs(pl, row[s.field].off + k, s.data[k])

\* The attributes so far of a frame that serializes them are the last ones.
GotAttrs(p, f, pl) ==
    Busy(p, f) /\ StepOf(p, f).op = "attrs" /\ f.got # <<>> =>
      /\ Len(pl["attr"]) = f.got[1] + Len(f.got)
      /\ \A k \in 1 .. Len(f.got) : AttrIs(pl, f.got[1] + k, StepOf(p, f).data[k])

FrameAttrs(p, f, pl) ==
    GotAttrs(p, f, pl) /\ \A m \in 1 .. f.step - 1 : AttrsStored(p, f.obj, m, f.row, pl)

StackAttrs(p, st, pl) == \A n \in 1 .. Len(st) : FrameAttrs(p, st[n], pl)

\* Where serialize adds the entry points, and where it interns the strings.
EntryBase(p) == Len(p["root"].params) + 2
HashBase(p)  == EntryBase(p) + Len(p["root"].entryPoints)

\* How many of them the root's frame has dealt with.
EntriesIn(p, f) ==
    IF f.step <= EntryBase(p) THEN 0
    ELSE IF f.step > HashBase(p) THEN Len(p["root"].entryPoints)
    ELSE f.step - 1 - EntryBase(p) + Len(f.got)
HashesIn(p, f) == IF f.step <= HashBase(p) THEN 0 ELSE f.step - 1 - HashBase(p)

\* The first k entry points that are not null.
EntryPoints(p, k) ==
    LET all == p["root"].entryPoints
    IN  PushBacks([j \in NonNull(all) |-> all[j]], k)

\* The row of object o has all that its steps leave there.
FullRow(p, o, row, ix, pl) ==
    /\ RowDone(p, o, row, ix, pl)
    /\ \A m \in 1 .. Len(Script(p, o)) : AttrsStored(p, o, m, row, pl)

RowsFull(p, st, ix, tb, pl) ==
    \A o \in DOMAIN ix : OnStack(o, st) \/ FullRow(p, o, tb[p[o].kind][ix[o] + 1], ix, pl)

EntryRows(p, es, rows, ix, pl) ==
    Len(rows) = Len(es) /\ \A e \in 1 .. Len(es) : FullRow(p, es[e], rows[e], ix, pl)

\* Position j of the hashed strings stands for s.
HashIs(pl, j, s) ==
    LET h == pl["hashedStr"][j]
    IN  /\ s = Nil => h = Invalid
        /\ s # Nil => h < Len(pl["string"]) /\ pl["string"][h + 1] = s

Hashes(p, n, pl) ==
    Len(pl["hashedStr"]) = n /\ \A j \in 1 .. n : HashIs(pl, j, p["root"].hashed[j])

\* The root's entry points and hashed strings so far.
RootDone(p, st, ix, tb, pl) ==
    st # <<>> =>
      /\ EntryRows(p, EntryPoints(p, EntriesIn(p, st[1])), tb["entryPoint"], ix, pl)
      /\ Hashes(p, HashesIn(p, st[1]), pl)

IsDecl(p, o) == p[o].kind = "decl"
Parent(p, d, o) == IsDecl(p, d) /\ \E j \in DOMAIN p[d].children : p[d].children[j] = o

\* The row of declaration o names its parent.
ParentIs(p, ix, o, row) ==
    /\ "parent" \in DOMAIN row
    /\ o = p["root"].module => row["parent"] = Invalid
    /\ \A d \in DOMAIN p : Parent(p, d, o) => d \in DOMAIN ix /\ row["parent"] = ix[d]

ModuleFirst(p, ix) ==
    (\E o \in DOMAIN ix : IsDecl(p, o)) =>
      p["root"].module \in DOMAIN ix /\ ix[p["root"].module] = 0

Decls(p, st, ix, tb) ==
    /\ ModuleFirst(p, ix)
    /\ \A n \in 1 .. Len(st) : IsDecl(p, st[n].obj) => ParentIs(p, ix, st[n].obj, st[n].row)
    /\ \A o \in DOMAIN ix : IsDecl(p, o) =>
         OnStack(o, st) \/ ParentIs(p, ix, o, tb["decl"][ix[o] + 1])

\* No row without an object, and no string twice.
RowsOwned(p, ix, tb) ==
    \A k \in Kinds : k # "entryPoint" =>
      \A i \in 1 .. Len(tb[k]) : \E o \in DOMAIN ix : p[o].kind = k /\ ix[o] = i - 1

Distinct(ss) == \A i, j \in 1 .. Len(ss) : ss[i] = ss[j] => i = j

\* What the file has taken from the tables and the pools, which are complete.
FileIs(p, f, ix, tb, pl) ==
    /\ f.bytes \in Nat /\ f.bytes >= HeaderSize /\ f.size <= f.bytes
    /\ f.bytes < Wrap => \A n \in 1 .. 18 : f.at[n] = f.off[n]
    /\ f.rows = [k \in Kinds \cup Pools |-> IF k \in Kinds THEN tb[k] ELSE pl[k]]
    /\ NamesIn(ix, f.global, p["root"].global)
    /\ EntryRows(p, EntryPoints(p, Len(p["root"].entryPoints)), tb["entryPoint"], ix, pl)
    /\ Hashes(p, Len(p["root"].hashed), pl)

ViewState(p, st, ix, tb, pl) ==
    /\ StackAttrs(p, st, pl) /\ RootDone(p, st, ix, tb, pl) /\ Decls(p, st, ix, tb)
    /\ RowsOwned(p, ix, tb) /\ Distinct(pl["string"]) /\ RowsFull(p, st, ix, tb, pl)

ViewInv ==
    /\ ViewState(prog, stack, index, table, pool)
    /\ Written => FileIs(prog, file, index, table, pool)

-----------------------------------------------------------------------------
(* Loops with push_back.                                                   *)

\* The results of the loop up to each of 0 .. n.
Loop(f, xs, n) ==
    f = [k \in 0 .. n |->
          IF k = 0 THEN <<>> ELSE IF k \in DOMAIN xs THEN Append(f[k - 1], xs[k]) ELSE f[k - 1]]

LEMMA LoopValues ==
    ASSUME NEW n \in Nat, NEW xs, NEW f, Loop(f, xs, n)
    PROVE  /\ DOMAIN f = 0 .. n /\ f[0] = <<>>
           /\ \A k \in 1 .. n : f[k] = IF k \in DOMAIN xs THEN Append(f[k - 1], xs[k]) ELSE f[k - 1]
<1> DEFINE V(k) == IF k = 0 THEN <<>> ELSE IF k \in DOMAIN xs THEN Append(f[k - 1], xs[k]) ELSE f[k - 1]
<1>1. f = [k \in 0 .. n |-> V(k)]
  BY DEF Loop
<1>2. 0 \in 0 .. n /\ \A k \in 1 .. n : k \in 0 .. n /\ k # 0
  OBVIOUS
<1>3. DOMAIN f = 0 .. n /\ \A k \in 0 .. n : f[k] = V(k)
  <2> HIDE DEF V
  <2> QED
    BY <1>1
<1>4. f[0] = <<>>
  BY <1>2, <1>3
<1>5. ASSUME NEW k \in 1 .. n
      PROVE  f[k] = IF k \in DOMAIN xs THEN Append(f[k - 1], xs[k]) ELSE f[k - 1]
  BY <1>2, <1>3
<1> QED
  BY <1>3, <1>4, <1>5

LEMMA LoopIs ==
    ASSUME NEW n \in Nat, NEW xs, NEW f, DOMAIN f = 0 .. n, f = [k \in DOMAIN f |-> f[k]], f[0] = <<>>,
           \A k \in 1 .. n : f[k] = IF k \in DOMAIN xs THEN Append(f[k - 1], xs[k]) ELSE f[k - 1]
    PROVE  Loop(f, xs, n)
<1> DEFINE V(k) == IF k = 0 THEN <<>> ELSE IF k \in DOMAIN xs THEN Append(f[k - 1], xs[k]) ELSE f[k - 1]
<1>1. ASSUME NEW k \in 0 .. n PROVE f[k] = V(k)
  <2>1. CASE k = 0
    BY <2>1
  <2>2. CASE k # 0
    <3>1. k \in 1 .. n
      BY <2>2
    <3> QED
      BY <2>2, <3>1
  <2> QED
    BY <2>1, <2>2
<1> HIDE DEF V
<1>2. f = [k \in 0 .. n |-> V(k)]
  BY <1>1
<1> QED
  BY <1>2 DEF Loop, V

LEMMA LoopExists ==
    ASSUME NEW N \in Nat, NEW xs
    PROVE  \E f : Loop(f, xs, N)
<1> DEFINE S == {n \in 0 .. N : \E f : Loop(f, xs, n)}
<1>1. \E f : Loop(f, xs, 0)
  <2> DEFINE f == [i \in 0 .. 0 |-> <<>>]
  <2>1. DOMAIN f = 0 .. 0 /\ f[0] = <<>> /\ f = [k \in DOMAIN f |-> f[k]]
    OBVIOUS
  <2> HIDE DEF f
  <2>2. Loop(f, xs, 0)
    BY <2>1, LoopIs
  <2> QED
    BY <2>2
<1>2. ASSUME NEW n \in 1 .. N, NEW f, Loop(f, xs, n - 1) PROVE \E g : Loop(g, xs, n)
  <2> DEFINE v == IF n \in DOMAIN xs THEN Append(f[n - 1], xs[n]) ELSE f[n - 1]
             g == [i \in 0 .. n |-> IF i = n THEN v ELSE f[i]]
  <2>1. /\ n - 1 \in Nat /\ f[0] = <<>>
        /\ \A k \in 1 .. n - 1 : f[k] = IF k \in DOMAIN xs THEN Append(f[k - 1], xs[k]) ELSE f[k - 1]
    BY <1>2, LoopValues
  <2> HIDE DEF v
  <2>2. DOMAIN g = 0 .. n /\ g[n] = v /\ g = [k \in DOMAIN g |-> g[k]] /\ \A i \in 0 .. n - 1 : g[i] = f[i]
    OBVIOUS
  <2> HIDE DEF g
  <2>3. ASSUME NEW k \in 1 .. n
        PROVE  g[k] = IF k \in DOMAIN xs THEN Append(g[k - 1], xs[k]) ELSE g[k - 1]
    <3>1. g[k - 1] = f[k - 1]
      BY <2>2
    <3>2. CASE k = n
      BY <2>2, <3>1, <3>2 DEF v
    <3>3. CASE k # n
      <4>1. k \in 1 .. n - 1 /\ k \in 0 .. n - 1
        BY <3>3
      <4> QED
        BY <2>1, <2>2, <3>1, <4>1
    <3> QED
      BY <3>2, <3>3
  <2>4. g[0] = <<>>
    BY <2>1, <2>2
  <2>5. Loop(g, xs, n)
    BY <2>2, <2>3, <2>4, LoopIs
  <2> QED
    BY <2>5
<1>3. \A n \in 1 .. N : n - 1 \in S => n \in S
  <2> SUFFICES ASSUME NEW n \in 1 .. N, n - 1 \in S PROVE n \in S
    OBVIOUS
  <2>1. n \in 0 .. N
    OBVIOUS
  <2> QED
    BY <2>1, <1>2
<1>4. 0 \in S /\ N \in 0 .. N
  BY <1>1
<1>5. N \in S
  <2> HIDE DEF S
  <2> QED
    BY <1>3, <1>4, IntervalInduction
<1> QED
  BY <1>5

LEMMA LoopUnique ==
    ASSUME NEW n \in Nat, NEW N \in Nat, n <= N, NEW xs, NEW f, Loop(f, xs, n), NEW g, Loop(g, xs, N)
    PROVE  f[n] = g[n]
<1> DEFINE S == {k \in 0 .. n : f[k] = g[k]}
<1>1. /\ f[0] = <<>> /\ g[0] = <<>>
      /\ \A k \in 1 .. n : f[k] = IF k \in DOMAIN xs THEN Append(f[k - 1], xs[k]) ELSE f[k - 1]
      /\ \A k \in 1 .. N : g[k] = IF k \in DOMAIN xs THEN Append(g[k - 1], xs[k]) ELSE g[k - 1]
  BY LoopValues
<1>2. 0 \in S
  BY <1>1
<1>3. ASSUME NEW k \in 1 .. n, k - 1 \in S PROVE k \in S
  <2>1. k \in 0 .. n /\ k \in 1 .. N /\ f[k - 1] = g[k - 1]
    BY <1>3
  <2>2. f[k] = IF k \in DOMAIN xs THEN Append(f[k - 1], xs[k]) ELSE f[k - 1]
    BY <1>1
  <2>3. g[k] = IF k \in DOMAIN xs THEN Append(g[k - 1], xs[k]) ELSE g[k - 1]
    BY <1>1, <2>1
  <2> QED
    BY <2>1, <2>2, <2>3
<1>4. n \in S
  <2> HIDE DEF S
  <2> QED
    BY <1>2, <1>3, IntervalInduction
<1> QED
  BY <1>4

LEMMA PushBacksAre ==
    ASSUME NEW n \in Nat, NEW xs
    PROVE  \E f : Loop(f, xs, n) /\ PushBacks(xs, n) = f[n]
<1> DEFINE f == CHOOSE f : Loop(f, xs, n)
<1>1. Loop(f, xs, n)
  BY LoopExists
<1>2. PushBacks(xs, n) = f[n]
  BY DEF PushBacks, Loop
<1> QED
  BY <1>1, <1>2

\* The loop one element at a time.
LEMMA PushBacksNext ==
    ASSUME NEW n \in Nat, NEW xs
    PROVE  /\ PushBacks(xs, 0) = <<>>
           /\ n + 1 \in DOMAIN xs => PushBacks(xs, n + 1) = Append(PushBacks(xs, n), xs[n + 1])
           /\ n + 1 \notin DOMAIN xs => PushBacks(xs, n + 1) = PushBacks(xs, n)
<1>1. PushBacks(xs, 0) = <<>>
  BY PushBacksAre, LoopValues
<1>2. PICK f : Loop(f, xs, n) /\ PushBacks(xs, n) = f[n]
  BY PushBacksAre
<1>3. n + 1 \in Nat /\ n + 1 \in 1 .. n + 1 /\ (n + 1) - 1 = n /\ n <= n + 1
  OBVIOUS
<1>4. PICK g : Loop(g, xs, n + 1) /\ PushBacks(xs, n + 1) = g[n + 1]
  BY <1>3, PushBacksAre
<1>5. g[n] = f[n]
  BY <1>2, <1>3, <1>4, LoopUnique
<1>6. g[n + 1] = IF n + 1 \in DOMAIN xs THEN Append(g[(n + 1) - 1], xs[n + 1]) ELSE g[(n + 1) - 1]
  BY <1>3, <1>4, LoopValues
<1>7. g[n + 1] = IF n + 1 \in DOMAIN xs THEN Append(g[n], xs[n + 1]) ELSE g[n]
  BY <1>6, <1>3
<1> QED
  BY <1>1, <1>2, <1>4, <1>5, <1>7

LEMMA PushBacksSeq ==
    ASSUME NEW N \in Nat, NEW S, NEW xs, \A k \in DOMAIN xs : xs[k] \in S
    PROVE  \A n \in 0 .. N : PushBacks(xs, n) \in Seq(S)
<1> DEFINE T == {n \in 0 .. N : PushBacks(xs, n) \in Seq(S)}
<1>1. 0 \in T
  <2>1. PushBacks(xs, 0) = <<>>
    BY PushBacksNext
  <2>2. <<>> \in Seq(S)
    BY EmptySeqs
  <2>3. 0 \in 0 .. N
    OBVIOUS
  <2> QED
    BY <2>1, <2>2, <2>3
<1>2. ASSUME NEW n \in 1 .. N, n - 1 \in T PROVE n \in T
  <2>1. n - 1 \in Nat /\ (n - 1) + 1 = n /\ n \in 0 .. N /\ PushBacks(xs, n - 1) \in Seq(S)
    BY <1>2
  <2>2. /\ n \in DOMAIN xs => PushBacks(xs, n) = Append(PushBacks(xs, n - 1), xs[n])
        /\ n \notin DOMAIN xs => PushBacks(xs, n) = PushBacks(xs, n - 1)
    <3> DEFINE m == n - 1
    <3>1. m \in Nat /\ m + 1 = n
      BY <2>1
    <3> HIDE DEF m
    <3>2. /\ m + 1 \in DOMAIN xs => PushBacks(xs, m + 1) = Append(PushBacks(xs, m), xs[m + 1])
          /\ m + 1 \notin DOMAIN xs => PushBacks(xs, m + 1) = PushBacks(xs, m)
      BY <3>1, PushBacksNext
    <3> QED
      BY <3>1, <3>2 DEF m
  <2>3. CASE n \in DOMAIN xs
    <3>1. xs[n] \in S
      BY <2>3
    <3>2. Append(PushBacks(xs, n - 1), xs[n]) \in Seq(S)
      BY <2>1, <3>1
    <3> QED
      BY <2>1, <2>2, <2>3, <3>2
  <2>4. CASE n \notin DOMAIN xs
    BY <2>1, <2>2, <2>4
  <2> QED
    BY <2>3, <2>4
<1>3. \A n \in 0 .. N : n \in T
  <2> HIDE DEF T
  <2> QED
    BY <1>1, <1>2, IntervalInduction
<1> QED
  BY <1>3

-----------------------------------------------------------------------------
(* The steps of serialize, and which steps add declarations.               *)

HashStep(s) == Step("hash", "", <<>>, <<s>>)

RootSteps(p, sc) ==
    LET r == p["root"]
        a == Len(r.params)
        e == Len(r.entryPoints)
        h == Len(r.hashed)
    IN  /\ a \in Nat /\ e \in Nat /\ h \in Nat /\ Len(sc) = a + 2 + e + h
        /\ \A k \in 1 .. a : sc[k] = Add(r.params[k])
        /\ sc[a + 1] = Ref("globalParams", r.global)
        /\ sc[a + 2] = Add(r.module)
        /\ \A k \in 1 .. e : sc[a + 2 + k] = Add(r.entryPoints[k])
        /\ \A k \in 1 .. h : sc[a + 2 + e + k] = HashStep(r.hashed[k])

LEMMA TypedRoot ==
    ASSUME NEW p \in Programs, NEW r, r = p["root"]
    PROVE  /\ r.kind = "root" /\ "root" \in DOMAIN p
           /\ r.params \in Seq(Pointers(p, {"varLayout"})) /\ r.global \in Pointers(p, {"varLayout"})
           /\ r.module \in Pointers(p, {"decl"}) /\ r.entryPoints \in Seq(Pointers(p, {"entryPoint"}))
           /\ r.hashed \in Seq(Text \cup {Nil})
           /\ Script(p, "root") = Serialize(r)
<1>1. r.kind = "root" /\ Typed(p, r) /\ "root" \in DOMAIN p
  BY ProgramFacts
<1>2. Script(p, "root") = Serialize(r)
  BY <1>1 DEF Script
<1> QED
  BY <1>1, <1>2 DEF Typed

LEMMA RootPositions ==
    ASSUME NEW p \in Programs
    PROVE  RootSteps(p, Script(p, "root"))
<1> DEFINE r  == p["root"]
           ps == [k \in DOMAIN r.params |-> Add(r.params[k])]
           ms == <<Ref("globalParams", r.global), Add(r.module)>>
           es == [k \in DOMAIN r.entryPoints |-> Add(r.entryPoints[k])]
           hs == [k \in DOMAIN r.hashed |-> HashStep(r.hashed[k])]
           a  == Len(r.params)
           e  == Len(r.entryPoints)
           h  == Len(r.hashed)
           T  == Text \cup {Nil}
<1>1. /\ r.params \in Seq(Pointers(p, {"varLayout"})) /\ r.entryPoints \in Seq(Pointers(p, {"entryPoint"}))
      /\ r.hashed \in Seq(T) /\ Script(p, "root") = Serialize(r)
  BY TypedRoot
<1>2. a \in Nat /\ e \in Nat /\ h \in Nat /\ DOMAIN r.params = 1 .. a
      /\ DOMAIN r.entryPoints = 1 .. e /\ DOMAIN r.hashed = 1 .. h
  <2> HIDE DEF T
  <2> QED
    BY <1>1
<1>3. Listing(ps) /\ Len(ps) = a /\ \A k \in 1 .. a : ps[k] = Add(r.params[k])
  <2>1. DOMAIN ps = 1 .. a /\ ps = [i \in DOMAIN ps |-> ps[i]] /\ \A k \in 1 .. a : ps[k] = Add(r.params[k])
    BY <1>2
  <2> HIDE DEF ps
  <2> QED
    BY <1>2, <2>1, Mapped
<1>4. Listing(es) /\ Len(es) = e /\ \A k \in 1 .. e : es[k] = Add(r.entryPoints[k])
  <2>1. DOMAIN es = 1 .. e /\ es = [i \in DOMAIN es |-> es[i]] /\ \A k \in 1 .. e : es[k] = Add(r.entryPoints[k])
    BY <1>2
  <2> HIDE DEF es
  <2> QED
    BY <1>2, <2>1, Mapped
<1>5. Listing(hs) /\ Len(hs) = h /\ \A k \in 1 .. h : hs[k] = HashStep(r.hashed[k])
  <2>1. DOMAIN hs = 1 .. h /\ hs = [i \in DOMAIN hs |-> hs[i]] /\ \A k \in 1 .. h : hs[k] = HashStep(r.hashed[k])
    BY <1>2
  <2> HIDE DEF hs
  <2> QED
    BY <1>2, <2>1, Mapped
<1>6. Listing(ms) /\ Len(ms) = 2 /\ ms[1] = Ref("globalParams", r.global) /\ ms[2] = Add(r.module)
  <2>1. Len(ms) = 2 /\ DOMAIN ms = 1 .. 2 /\ ms = [i \in DOMAIN ms |-> ms[i]]
        /\ ms[1] = Ref("globalParams", r.global) /\ ms[2] = Add(r.module)
    OBVIOUS
  <2> HIDE DEF ms
  <2> QED
    BY <2>1, Mapped
<1>7. Script(p, "root") = ((ps \o ms) \o es) \o hs
  BY <1>1 DEF Serialize, HashStep
<1> HIDE DEF ps, ms, es, hs
<1> DEFINE b == ps \o ms
<1>8. Joined(ps, ms, b) /\ Listing(b)
  <2>1. Joined(ps, ms, b)
    BY <1>3, <1>6, Concat
  <2> QED
    BY <2>1 DEF Joined
<1>20. Script(p, "root") = (b \o es) \o hs
  BY <1>7
<1> HIDE DEF b
<1> DEFINE c == b \o es
<1>9. Joined(b, es, c) /\ Listing(c)
  <2>1. Joined(b, es, c)
    BY <1>4, <1>8, Concat
  <2> QED
    BY <2>1 DEF Joined
<1>21. Script(p, "root") = c \o hs
  BY <1>20
<1> HIDE DEF c
<1> DEFINE d == c \o hs
<1>10. Joined(c, hs, d)
  BY <1>5, <1>9, Concat
<1>11. Script(p, "root") = d
  BY <1>21
<1> HIDE DEF b, c, d, a, e, h
<1>12. Len(b) = a + 2 /\ Len(c) = a + 2 + e /\ Len(d) = a + 2 + e + h
  BY <1>2, <1>3, <1>4, <1>5, <1>6, <1>8, <1>9, <1>10 DEF Joined
<1>13. /\ \A k \in 1 .. a : b[k] = ps[k]
       /\ b[a + 1] = ms[1] /\ b[a + 2] = ms[2]
  <2>1. \A i \in 1 .. 2 : b[a + i] = ms[i]
    BY <1>3, <1>6, <1>8 DEF Joined
  <2> QED
    BY <2>1, <1>2, <1>3, <1>8 DEF Joined
<1>14. /\ \A k \in 1 .. a + 2 : c[k] = b[k]
       /\ \A k \in 1 .. e : c[a + 2 + k] = es[k]
  BY <1>2, <1>4, <1>9, <1>12 DEF Joined
<1>15. /\ \A k \in 1 .. a + 2 + e : d[k] = c[k]
       /\ \A k \in 1 .. h : d[a + 2 + e + k] = hs[k]
  BY <1>2, <1>5, <1>10, <1>12 DEF Joined
<1>16. \A k \in 1 .. a : d[k] = Add(r.params[k])
  <2> SUFFICES ASSUME NEW k \in 1 .. a PROVE d[k] = Add(r.params[k])
    OBVIOUS
  <2>1. k \in 1 .. a + 2 /\ k \in 1 .. a + 2 + e
    BY <1>2
  <2> QED
    BY <2>1, <1>3, <1>13, <1>14, <1>15
<1>17. d[a + 1] = Ref("globalParams", r.global) /\ d[a + 2] = Add(r.module)
  <2>1. a + 1 \in 1 .. a + 2 /\ a + 2 \in 1 .. a + 2 /\ a + 1 \in 1 .. a + 2 + e /\ a + 2 \in 1 .. a + 2 + e
    BY <1>2
  <2> QED
    BY <2>1, <1>6, <1>13, <1>14, <1>15
<1>18. \A k \in 1 .. e : d[a + 2 + k] = Add(r.entryPoints[k])
  <2> SUFFICES ASSUME NEW k \in 1 .. e PROVE d[a + 2 + k] = Add(r.entryPoints[k])
    OBVIOUS
  <2>1. a + 2 + k \in 1 .. a + 2 + e
    BY <1>2
  <2> QED
    BY <2>1, <1>4, <1>14, <1>15
<1>19. \A k \in 1 .. h : d[a + 2 + e + k] = HashStep(r.hashed[k])
  BY <1>5, <1>15
<1> QED
  BY <1>2, <1>11, <1>12, <1>16, <1>17, <1>18, <1>19 DEF RootSteps, a, e, h

\* Step m of serialize.
RootStep(p, m, s) ==
    LET r == p["root"]
        b == EntryBase(p)
        h == HashBase(p)
    IN  \/ m <= b /\ s.op # "hash" /\ Len(s.to) = 1
           /\ (s.to[1] # Nil => p[s.to[1]].kind # "entryPoint")
           /\ (s.to[1] # Nil /\ IsDecl(p, s.to[1]) => s.to[1] = r.module)
        \/ m > b /\ m <= h /\ s.op = "add" /\ Len(s.to) = 1 /\ s.to[1] = r.entryPoints[m - b]
           /\ (s.to[1] # Nil => p[s.to[1]].kind = "entryPoint")
        \/ m > h /\ m <= h + Len(r.hashed) /\ s = HashStep(r.hashed[m - h])

LEMMA BaseFacts ==
    ASSUME NEW p \in Programs
    PROVE  LET r == p["root"]
           IN  /\ EntryBase(p) \in Nat /\ HashBase(p) \in Nat /\ EntryBase(p) >= 2
               /\ Len(r.entryPoints) \in Nat /\ DOMAIN r.entryPoints = 1 .. Len(r.entryPoints)
               /\ Len(r.hashed) \in Nat /\ DOMAIN r.hashed = 1 .. Len(r.hashed)
               /\ HashBase(p) = EntryBase(p) + Len(r.entryPoints)
               /\ Len(Script(p, "root")) = HashBase(p) + Len(r.hashed)
<1> DEFINE r == p["root"]
           T == Text \cup {Nil}
<1>1. r.params \in Seq(Pointers(p, {"varLayout"})) /\ r.entryPoints \in Seq(Pointers(p, {"entryPoint"}))
      /\ r.hashed \in Seq(T)
  BY TypedRoot
<1> HIDE DEF T
<1>2. /\ Len(r.params) \in Nat /\ Len(r.entryPoints) \in Nat /\ Len(r.hashed) \in Nat
      /\ DOMAIN r.entryPoints = 1 .. Len(r.entryPoints) /\ DOMAIN r.hashed = 1 .. Len(r.hashed)
  BY <1>1
<1>3. Len(Script(p, "root")) = Len(r.params) + 2 + Len(r.entryPoints) + Len(r.hashed)
  BY RootPositions DEF RootSteps
<1>4. EntryBase(p) = Len(r.params) + 2 /\ HashBase(p) = EntryBase(p) + Len(r.entryPoints)
  BY DEF EntryBase, HashBase
<1> HIDE DEF r
<1>5. /\ EntryBase(p) \in Nat /\ EntryBase(p) >= 2 /\ HashBase(p) \in Nat
      /\ Len(Script(p, "root")) = HashBase(p) + Len(r.hashed)
  <2> DEFINE a == Len(r.params)
             e == Len(r.entryPoints)
             h == Len(r.hashed)
             n == Len(Script(p, "root"))
  <2>1. a \in Nat /\ e \in Nat /\ h \in Nat /\ n = a + 2 + e + h
    BY <1>2, <1>3
  <2>2. EntryBase(p) = a + 2 /\ HashBase(p) = EntryBase(p) + e
    BY <1>4
  <2> HIDE DEF a, e, h, n
  <2>3. EntryBase(p) \in Nat /\ EntryBase(p) >= 2 /\ HashBase(p) \in Nat /\ n = HashBase(p) + h
    BY <2>1, <2>2
  <2> QED
    BY <2>3 DEF n, h
<1> QED
  BY <1>2, <1>4, <1>5 DEF r

LEMMA RootStepIs ==
    ASSUME NEW p \in Programs, NEW m \in 1 .. Len(Script(p, "root"))
    PROVE  RootStep(p, m, Script(p, "root")[m])
<1> DEFINE r == p["root"]
           sc == Script(p, "root")
           a == Len(r.params)
           e == Len(r.entryPoints)
           h == Len(r.hashed)
<1>1. /\ a \in Nat /\ e \in Nat /\ h \in Nat /\ Len(sc) = a + 2 + e + h
      /\ \A k \in 1 .. a : sc[k] = Add(r.params[k])
      /\ sc[a + 1] = Ref("globalParams", r.global)
      /\ sc[a + 2] = Add(r.module)
      /\ \A k \in 1 .. e : sc[a + 2 + k] = Add(r.entryPoints[k])
      /\ \A k \in 1 .. h : sc[a + 2 + e + k] = HashStep(r.hashed[k])
  BY RootPositions DEF RootSteps
<1>2. /\ r.params \in Seq(Pointers(p, {"varLayout"})) /\ r.global \in Pointers(p, {"varLayout"})
      /\ r.module \in Pointers(p, {"decl"}) /\ r.entryPoints \in Seq(Pointers(p, {"entryPoint"}))
  BY TypedRoot
<1>3. EntryBase(p) = a + 2 /\ HashBase(p) = a + 2 + e
  BY DEF EntryBase, HashBase
<1>4. /\ \A x : Add(x).op = "add" /\ Len(Add(x).to) = 1 /\ Add(x).to[1] = x
      /\ \A f, x : Ref(f, x).op = "ref" /\ Len(Ref(f, x).to) = 1 /\ Ref(f, x).to[1] = x
  BY DEF Add, Ref, Step
<1>13. \A k \in 1 .. a : r.params[k] \in Pointers(p, {"varLayout"})
  BY <1>2
<1>14. \A k \in 1 .. e : r.entryPoints[k] \in Pointers(p, {"entryPoint"})
  BY <1>2
<1> HIDE DEF a, e, h, r
<1>5. m \in Nat \ {0} /\ m <= a + 2 + e + h
  BY <1>1
<1> HIDE DEF sc
<1>6. \A t \in Pointers(p, {"varLayout"}) : t # Nil => p[t].kind # "entryPoint" /\ ~IsDecl(p, t)
  BY DEF Pointers, IsDecl
<1>7. CASE m <= a
  <2>1. m \in 1 .. a /\ m <= a + 2
    BY <1>1, <1>5, <1>7
  <2>2. sc[m] = Add(r.params[m]) /\ r.params[m] \in Pointers(p, {"varLayout"})
    BY <1>1, <1>13, <2>1
  <2> QED
    BY <1>3, <1>4, <1>6, <2>1, <2>2 DEF RootStep, r, sc
<1>8. CASE m = a + 1
  <2>1. sc[m] = Ref("globalParams", r.global) /\ m <= a + 2
    BY <1>1, <1>8
  <2>2. r.global # Nil => p[r.global].kind # "entryPoint" /\ ~IsDecl(p, r.global)
    BY <1>2, <1>6
  <2> QED
    BY <1>3, <1>4, <2>1, <2>2 DEF RootStep, r, sc
<1>9. CASE m = a + 2
  <2>1. r.module # Nil => p[r.module].kind # "entryPoint"
    BY <1>2 DEF Pointers
  <2>2. sc[m] = Add(r.module) /\ m <= a + 2
    BY <1>1, <1>9
  <2> QED
    BY <1>3, <1>4, <2>1, <2>2 DEF RootStep, r, sc
<1>10. CASE m > a + 2 /\ m <= a + 2 + e
  <2> DEFINE k == m - (a + 2)
  <2>1. k \in 1 .. e /\ m = a + 2 + k
    BY SMTT(60), <1>1, <1>5, <1>10
  <2> HIDE DEF k
  <2>2. sc[m] = Add(r.entryPoints[k]) /\ r.entryPoints[k] \in Pointers(p, {"entryPoint"})
    BY <1>1, <1>14, <2>1
  <2>3. r.entryPoints[k] # Nil => p[r.entryPoints[k]].kind = "entryPoint"
    BY <2>2 DEF Pointers
  <2>4. m - EntryBase(p) = k
    BY <1>1, <1>3, <2>1
  <2> QED
    BY <1>3, <1>4, <1>10, <2>2, <2>3, <2>4 DEF RootStep, r, sc
<1>11. CASE m > a + 2 + e
  <2> DEFINE k == m - (a + 2 + e)
  <2>1. k \in 1 .. h /\ m = a + 2 + e + k
    BY <1>1, <1>5, <1>11
  <2> HIDE DEF k
  <2>2. sc[m] = HashStep(r.hashed[k])
    BY <1>1, <2>1
  <2>3. m - HashBase(p) = k
    BY <1>1, <1>3, <2>1
  <2> QED
    BY <1>3, <1>5, <1>11, <2>2, <2>3 DEF RootStep, r, sc, h
<1> QED
  BY <1>1, <1>5, <1>7, <1>8, <1>9, <1>10, <1>11

\* Step s adds no declarations.
NoDecls(p, s) == \A j \in 1 .. Len(s.to) : s.to[j] # Nil => ~IsDecl(p, s.to[j])

LEMMA NoDeclSteps ==
    ASSUME NEW p \in Programs
    PROVE  /\ \A f, s : NoDecls(p, Name(f, s)) /\ NoDecls(p, Words(f, s))
           /\ \A s : NoDecls(p, Mods(s)) /\ NoDecls(p, Attrs(s)) /\ NoDecls(p, Mark(s)) /\ NoDecls(p, SetStep(s))
           /\ \A k \in {"type", "var", "varLayout", "typeLayout", "func", "generic"} :
                /\ \A f : \A t \in Pointers(p, {k}) : NoDecls(p, Ref(f, t))
                /\ \A f : \A ts \in Seq(Pointers(p, {k})) : NoDecls(p, List(f, ts))
                /\ \A t \in Pointers(p, {k}) : t # Nil => ~IsDecl(p, t)
<1>1. /\ \A f, s : Name(f, s).to = <<>> /\ Words(f, s).to = <<>>
      /\ \A s : Mods(s).to = <<>> /\ Attrs(s).to = <<>> /\ Mark(s).to = <<>> /\ SetStep(s).to = <<>>
      /\ \A f, t : Ref(f, t).to = <<t>> /\ List(f, t).to = t
  BY DEF Name, Words, Mods, Attrs, Mark, SetStep, Ref, List, Step
<1>2. \A s : s.to = <<>> => NoDecls(p, s)
  BY DEF NoDecls
<1>3. ASSUME NEW k \in {"type", "var", "varLayout", "typeLayout", "func", "generic"}
      PROVE  /\ \A f : \A t \in Pointers(p, {k}) : NoDecls(p, Ref(f, t))
             /\ \A f : \A ts \in Seq(Pointers(p, {k})) : NoDecls(p, List(f, ts))
             /\ \A t \in Pointers(p, {k}) : t # Nil => ~IsDecl(p, t)
  <2>1. \A t \in Pointers(p, {k}) : t # Nil => ~IsDecl(p, t)
    BY <1>3 DEF Pointers, IsDecl
  <2>2. \A f : \A t \in Pointers(p, {k}) : NoDecls(p, Ref(f, t))
    BY <1>1, <2>1 DEF NoDecls
  <2>3. ASSUME NEW f, NEW ts \in Seq(Pointers(p, {k})) PROVE NoDecls(p, List(f, ts))
    <3>1. \A j \in 1 .. Len(ts) : ts[j] \in Pointers(p, {k})
      BY <2>3
    <3> QED
      BY ZenonT(60), <1>1, <2>1, <3>1 DEF NoDecls
  <2> QED
    BY <2>1, <2>2, <2>3
<1> QED
  BY <1>1, <1>2, <1>3

\* Only declarations and the root add declarations.
LEMMA OthersAddNone ==
    ASSUME NEW p \in Programs, NEW o \in DOMAIN p, o # "root", ~IsDecl(p, o),
           NEW m \in 1 .. Len(Script(p, o))
    PROVE  NoDecls(p, Script(p, o)[m])
<1> DEFINE x == p[o]
           sc == Script(p, o)
           To(k) == Pointers(p, {k})
<1>1. x.kind \in Kinds /\ x.kind # "decl" /\ Typed(p, x)
  BY ProgramFacts DEF IsDecl
<1>2. /\ \A f, s : NoDecls(p, Name(f, s)) /\ NoDecls(p, Words(f, s))
      /\ \A s : NoDecls(p, Mods(s)) /\ NoDecls(p, Attrs(s)) /\ NoDecls(p, Mark(s)) /\ NoDecls(p, SetStep(s))
      /\ \A k \in {"type", "var", "varLayout", "typeLayout", "func", "generic"} :
           /\ \A f : \A t \in To(k) : NoDecls(p, Ref(f, t))
           /\ \A f : \A ts \in Seq(To(k)) : NoDecls(p, List(f, ts))
           /\ \A t \in To(k) : t # Nil => ~IsDecl(p, t)
  BY NoDeclSteps
<1> HIDE DEF To, sc
<1>3. CASE x.kind = "type"
  <2>1. /\ (IF x.struct THEN x.fields ELSE <<>>) \in Seq(To("var"))
        /\ x.element \in To("type") /\ x.result \in To("type")
    BY <1>1, <1>3, EmptySeqs DEF Typed, To
  <2>2. sc = AddType(x)
    BY <1>3 DEF Script, sc
  <2> DEFINE fs == IF x.struct THEN x.fields ELSE <<>>
  <2> HIDE DEF fs
  <2>3. sc = <<Name("name", x.name), List("fields", fs), Ref("element", x.element), Ref("result", x.result)>>
    BY <2>2 DEF AddType, fs
  <2>4. NoDecls(p, List("fields", fs)) /\ NoDecls(p, Ref("element", x.element)) /\ NoDecls(p, Ref("result", x.result))
    BY <1>2, <2>1 DEF fs
  <2>5. /\ Len(sc) = 4 /\ sc[1] = Name("name", x.name) /\ sc[2] = List("fields", fs)
        /\ sc[3] = Ref("element", x.element) /\ sc[4] = Ref("result", x.result)
    BY <2>3
  <2>6. m \in 1 .. 4
    BY <2>5 DEF sc
  <2> QED
    BY <1>2, <2>4, <2>5, <2>6 DEF sc
<1>4. CASE x.kind = "typeLayout"
  <2>1. /\ x.type \in To("type") /\ (IF x.shape = "struct" THEN x.fields ELSE <<>>) \in Seq(To("varLayout"))
        /\ x.container \in To("varLayout") /\ x.element \in To("typeLayout")
        /\ x.elementVar \in To("varLayout") /\ x.counter \in To("varLayout")
    BY <1>1, <1>4, EmptySeqs DEF Typed, To
  <2> DEFINE fs == IF x.shape = "struct" THEN x.fields ELSE <<>>
             R == [type : Nat, var : To("var"), leaf : To("typeLayout")]
             B == [range : Nat, offset : To("varLayout")]
             r == RangeCount(x)
             s == SetCount(x)
             b == SubCount(x)
  <2>2. /\ x.ranges \in Seq(R) /\ x.subs \in Seq(B) /\ r \in Nat /\ s \in Nat /\ b \in Nat
        /\ LayoutPositions(x, sc)
    BY <1>4, TypedLayout DEF IsLayout, To, sc
  <2>3. /\ Len(sc) = 8 + r + s + b
        /\ \A i \in 1 .. 7 : sc[i] = LayoutRefs(x)[i]
        /\ sc[8] = Mark(x)
        /\ \A k \in 1 .. r : sc[8 + k] = RangeStep(x.ranges[k])
        /\ \A k \in 1 .. s : sc[8 + r + k] = SetStep(x.sets[k])
        /\ \A k \in 1 .. b : sc[8 + r + s + k] = SubStep(x.subs[k])
    BY <2>2 DEF LayoutPositions
  <2>4. /\ \A k \in 1 .. r : x.ranges[k] \in R
        /\ \A k \in 1 .. b : x.subs[k] \in B
    <3> HIDE DEF R, B
    <3>1. r \in {0, Len(x.ranges)} /\ b \in {0, Len(x.subs)}
      BY DEF RangeCount, SubCount
    <3>2. /\ \A k \in 1 .. Len(x.ranges) : x.ranges[k] \in R
          /\ \A k \in 1 .. Len(x.subs) : x.subs[k] \in B
      BY SMTT(60), <2>2
    <3> HIDE DEF r, b
    <3> QED
      BY <3>1, <3>2
  <2> HIDE DEF fs
  <2>5. LayoutRefs(x) = <<Ref("type", x.type), Words("sizes", x.sizes), List("fields", fs),
                          Ref("container", x.container), Ref("elementLayout", x.element),
                          Ref("elementVar", x.elementVar), Ref("counter", x.counter)>>
    BY DEF LayoutRefs, fs
  <2>6. /\ NoDecls(p, Ref("type", x.type)) /\ NoDecls(p, Words("sizes", x.sizes)) /\ NoDecls(p, List("fields", fs))
        /\ NoDecls(p, Ref("container", x.container)) /\ NoDecls(p, Ref("elementLayout", x.element))
        /\ NoDecls(p, Ref("elementVar", x.elementVar)) /\ NoDecls(p, Ref("counter", x.counter))
    BY <1>2, <2>1 DEF fs
  <2>7. \A i \in 1 .. 7 : NoDecls(p, LayoutRefs(x)[i])
    BY <2>5, <2>6
  <2>8. /\ \A q \in R : NoDecls(p, RangeStep(q))
        /\ \A q \in B : NoDecls(p, SubStep(q))
    <3>1. \A q \in R : q.var \in To("var")
      OBVIOUS
    <3>2. \A q \in B : q.offset \in To("varLayout")
      OBVIOUS
    <3>3. \A q : RangeStep(q).to = <<q.var>> /\ SubStep(q).to = <<q.offset>>
      BY DEF RangeStep, SubStep, Step
    <3>4. \A z, t : z.to = <<t>> /\ (t # Nil => ~IsDecl(p, t)) => NoDecls(p, z)
      BY DEF NoDecls
    <3> HIDE DEF R, B
    <3> QED
      BY <1>2, <3>1, <3>2, <3>3, <3>4
  <2> HIDE DEF R, B, r, s, b
  <2>9. m \in Nat \ {0} /\ m <= 8 + r + s + b
    BY <2>2, <2>3 DEF sc
  <2>10. CASE m <= 7
    BY <2>3, <2>7, <2>9, <2>10 DEF sc
  <2>11. CASE m = 8
    BY <1>2, <2>3, <2>11 DEF sc
  <2>12. CASE m > 8 /\ m <= 8 + r
    <3>1. m - 8 \in 1 .. r /\ 8 + (m - 8) = m
      BY <2>2, <2>9, <2>12
    <3> QED
      BY <2>3, <2>4, <2>8, <3>1 DEF sc
  <2>13. CASE m > 8 + r /\ m <= 8 + r + s
    <3>1. m - (8 + r) \in 1 .. s /\ 8 + r + (m - (8 + r)) = m
      BY <2>2, <2>9, <2>13
    <3> QED
      BY <1>2, <2>3, <3>1 DEF sc
  <2>14. CASE m > 8 + r + s
    <3>1. m - (8 + r + s) \in 1 .. b /\ 8 + r + s + (m - (8 + r + s)) = m
      BY <2>2, <2>9, <2>14
    <3> QED
      BY <2>3, <2>4, <2>8, <3>1 DEF sc
  <2> QED
    BY <2>2, <2>9, <2>10, <2>11, <2>12, <2>13, <2>14
<1>5. CASE x.kind = "var"
  <2>1. x.type \in To("type") /\ x.generic \in To("generic")
    BY <1>1, <1>5 DEF Typed, To
  <2>2. sc = <<Name("name", x.name), Ref("type", x.type), Mods(x.mods), Attrs(x.attrs), Ref("generic", x.generic)>>
    BY <1>5 DEF Script, AddVariable, sc
  <2>3. NoDecls(p, Ref("type", x.type)) /\ NoDecls(p, Ref("generic", x.generic))
    BY <1>2, <2>1
  <2>4. /\ Len(sc) = 5 /\ sc[1] = Name("name", x.name) /\ sc[2] = Ref("type", x.type) /\ sc[3] = Mods(x.mods)
        /\ sc[4] = Attrs(x.attrs) /\ sc[5] = Ref("generic", x.generic)
    BY <2>2
  <2>5. m \in 1 .. 5
    BY <2>4 DEF sc
  <2> QED
    BY <1>2, <2>3, <2>4, <2>5 DEF sc
<1>6. CASE x.kind = "varLayout"
  <2>1. x.var \in To("var") /\ x.typeLayout \in To("typeLayout")
    BY <1>1, <1>6 DEF Typed, To
  <2> DEFINE v == Annotated(p, x.var)
  <2>2. sc = AddVarLayout(x, v)
    BY <1>6 DEF Script, sc
  <2> HIDE DEF v
  <2>3. NoDecls(p, Ref("var", x.var)) /\ NoDecls(p, Ref("typeLayout", x.typeLayout))
    BY <1>2, <2>1
  <2>4. /\ Len(sc) = 6 /\ sc[1] = Ref("var", x.var) /\ sc[2] = Ref("typeLayout", x.typeLayout)
        /\ sc[3] = Words("offsets", x.offsets) /\ sc[4] = Words("spaces", x.spaces)
        /\ sc[5] = Mods(v.mods) /\ sc[6] = Attrs(v.attrs)
    BY <2>2 DEF AddVarLayout
  <2>5. m \in 1 .. 6
    BY <2>4 DEF sc
  <2> QED
    BY <1>2, <2>3, <2>4, <2>5 DEF sc
<1>7. CASE x.kind = "func"
  <2>1. x.result \in To("type") /\ x.params \in Seq(To("var")) /\ x.generic \in To("generic")
    BY <1>1, <1>7 DEF Typed, To
  <2>2. sc = AddFunction(x)
    BY <1>7 DEF Script, sc
  <2>3. /\ NoDecls(p, Ref("result", x.result)) /\ NoDecls(p, List("params", x.params))
        /\ NoDecls(p, Ref("generic", x.generic))
    BY <1>2, <2>1
  <2>4. /\ Len(sc) = 6 /\ sc[1] = Name("name", x.name) /\ sc[2] = Ref("result", x.result)
        /\ sc[3] = List("params", x.params) /\ sc[4] = Mods(x.mods) /\ sc[5] = Attrs(x.attrs)
        /\ sc[6] = Ref("generic", x.generic)
    BY <2>2 DEF AddFunction
  <2>5. m \in 1 .. 6
    BY <2>4 DEF sc
  <2> QED
    BY <1>2, <2>3, <2>4, <2>5 DEF sc
<1>8. CASE x.kind = "generic"
  <2>1. StepOK(p, x, Script(p, o)[m])
    BY Scripts DEF StepsOK
  <2>2. x.kind \in Plain /\ "decl" \notin Plain
    BY <1>8 DEF Plain
  <2> QED
    BY <2>1, <2>2 DEF StepOK, NoDecls, IsDecl
<1>9. CASE x.kind = "entryPoint"
  <2>1. /\ x.varLayout \in To("varLayout") /\ x.typeLayout \in To("typeLayout")
        /\ x.resultLayout \in To("varLayout") /\ x.function \in To("func") /\ x.params \in Seq(To("varLayout"))
    BY <1>1, <1>9 DEF Typed, To
  <2> DEFINE v == Annotated(p, x.function)
  <2>2. sc = AddEntryPoint(x, v)
    BY <1>9 DEF Script, sc
  <2> HIDE DEF v
  <2>3. /\ NoDecls(p, Ref("varLayout", x.varLayout)) /\ NoDecls(p, Ref("typeLayout", x.typeLayout))
        /\ NoDecls(p, Ref("resultLayout", x.resultLayout)) /\ NoDecls(p, Ref("function", x.function))
        /\ NoDecls(p, List("params", x.params))
    BY <1>2, <2>1
  <2>4. /\ Len(sc) = 7 /\ sc[1] = Name("name", x.name) /\ sc[2] = Ref("varLayout", x.varLayout)
        /\ sc[3] = Ref("typeLayout", x.typeLayout) /\ sc[4] = Ref("resultLayout", x.resultLayout)
        /\ sc[5] = Ref("function", x.function) /\ sc[6] = List("params", x.params)
        /\ sc[7] = Attrs(v.attrs)
    BY <2>2 DEF AddEntryPoint
  <2>5. m \in 1 .. 7
    BY <2>4 DEF sc
  <2> QED
    BY <1>2, <2>3, <2>4, <2>5 DEF sc
<1> QED
  BY <1>1, <1>3, <1>4, <1>5, <1>6, <1>7, <1>8, <1>9 DEF Kinds

LEMMA DeclSteps ==
    ASSUME NEW p \in Programs, NEW o \in DOMAIN p, IsDecl(p, o)
    PROVE  LET x == p[o]
               sc == Script(p, o)
           IN  /\ Len(sc) = 3 /\ sc[1] = Name("name", x.name) /\ sc[2] = Ref("payload", x.payload)
               /\ sc[3] = List("children", x.children)
               /\ \A m \in 1 .. 3 : "parent" \notin Assigns(sc[m])
<1> DEFINE x == p[o]
           sc == Script(p, o)
<1>1. sc = <<Name("name", x.name), Ref("payload", x.payload), List("children", x.children)>>
  BY DEF Script, AddDecl, IsDecl
<1>2. /\ Len(sc) = 3 /\ sc[1] = Name("name", x.name) /\ sc[2] = Ref("payload", x.payload)
      /\ sc[3] = List("children", x.children)
  BY <1>1
<1> HIDE DEF sc
<1>3. \A m \in 1 .. 3 : "parent" \notin Assigns(sc[m])
  BY <1>2 DEF Assigns, Name, Ref, List, Step
<1> QED
  BY <1>2, <1>3 DEF sc

\* A declaration is added by the one above it.
LEMMA DeclAdded ==
    ASSUME NEW p \in Programs, NEW o \in DOMAIN p, o # "root", NEW m \in 1 .. Len(Script(p, o)),
           NEW j \in 1 .. Len(Script(p, o)[m].to), NEW t, t = Script(p, o)[m].to[j], t # Nil, IsDecl(p, t)
    PROVE  Parent(p, o, t)
<1> DEFINE sc == Script(p, o)
<1>1. IsDecl(p, o)
  BY OthersAddNone DEF NoDecls
<1>2. /\ Len(sc) = 3 /\ sc[1] = Name("name", p[o].name) /\ sc[2] = Ref("payload", p[o].payload)
      /\ sc[3] = List("children", p[o].children)
  BY <1>1, DeclSteps
<1>3. p[o].payload \in Pointers(p, {"type", "func", "var", "generic"})
      /\ p[o].children \in Seq(Pointers(p, {"decl"}))
  BY <1>1, ProgramFacts DEF Typed, IsDecl
<1> HIDE DEF sc
<1>4. m \in 1 .. 3 /\ j \in 1 .. Len(sc[m].to) /\ t = sc[m].to[j]
  BY <1>2 DEF sc
<1>5. sc[1].to = <<>> /\ sc[2].to = <<p[o].payload>> /\ sc[3].to = p[o].children
  BY <1>2 DEF Name, Ref, List, Step
<1>6. m # 1
  BY <1>4, <1>5
<1>7. m # 2
  <2>1. p[o].payload # Nil => ~IsDecl(p, p[o].payload)
    BY <1>3 DEF Pointers, IsDecl
  <2> QED
    BY <1>4, <1>5, <2>1
<1>8. m = 3
  BY <1>4, <1>6, <1>7
<1>9. j \in DOMAIN p[o].children /\ p[o].children[j] = t
  BY <1>3, <1>4, <1>5, <1>8
<1> QED
  BY <1>1, <1>9 DEF Parent

-----------------------------------------------------------------------------
(* What the operations do to names, attributes and tables.                 *)

Interned(ss, ss2) == \E t \in Text \cup {Nil} : ss2 = Strings(ss, t)

LEMMA WaitingAttrs ==
    ASSUME NEW p \in Programs, NEW f \in Frames(p), Waits(p, f)
    PROVE  StepOf(p, f).op # "attrs" /\ \A pl : GotAttrs(p, f, pl)
<1>1. StepOK(p, p[f.obj], StepOf(p, f)) /\ Len(f.got) + 1 \in 1 .. Len(StepOf(p, f).to)
  BY AwaitedFacts
<1>2. Len(f.got) \in Nat
  BY DEF Frames
<1>3. StepOf(p, f).op # "attrs"
  BY <1>1, <1>2, EmptySeqs DEF StepOK
<1> QED
  BY <1>3 DEF GotAttrs

\* Frame f has done its step, with this row.
StepMore(p, f, row, pl, pl2) ==
    LET s == StepOf(p, f)
    IN  /\ pl2["attr"] = pl["attr"] /\ pl2["attrArg"] = pl["attrArg"]
        /\ Interned(pl["string"], pl2["string"])
        /\ s.op # "hash" => pl2["hashedStr"] = pl["hashedStr"]
        /\ s.op = "hash" =>
             /\ Len(pl2["hashedStr"]) = Len(pl["hashedStr"]) + 1
             /\ HashIs(pl2, Len(pl["hashedStr"]) + 1, s.data[1])
        /\ s.op = "attrs" =>
             Len(f.got) = Len(s.data) /\ (f.got # <<>> => row[s.field].off = f.got[1])

TakenMore(p, st, st2, pl, pl2) == StepMore(p, st[Len(st)], st2[Len(st)].row, pl, pl2)

\* The running addX has got an index, or serialized an attribute.
PassedMore(p, st, st2, ix, pl, pl2) ==
    LET f == st[Len(st)]
        n == Len(pl["attr"])
    IN  /\ Waits(p, f) => Awaited(p, f) = Nil \/ Awaited(p, f) \in DOMAIN ix
        /\ Interned(pl["string"], pl2["string"]) /\ pl2["hashedStr"] = pl["hashedStr"]
        /\ ~Waits(p, f) =>
             /\ st2[Len(st)].got = Append(f.got, n)
             /\ Len(pl2["attr"]) = n + 1 /\ AttrIs(pl2, n + 1, StepOf(p, f).data[Len(f.got) + 1])

EnteredMore(p, st, st2, ix, tb, tb2) ==
    LET f == st[Len(st)]
        t == Awaited(p, f)
        k == p[t].kind
        row == st2[Len(st) + 1].row
    IN  /\ k = "entryPoint" => tb2 = tb
        /\ k # "entryPoint" => tb2 = [tb EXCEPT ![k] = Append(tb[k], Blank)]
        /\ k = "decl" =>
             /\ "parent" \in DOMAIN row
             /\ row["parent"] = IF f.obj \in DOMAIN ix THEN ix[f.obj] ELSE Invalid

LeftMore(p, st, ix, tb, tb2) ==
    LET f == st[Len(st)]
        k == p[f.obj].kind
    IN  /\ k = "entryPoint" => tb2 = [tb EXCEPT !["entryPoint"] = Append(tb["entryPoint"], f.row)]
        /\ k # "entryPoint" =>
             tb2 = [tb EXCEPT ![k] = [tb[k] EXCEPT ![ix[f.obj] + 1] = f.row]]

LEMMA NotInterned == \A ss : Interned(ss, ss)
<1>1. \A ss : Strings(ss, Nil) = ss
  BY DEF Strings
<1> QED
  BY <1>1 DEF Interned

LEMMA AdvancedRow ==
    ASSUME Shape, stack # <<>>, NEW row, Advance(row)
    PROVE  stack'[Len(stack)].row = row
<1>1. Len(stack) \in DOMAIN stack
  BY StackFacts DEF Shape
<1>2. stack' = [stack EXCEPT ![Len(stack)] =
                  [obj |-> Top.obj, step |-> Top.step + 1, got |-> <<>>, row |-> row]]
  BY DEF Advance
<1> QED
  BY <1>1, <1>2

\* A step that leaves names and attributes alone.
LEMMA CalmMore ==
    ASSUME Shape, Progress, NEW op, op \notin {"hash", "attrs"}, AtStep(op),
           pool'["attr"] = pool["attr"], pool'["attrArg"] = pool["attrArg"],
           pool'["hashedStr"] = pool["hashedStr"],
           Interned(pool["string"], pool'["string"])
    PROVE  TakenMore(prog, stack, stack', pool, pool')
<1>1. Top = stack[Len(stack)] /\ Ready(prog, Top, index, pool, op)
  BY AtStepFacts
<1>2. StepOf(prog, Top).op = op
  BY <1>1 DEF Ready
<1> QED
  BY <1>1, <1>2 DEF TakenMore, StepMore

LEMMA SetAttributesMore ==
    ASSUME Shape, Progress, SetAttributes
    PROVE  TakenMore(prog, stack, stack', pool, pool')
<1> DEFINE c == [off |-> IF Top.got = <<>> THEN 0 ELSE Top.got[1], count |-> Len(Top.got)]
           row == With(Top.row, Now.field, c)
<1>1. stack # <<>> /\ Top = stack[Len(stack)] /\ Ready(prog, Top, index, pool, "attrs") /\ Now = StepOf(prog, Top)
  BY AtStepFacts DEF SetAttributes
<1>2. Advance(row) /\ pool' = pool /\ Len(Top.got) = Len(Now.data)
  BY DEF SetAttributes
<1>3. row[Now.field] = c
  BY WithFacts DEF Assigned
<1>4. Top.got # <<>> => c.off = Top.got[1]
  OBVIOUS
<1> HIDE DEF row, c
<1>5. stack'[Len(stack)].row = row
  BY <1>1, <1>2, AdvancedRow
<1>6. StepOf(prog, Top).op = "attrs"
  BY <1>1 DEF Ready
<1> QED
  BY <1>1, <1>2, <1>3, <1>4, <1>5, <1>6, NotInterned DEF TakenMore, StepMore

LEMMA AddHashedStrMore ==
    ASSUME Shape, Progress, AddHashedStr
    PROVE  TakenMore(prog, stack, stack', pool, pool')
<1> DEFINE s == StepOf(prog, Top)
           ss == pool["string"]
           t == Strings(ss, s.data[1])
           h == pool["hashedStr"]
           j == Position(t, s.data[1])
<1>1. stack # <<>> /\ Top = stack[Len(stack)] /\ Ready(prog, Top, index, pool, "hash") /\ Now = s
  BY AtStepFacts DEF AddHashedStr
<1>2. pool' = [[pool EXCEPT !["string"] = t] EXCEPT !["hashedStr"] = Append(h, j)]
  BY <1>1 DEF AddHashedStr
<1>3. /\ s.op = "hash" /\ s.data[1] \in Text \cup {Nil} /\ ss \in Seq(Text) /\ h \in Seq(Nat)
      /\ DOMAIN pool = Pools
  BY <1>1, ItemFacts DEF Ready, StepOK, PoolsOK
<1>4. /\ j \in Nat /\ (s.data[1] = Nil => j = Invalid)
      /\ s.data[1] # Nil => j < Len(t) /\ t[j + 1] = s.data[1]
  BY ZenonT(60), <1>3, StringFacts
<1>5. AppendedTo(Nat, h, j, Append(h, j))
  BY <1>3, <1>4, ExtendedByOne
<1>6. /\ pool'["string"] = t /\ pool'["hashedStr"] = Append(h, j)
      /\ pool'["attr"] = pool["attr"] /\ pool'["attrArg"] = pool["attrArg"]
  BY <1>2, <1>3, ItemFacts
<1>7. Interned(ss, t)
  BY <1>3 DEF Interned
<1> HIDE DEF t, j
<1>8. Len(pool'["hashedStr"]) = Len(h) + 1 /\ pool'["hashedStr"][Len(h) + 1] = j
  BY <1>5, <1>6 DEF AppendedTo
<1>9. HashIs(pool', Len(h) + 1, s.data[1])
  BY <1>4, <1>6, <1>8 DEF HashIs
<1> QED
  BY <1>1, <1>3, <1>6, <1>7, <1>8, <1>9 DEF TakenMore, StepMore

LEMMA TakenMoreOp ==
    ASSUME Shape, Progress,
           SetRef \/ Ignore \/ PushU32List \/ InternStr \/ AddModifiers \/ MarkSlices
             \/ AddBindingRange \/ AddDescriptorSet \/ AddSubObjectRange
    PROVE  TakenMore(prog, stack, stack', pool, pool')
<1>1. DOMAIN pool = Pools
  BY DEF Shape, PoolsOK
<1>2. CASE SetRef
  BY <1>2, CalmMore, NotInterned DEF SetRef
<1>3. CASE Ignore
  BY <1>3, CalmMore, NotInterned DEF Ignore
<1>4. CASE PushU32List
  <2>1. AtStep("list") /\ pool' = [pool EXCEPT !["u32"] = pool["u32"] \o (Top.got \o Now.data)]
    BY <1>4 DEF PushU32List
  <2> QED
    BY <2>1, <1>1, CalmMore, NotInterned, ItemFacts
<1>5. CASE InternStr
  <2>1. AtStep("name") /\ pool' = [pool EXCEPT !["string"] = Strings(pool["string"], Now.data[1])]
    BY <1>5 DEF InternStr
  <2>2. Now.data[1] \in Text \cup {Nil}
    BY <2>1, AtStepFacts DEF Ready, StepOK
  <2>3. pool'["string"] = Strings(pool["string"], Now.data[1])
    BY <2>1, <1>1, ItemFacts
  <2>4. Interned(pool["string"], pool'["string"])
    BY <2>2, <2>3 DEF Interned
  <2> QED
    BY <2>1, <2>4, <1>1, CalmMore, ItemFacts
<1>6. CASE AddModifiers
  <2>1. AtStep("mods") /\ pool' = [pool EXCEPT !["modifier"] = pool["modifier"] \o Now.data]
    BY <1>6 DEF AddModifiers
  <2> QED
    BY <2>1, <1>1, CalmMore, NotInterned, ItemFacts
<1>7. CASE MarkSlices
  BY <1>7, CalmMore, NotInterned DEF MarkSlices
<1>8. CASE AddBindingRange
  <2>1. AtStep("range") /\ \E t : pool' = [pool EXCEPT !["bindingRange"] = t]
    BY <1>8 DEF AddBindingRange
  <2> QED
    BY <2>1, <1>1, CalmMore, NotInterned, ItemFacts
<1>9. CASE AddDescriptorSet
  <2>1. AtStep("set") /\ \E t, u : pool' = [[pool EXCEPT !["descriptorSet"] = t] EXCEPT !["descriptorRange"] = u]
    BY <1>9 DEF AddDescriptorSet
  <2> QED
    BY <2>1, <1>1, CalmMore, NotInterned, ItemFacts
<1>10. CASE AddSubObjectRange
  <2>1. AtStep("sub") /\ \E t : pool' = [pool EXCEPT !["subObjectRange"] = t]
    BY <1>10 DEF AddSubObjectRange
  <2> QED
    BY <2>1, <1>1, CalmMore, NotInterned, ItemFacts
<1> QED
  BY <1>2, <1>3, <1>4, <1>5, <1>6, <1>7, <1>8, <1>9, <1>10

LEMMA AddKnownMore ==
    ASSUME Shape, Progress, AddKnown
    PROVE  PassedMore(prog, stack, stack', index, pool, pool')
<1>1. Waits(prog, Top) /\ Top = stack[Len(stack)] /\ Target = Awaited(prog, Top)
  BY AddingFacts DEF AddKnown
<1>2. pool' = pool /\ (Target = Nil \/ Target \in DOMAIN index)
  BY DEF AddKnown
<1> QED
  BY <1>1, <1>2, NotInterned DEF PassedMore

\* serializeAttributes, for one attribute.
LEMMA AttributePooled ==
    ASSUME NEW pl, PoolsOK(pl), NEW a \in Attributes, NEW pl2, pl2 = PoolWithAttr(pl, a)
    PROVE  /\ Interned(pl["string"], pl2["string"]) /\ pl2["hashedStr"] = pl["hashedStr"]
           /\ Len(pl2["attr"]) = Len(pl["attr"]) + 1 /\ AttrIs(pl2, Len(pl["attr"]) + 1, a)
<1>1. /\ pl["attr"] \in Seq(Items("attr")) /\ pl["string"] \in Seq(Text) /\ pl["attrArg"] \in Seq(Nat)
      /\ DOMAIN pl = Pools
  BY ItemFacts DEF PoolsOK
<1>2. CASE a = Nil
  <2> DEFINE b == [name |-> Invalid, off |-> 0, count |-> 0]
             t == Append(pl["attr"], b)
  <2>1. pl2 = [pl EXCEPT !["attr"] = t]
    BY <1>2 DEF PoolWithAttr
  <2>2. b \in Items("attr")
    BY ItemFacts, ReflectionAssumption
  <2>3. AppendedTo(Items("attr"), pl["attr"], b, t)
    BY <1>1, <2>2, ExtendedByOne
  <2>4. pl2["attr"] = t /\ pl2["string"] = pl["string"] /\ pl2["hashedStr"] = pl["hashedStr"]
    BY <1>1, <2>1, ItemFacts
  <2> HIDE DEF t
  <2>5. Len(pl2["attr"]) = Len(pl["attr"]) + 1 /\ pl2["attr"][Len(pl["attr"]) + 1] = b /\ Len(pl["attr"]) \in Nat
    BY <2>3, <2>4 DEF AppendedTo
  <2>6. AttrIs(pl2, Len(pl["attr"]) + 1, a)
    BY <2>5, <1>2 DEF AttrIs
  <2> QED
    BY <2>4, <2>5, <2>6, NotInterned
<1>3. CASE a # Nil
  <2> DEFINE u == Strings(pl["string"], a.name)
             v == Position(u, a.name)
             w == pl["attrArg"] \o a.args
             b == [name |-> v, off |-> Len(pl["attrArg"]), count |-> Len(a.args)]
             t == Append(pl["attr"], b)
  <2>1. a.name \in Text /\ a.args \in Seq(Nat) /\ a.name # Nil
    BY <1>3, ReflectionAssumption DEF Attributes
  <2>2. pl2 = [[[pl EXCEPT !["string"] = u] EXCEPT !["attrArg"] = w] EXCEPT !["attr"] = t]
    BY <1>3 DEF PoolWithAttr
  <2>3. u \in Seq(Text) /\ v \in Nat /\ v < Len(u) /\ u[v + 1] = a.name
    BY <1>1, <2>1, StringFacts
  <2>4. w \in Seq(Nat) /\ Extended(pl["attrArg"], w, a.args) /\ Len(pl["attrArg"]) \in Nat /\ Len(a.args) \in Nat
    BY ZenonT(60), <1>1, <2>1, ExtendedBy
  <2>5. b \in Items("attr")
    BY <2>3, <2>4, ItemFacts
  <2>6. AppendedTo(Items("attr"), pl["attr"], b, t)
    BY <1>1, <2>5, ExtendedByOne
  <2>7. Interned(pl["string"], u)
    BY <2>1 DEF Interned
  <2> HIDE DEF u, v, w, t
  <2>8. pl2["attr"] = t /\ pl2["string"] = u /\ pl2["attrArg"] = w /\ pl2["hashedStr"] = pl["hashedStr"]
    BY <1>1, <2>2, ItemFacts
  <2>9. Len(pl2["attr"]) = Len(pl["attr"]) + 1 /\ pl2["attr"][Len(pl["attr"]) + 1] = b /\ Len(pl["attr"]) \in Nat
    BY <2>6, <2>8 DEF AppendedTo
  <2>10. /\ Len(w) = Len(pl["attrArg"]) + Len(a.args)
         /\ \A i \in 1 .. Len(a.args) : w[Len(pl["attrArg"]) + i] = a.args[i]
    BY <2>4 DEF Extended
  <2>11. b.name = v /\ b.off = Len(pl["attrArg"]) /\ b.count = Len(a.args)
    OBVIOUS
  <2> HIDE DEF b
  <2>12. AttrIs(pl2, Len(pl["attr"]) + 1, a)
    <3>1. Len(pl["attr"]) + 1 <= Len(pl2["attr"])
      BY <2>9
    <3>2. b.name < Len(pl2["string"]) /\ pl2["string"][b.name + 1] = a.name
      BY <2>3, <2>8, <2>11
    <3>3. /\ b.count = Len(a.args) /\ b.off + b.count <= Len(pl2["attrArg"])
          /\ \A i \in 1 .. Len(a.args) : pl2["attrArg"][b.off + i] = a.args[i]
      <4> DEFINE x == Len(pl["attrArg"])
                 y == Len(a.args)
      <4>3. x \in Nat /\ y \in Nat /\ b.off = x /\ b.count = y /\ Len(w) = x + y
        BY <2>4, <2>10, <2>11
      <4> HIDE DEF x, y
      <4>1. b.off + b.count <= Len(w)
        BY <4>3
      <4>2. \A i \in 1 .. Len(a.args) : w[b.off + i] = a.args[i]
        BY <2>10, <2>11
      <4> QED
        BY <4>1, <4>2, <2>8, <2>11
    <3> QED
      BY <1>3, <2>9, <3>1, <3>2, <3>3 DEF AttrIs
  <2> QED
    BY <2>7, <2>8, <2>9, <2>12
<1> QED
  BY <1>2, <1>3

LEMMA AddAttributeMore ==
    ASSUME Shape, Progress, AddAttribute
    PROVE  PassedMore(prog, stack, stack', index, pool, pool')
<1> DEFINE a == StepOf(prog, Top).data[Len(Top.got) + 1]
           n == Len(pool["attr"])
<1>1. /\ stack # <<>> /\ Now = StepOf(prog, Top) /\ Top = stack[Len(stack)]
      /\ Ready(prog, Top, index, pool, "attrs")
  BY AtStepFacts DEF AddAttribute
<1>2. stack' = Give(stack, n) /\ pool' = PoolWithAttr(pool, a) /\ Len(Top.got) < Len(StepOf(prog, Top).data)
  BY <1>1 DEF AddAttribute
<1>3. /\ StepOf(prog, Top).data \in Seq(Attributes) /\ Top.got \in Seq(Nat) /\ PoolsOK(pool)
  BY ZenonT(60), <1>1, ReadyFacts DEF Ready, StepOK
<1>4. a \in Attributes
  BY <1>2, <1>3
<1>5. Len(stack) \in DOMAIN stack
  BY <1>1, StackFacts DEF Shape
<1> HIDE DEF a, n
<1>6. stack'[Len(stack)].got = Append(Top.got, n)
  <2>1. stack[Len(stack)] \in Frames(prog)
    BY <1>1 DEF Ready
  <2>2. stack' = [stack EXCEPT ![Len(stack)] = [stack[Len(stack)] EXCEPT !.got = Append(stack[Len(stack)].got, n)]]
    BY <1>2 DEF Give
  <2> QED
    BY <1>1, <1>5, <2>1, <2>2 DEF Frames
<1>7. /\ Interned(pool["string"], pool'["string"]) /\ pool'["hashedStr"] = pool["hashedStr"]
      /\ Len(pool'["attr"]) = n + 1 /\ AttrIs(pool', n + 1, a)
  BY <1>2, <1>3, <1>4, AttributePooled DEF n
<1>8. ~Waits(prog, Top)
  BY <1>1, WaitingAttrs DEF Ready
<1> QED
  BY <1>1, <1>6, <1>7, <1>8 DEF PassedMore, a, n

LEMMA AddNewMore ==
    ASSUME Shape, Progress, AddNew
    PROVE  EnteredMore(prog, stack, stack', index, table, table')
<1> DEFINE t == Target
           k == prog[t].kind
<1>1. stack # <<>> /\ Top = stack[Len(stack)] /\ t = Awaited(prog, Top) /\ StackOK(prog, stack)
  BY AddingFacts DEF AddNew
<1>2. stack' = Append(stack, Frame(t, NewRow(t)))
  BY DEF AddNew
<1>3. /\ k = "entryPoint" => table' = table
      /\ k # "entryPoint" => table' = [table EXCEPT ![k] = Append(table[k], Blank)]
  BY DEF AddNew
<1> HIDE DEF t
<1>4. stack'[Len(stack) + 1].row = NewRow(t)
  <2>1. stack \in Seq(Frames(prog)) /\ Len(stack) \in Nat
    BY <1>1 DEF StackOK
  <2>2. stack'[Len(stack) + 1] = Frame(t, NewRow(t))
    BY <1>2, <2>1
  <2> QED
    BY <2>2 DEF Frame
<1>5. k = "decl" =>
        /\ "parent" \in DOMAIN NewRow(t)
        /\ NewRow(t)["parent"] = IF Top.obj \in DOMAIN index THEN index[Top.obj] ELSE Invalid
  <2> DEFINE v == IF Top.obj \in DOMAIN index THEN index[Top.obj] ELSE Invalid
  <2>1. k = "decl" => NewRow(t) = With(Blank, "parent", v)
    BY DEF NewRow
  <2> HIDE DEF v
  <2>2. Assigned(Blank, With(Blank, "parent", v), "parent", v)
    BY WithFacts
  <2>3. k = "decl" => "parent" \in DOMAIN NewRow(t) /\ NewRow(t)["parent"] = v
    BY SMTT(60), <2>1, <2>2 DEF Assigned
  <2> QED
    BY <2>3 DEF v
<1> QED
  BY <1>1, <1>3, <1>4, <1>5 DEF EnteredMore

LEMMA ReturnMore ==
    ASSUME Shape, Progress, Return
    PROVE  LeftMore(prog, stack, index, table, table')
<1>1. Top = stack[Len(stack)]
  BY SMTT(60) DEF Top
<1> DEFINE f == stack[Len(stack)]
           k == prog[f.obj].kind
           i == IF k = "entryPoint" THEN Len(table[k]) ELSE index[f.obj]
<1>2. table' = [table EXCEPT ![k] = IF k = "entryPoint" THEN Append(table[k], f.row)
                                     ELSE [table[k] EXCEPT ![i + 1] = f.row]]
  BY <1>1 DEF Return
<1>3. k = "entryPoint" => table' = [table EXCEPT !["entryPoint"] = Append(table["entryPoint"], f.row)]
  BY <1>2
<1>4. k # "entryPoint" => table' = [table EXCEPT ![k] = [table[k] EXCEPT ![index[f.obj] + 1] = f.row]]
  BY <1>2
<1> QED
  BY <1>3, <1>4 DEF LeftMore

LEMMA MoreOperations ==
    ASSUME Shape, Progress, Next
    PROVE  \/ /\ Same /\ Taken(prog, stack, stack', index, pool, pool')
              /\ TakenMore(prog, stack, stack', pool, pool')
           \/ /\ Same /\ \E i \in Nat : Passed(prog, stack, stack', i, index, pool, pool')
              /\ PassedMore(prog, stack, stack', index, pool, pool')
           \/ /\ prog' = prog /\ pool' = pool /\ file' = file
              /\ Entered(prog, stack, stack', index, index', table, table')
              /\ EnteredMore(prog, stack, stack', index, table, table')
           \/ /\ prog' = prog /\ pool' = pool /\ file' = file /\ index' = index
              /\ \E i \in Nat : Left(prog, stack, stack', i, index, table, table')
              /\ LeftMore(prog, stack, index, table, table')
           \/ WriteFile
           \/ NoLayout
           \/ UNCHANGED vars
<1>1. CASE AddKnown
  BY <1>1, AddKnownPassed, AddKnownMore
<1>2. CASE AddNew
  BY <1>2, AddNewEntered, AddNewMore
<1>3. CASE Return
  BY <1>3, ReturnLeft, ReturnMore
<1>4. CASE SetRef \/ Ignore \/ PushU32List \/ InternStr \/ AddModifiers \/ MarkSlices
             \/ AddBindingRange \/ AddDescriptorSet \/ AddSubObjectRange
  <2>1. Same /\ Taken(prog, stack, stack', index, pool, pool')
    BY <1>4, SetRefTaken, IgnoreTaken, PushU32ListTaken, InternStrTaken, AddModifiersTaken,
       MarkSlicesTaken, AddBindingRangeTaken, AddDescriptorSetTaken, AddSubObjectRangeTaken
  <2> QED
    BY <1>4, <2>1, TakenMoreOp
<1>5. CASE SetAttributes
  BY <1>5, SetAttributesTaken, SetAttributesMore
<1>6. CASE AddHashedStr
  BY <1>6, AddHashedStrTaken, AddHashedStrMore
<1>7. CASE AddAttribute
  BY <1>7, AddAttributePassed, AddAttributeMore
<1>8. CASE Done
  BY <1>8 DEF Done
<1> QED
  BY <1>1, <1>2, <1>3, <1>4, <1>5, <1>6, <1>7, <1>8 DEF Next

-----------------------------------------------------------------------------
(* The attributes.                                                         *)

LEMMA AttrKept ==
    ASSUME NEW ix, NEW ix2, NEW pl, NEW pl2, Grown(ix, ix2, pl, pl2), NEW j \in Nat \ {0}, NEW a,
           AttrIs(pl, j, a)
    PROVE  AttrIs(pl2, j, a)
<1> DEFINE r == pl["attr"][j]
<1>1. /\ pl["attr"] \in Seq(Items("attr")) /\ Extends(pl["attr"], pl2["attr"])
      /\ Extends(pl["string"], pl2["string"]) /\ Extends(pl["attrArg"], pl2["attrArg"])
      /\ Len(pl["attr"]) \in Nat /\ Len(pl2["attr"]) \in Nat
      /\ Len(pl["string"]) \in Nat /\ Len(pl2["string"]) \in Nat
      /\ Len(pl["attrArg"]) \in Nat /\ Len(pl2["attrArg"]) \in Nat
  BY PoolKept, ItemFacts
<1>2. j \in 1 .. Len(pl["attr"])
  BY <1>1 DEF AttrIs
<1>3. r \in [name : Nat, off : Nat, count : Nat] /\ pl2["attr"][j] = r /\ j <= Len(pl2["attr"])
  <2>1. r \in Items("attr")
    BY <1>1, <1>2
  <2>2. pl2["attr"][j] = r /\ Len(pl["attr"]) <= Len(pl2["attr"])
    BY <1>1, <1>2 DEF Extends
  <2>3. j <= Len(pl2["attr"])
    BY <1>1, <1>2, <2>2
  <2> QED
    BY <2>1, <2>2, <2>3, ItemFacts
<1>4. r.name \in Nat /\ r.off \in Nat /\ r.count \in Nat
  BY <1>3
<1>5. /\ a = Nil => r = [name |-> Invalid, off |-> 0, count |-> 0]
      /\ a # Nil =>
           /\ r.name < Len(pl["string"]) /\ pl["string"][r.name + 1] = a.name
           /\ r.count = Len(a.args) /\ r.off + r.count <= Len(pl["attrArg"])
           /\ \A i \in 1 .. Len(a.args) : pl["attrArg"][r.off + i] = a.args[i]
  BY DEF AttrIs
<1> HIDE DEF r
<1>6. CASE a = Nil
  BY <1>3, <1>5, <1>6 DEF AttrIs
<1>7. CASE a # Nil
  <2>1. r.name < Len(pl2["string"]) /\ pl2["string"][r.name + 1] = a.name
    <3>1. r.name + 1 \in 1 .. Len(pl["string"])
      BY SMTT(60), <1>1, <1>4, <1>5, <1>7
    <3>2. Len(pl["string"]) <= Len(pl2["string"]) /\ pl2["string"][r.name + 1] = pl["string"][r.name + 1]
      BY <3>1, <1>1 DEF Extends
    <3>3. r.name < Len(pl2["string"])
      BY SMTT(60), <3>2, <1>1, <1>4, <1>5, <1>7
    <3> QED
      BY <3>2, <3>3, <1>5, <1>7
  <2>2. r.off + r.count <= Len(pl2["attrArg"])
    BY SMTT(60), <1>1, <1>4, <1>5, <1>7 DEF Extends
  <2>3. ASSUME NEW i \in 1 .. Len(a.args) PROVE pl2["attrArg"][r.off + i] = a.args[i]
    <3>1. i \in Nat \ {0} /\ r.off + i <= Len(pl["attrArg"])
      <4>1. r.count = Len(a.args) /\ r.off + r.count <= Len(pl["attrArg"])
        BY <1>5, <1>7
      <4>2. i \in Nat \ {0} /\ i <= r.count
        BY <4>1, <1>4
      <4>3. Len(pl["attrArg"]) \in Nat
        BY <1>1
      <4> QED
        BY SMTT(60), <4>1, <4>2, <4>3, <1>4
    <3>2. pl2["attrArg"][r.off + i] = pl["attrArg"][r.off + i]
      BY SMTT(60), <3>1, <1>1, <1>4, Kept
    <3> QED
      BY <3>2, <1>5, <1>7
  <2> QED
    BY <2>1, <2>2, <2>3, <1>3, <1>5, <1>7 DEF AttrIs
<1> QED
  BY <1>6, <1>7

LEMMA AttrsStoredKept ==
    ASSUME NEW p \in Programs, NEW o \in DOMAIN p, NEW m \in 1 .. Len(Script(p, o)),
           NEW row, NEW row2, RowGrown(row, row2, Assigns(Script(p, o)[m])),
           NEW ix, NEW ix2, NEW pl, NEW pl2, Grown(ix, ix2, pl, pl2), StepDone(p, o, m, row, ix, pl),
           AttrsStored(p, o, m, row, pl)
    PROVE  AttrsStored(p, o, m, row2, pl2)
<1> DEFINE s == Script(p, o)[m]
<1> SUFFICES ASSUME s.op = "attrs", NEW k \in 1 .. Len(s.data)
             PROVE  AttrIs(pl2, row2[s.field].off + k, s.data[k])
  BY DEF AttrsStored
<1>1. s.field \in DOMAIN row /\ row[s.field] \in Slices
  BY DEF StepDone
<1>2. s.field \in Assigns(s)
  BY DEF Assigns
<1>3. row2[s.field] = row[s.field]
  BY <1>1, <1>2 DEF RowGrown
<1>4. AttrIs(pl, row[s.field].off + k, s.data[k])
  BY DEF AttrsStored
<1>5. row[s.field].off \in Nat
  BY <1>1 DEF Slices
<1>6. StepOK(p, p[o], s)
  BY Scripts DEF StepsOK
<1>7. k \in Nat \ {0}
  BY <1>6 DEF StepOK
<1>8. row[s.field].off + k \in Nat \ {0}
  BY SMTT(60), <1>5, <1>7
<1> QED
  BY <1>3, <1>4, <1>8, AttrKept

LEMMA StoredKept ==
    ASSUME NEW p \in Programs, NEW f \in Frames(p), FrameOK(p, f),
           NEW ix, NEW ix2, NEW pl, NEW pl2, Grown(ix, ix2, pl, pl2), FrameDone(p, f, ix, pl),
           FrameAttrs(p, f, pl)
    PROVE  \A m \in 1 .. f.step - 1 : AttrsStored(p, f.obj, m, f.row, pl2)
<1> SUFFICES ASSUME NEW m \in 1 .. f.step - 1 PROVE AttrsStored(p, f.obj, m, f.row, pl2)
  OBVIOUS
<1>1. f.obj \in DOMAIN p /\ f.step \in Nat \ {0}
  BY DEF Frames
<1>2. Len(Script(p, f.obj)) \in Nat
  BY <1>1, Scripts DEF StepsOK
<1>3. m \in 1 .. Len(Script(p, f.obj))
  BY <1>1, <1>2 DEF FrameOK
<1>4. StepDone(p, f.obj, m, f.row, ix, pl) /\ AttrsStored(p, f.obj, m, f.row, pl)
  BY DEF FrameDone, FrameAttrs
<1> QED
  BY <1>1, <1>3, <1>4, SameRow, AttrsStoredKept

\* The frames below the last one wait.
LEMMA LowerAttrs ==
    ASSUME NEW p, NEW st, NEW ix, NEW tb, NEW pl, Sound(p, st, ix, tb, pl), StackAttrs(p, st, pl),
           NEW st2, StackOK(p, st2), SameFrames(st, st2), NEW ix2, NEW pl2, Grown(ix, ix2, pl, pl2),
           st2 # <<>> => FrameAttrs(p, st2[Len(st2)], pl2)
    PROVE  StackAttrs(p, st2, pl2)
<1> SUFFICES ASSUME NEW n \in 1 .. Len(st2) PROVE FrameAttrs(p, st2[n], pl2)
  BY DEF StackAttrs
<1>1. /\ p \in Programs /\ StackOK(p, st) /\ Len(st) \in Nat
      /\ \A m \in 1 .. Len(st) : st[m] \in Frames(p) /\ FrameOK(p, st[m]) /\ FrameDone(p, st[m], ix, pl)
  BY SoundFacts
<1>2. Len(st2) \in Nat /\ Len(st2) <= Len(st)
  BY DEF StackOK, SameFrames
<1>3. CASE n = Len(st2)
  BY <1>2, <1>3, EmptySeqs
<1>4. CASE n # Len(st2)
  <2>1. n \in 1 .. Len(st2) - 1 /\ n \in 1 .. Len(st) - 1 /\ n \in 1 .. Len(st)
    BY <1>1, <1>2, <1>4
  <2>2. st2[n] = st[n] /\ Waits(p, st[n]) /\ FrameAttrs(p, st[n], pl)
    BY <2>1, <1>1 DEF SameFrames, StackOK, StackAttrs
  <2>3. \A m \in 1 .. st[n].step - 1 : AttrsStored(p, st[n].obj, m, st[n].row, pl2)
    BY <2>1, <2>2, <1>1, StoredKept
  <2>4. GotAttrs(p, st[n], pl2)
    BY <2>1, <2>2, <1>1, WaitingAttrs
  <2> QED
    BY <2>2, <2>3, <2>4 DEF FrameAttrs
<1> QED
  BY <1>3, <1>4

LEMMA FrameAttrsTaken ==
    ASSUME NEW p \in Programs, NEW f \in Frames(p), Busy(p, f), NEW ix, NEW pl, NEW pl2, NEW row,
           PoolsOK(pl), FrameDone(p, f, ix, pl), FrameAttrs(p, f, pl), Effect(p, f, row, ix, pl, pl2),
           StepMore(p, f, row, pl, pl2),
           NEW g, g.obj = f.obj, g.step = f.step + 1, g.row = row, g.got = <<>>
    PROVE  FrameAttrs(p, g, pl2)
<1>1. f.obj \in DOMAIN p /\ f.step \in Nat \ {0} /\ f.got \in Seq(Nat)
  BY DEF Frames
<1>2. StepsOK(p, p[f.obj], Script(p, f.obj))
  BY <1>1, Scripts
<1>3. Grown(ix, ix, pl, pl2)
  BY SameIndex DEF Grown, Effect
<1>4. GotAttrs(p, g, pl2)
  BY DEF GotAttrs
<1> DEFINE sc == Script(p, f.obj)
           k  == f.step
<1>5. Len(sc) \in Nat /\ k \in 1 .. Len(sc) /\ StepOf(p, f) = sc[k] /\ StepOK(p, p[f.obj], sc[k])
  BY <1>1, <1>2 DEF StepsOK, Busy, StepOf
<1>6. AttrsStored(p, f.obj, k, row, pl2)
  <2> DEFINE s == sc[k]
  <2> SUFFICES ASSUME s.op = "attrs", NEW i \in 1 .. Len(s.data)
               PROVE  AttrIs(pl2, row[s.field].off + i, s.data[i])
    BY DEF AttrsStored
  <2>1. Len(f.got) = Len(s.data) /\ (f.got # <<>> => row[s.field].off = f.got[1])
    BY <1>5 DEF StepMore
  <2>2. f.got # <<>> /\ i \in 1 .. Len(f.got) /\ i \in Nat \ {0} /\ f.got[1] \in Nat
    BY SMTT(60), <2>1, <1>1, EmptySeqs
  <2>3. AttrIs(pl, f.got[1] + i, s.data[i])
    BY <2>2, <1>5 DEF FrameAttrs, GotAttrs
  <2>4. f.got[1] + i \in Nat \ {0}
    BY <2>2
  <2> QED
    BY <2>1, <2>2, <2>3, <2>4, <1>3, AttrKept
<1>7. ASSUME NEW m \in 1 .. g.step - 1 PROVE AttrsStored(p, g.obj, m, g.row, pl2)
  <2>1. CASE m = k
    BY <2>1, <1>6
  <2>2. CASE m # k
    <3>1. m \in 1 .. k - 1 /\ m \in 1 .. Len(sc)
      BY <2>2, <1>1, <1>5
    <3>2. StepDone(p, f.obj, m, f.row, ix, pl) /\ AttrsStored(p, f.obj, m, f.row, pl)
      BY <3>1 DEF FrameDone, FrameAttrs
    <3>3. Assigns(sc[m]) \cap Assigns(sc[k]) = {}
      BY <2>2, <3>1, <1>2, <1>5 DEF StepsOK
    <3>4. RowGrown(f.row, row, Assigns(sc[m]))
      BY <3>3, <1>5 DEF Effect, RowGrown
    <3> QED
      BY <3>1, <3>2, <3>4, <1>1, <1>3, AttrsStoredKept
  <2> QED
    BY <2>1, <2>2
<1> QED
  BY <1>4, <1>7 DEF FrameAttrs

\* The last frame of st, when it takes a step: what TakenSound uses of it.
LEMMA TakenIs ==
    ASSUME NEW p, NEW st, NEW st2, NEW ix, NEW tb, NEW pl, NEW pl2, Sound(p, st, ix, tb, pl),
           Taken(p, st, st2, ix, pl, pl2)
    PROVE  LET f == st[Len(st)]
               g == st2[Len(st)]
           IN  /\ st # <<>> /\ st2 # <<>> /\ Len(st2) = Len(st) /\ Len(st) \in Nat \ {0}
               /\ StackOK(p, st2) /\ SameFrames(st, st2)
               /\ f \in Frames(p) /\ FrameOK(p, f) /\ FrameDone(p, f, ix, pl) /\ Busy(p, f)
               /\ StepOf(p, f).op # "attrs" => Len(f.got) = Len(StepOf(p, f).to)
               /\ g.obj = f.obj /\ g.step = f.step + 1 /\ g.got = <<>>
               /\ Effect(p, f, g.row, ix, pl, pl2) /\ Grown(ix, ix, pl, pl2)
<1>1. p \in Programs /\ StackOK(p, st) /\ PoolsOK(pl)
      /\ \A n \in 1 .. Len(st) : st[n] \in Frames(p) /\ FrameOK(p, st[n]) /\ FrameDone(p, st[n], ix, pl)
  BY SoundFacts
<1>2. PICK row : /\ st # <<>> /\ Busy(p, st[Len(st)]) /\ StackOK(p, st2) /\ st2 # <<>>
                 /\ StepOf(p, st[Len(st)]).op # "attrs" =>
                      Len(st[Len(st)].got) = Len(StepOf(p, st[Len(st)]).to)
                 /\ Advanced(st, st2, row) /\ Effect(p, st[Len(st)], row, ix, pl, pl2)
  BY DEF Taken
<1>3. SameFrames(st, st2)
  BY <1>1, TakenFrames
<1>4. Len(st) \in Nat \ {0} /\ Len(st) \in 1 .. Len(st)
  BY <1>1, <1>2, StackFacts
<1>5. /\ Len(st2) = Len(st) /\ st2[Len(st)].obj = st[Len(st)].obj /\ st2[Len(st)].row = row
      /\ st2[Len(st)].step = st[Len(st)].step + 1 /\ st2[Len(st)].got = <<>>
  BY <1>2 DEF Advanced
<1>6. Grown(ix, ix, pl, pl2)
  BY <1>1, <1>2, SameIndex DEF Grown, Effect
<1> QED
  BY <1>1, <1>2, <1>3, <1>4, <1>5, <1>6

LEMMA PassedIs ==
    ASSUME NEW p, NEW st, NEW st2, NEW i, NEW ix, NEW tb, NEW pl, NEW pl2, Sound(p, st, ix, tb, pl),
           Passed(p, st, st2, i, ix, pl, pl2)
    PROVE  LET f == st[Len(st)]
               g == st2[Len(st)]
           IN  /\ st # <<>> /\ st2 # <<>> /\ Len(st2) = Len(st) /\ Len(st) \in Nat \ {0}
               /\ StackOK(p, st2) /\ SameFrames(st, st2)
               /\ f \in Frames(p) /\ FrameOK(p, f) /\ FrameDone(p, f, ix, pl) /\ Busy(p, f)
               /\ StepOf(p, f).op = "attrs" \/ Waits(p, f)
               /\ Waits(p, f) /\ Awaited(p, f) \in Indexed(p) \cup {Nil} => NamesIn(ix, i, Awaited(p, f))
               /\ g.obj = f.obj /\ g.step = f.step /\ g.row = f.row /\ g.got = Append(f.got, i)
               /\ Grown(ix, ix, pl, pl2)
<1>1. p \in Programs /\ StackOK(p, st) /\ PoolsOK(pl)
      /\ \A n \in 1 .. Len(st) : st[n] \in Frames(p) /\ FrameOK(p, st[n]) /\ FrameDone(p, st[n], ix, pl)
  BY SoundFacts
<1>2. /\ st # <<>> /\ StackOK(p, st2) /\ st2 # <<>> /\ Given(st, st2, i)
      /\ PoolsOK(pl2) /\ PoolGrown(pl, pl2) /\ Busy(p, st[Len(st)])
      /\ StepOf(p, st[Len(st)]).op = "attrs" \/ Waits(p, st[Len(st)])
      /\ Waits(p, st[Len(st)]) /\ Awaited(p, st[Len(st)]) \in Indexed(p) \cup {Nil} =>
           NamesIn(ix, i, Awaited(p, st[Len(st)]))
  BY DEF Passed
<1>3. SameFrames(st, st2)
  BY <1>1, PassedFrames
<1>4. Len(st) \in Nat \ {0} /\ Len(st) \in 1 .. Len(st)
  BY <1>1, <1>2, StackFacts
<1>5. /\ Len(st2) = Len(st) /\ st2[Len(st)].obj = st[Len(st)].obj /\ st2[Len(st)].row = st[Len(st)].row
      /\ st2[Len(st)].step = st[Len(st)].step /\ st2[Len(st)].got = Append(st[Len(st)].got, i)
  BY <1>2 DEF Given
<1>6. Grown(ix, ix, pl, pl2)
  BY <1>1, <1>2, SameIndex DEF Grown
<1> QED
  BY <1>1, <1>2, <1>3, <1>4, <1>5, <1>6

LEMMA AttrsTaken ==
    ASSUME NEW p, NEW st, NEW st2, NEW ix, NEW tb, NEW pl, NEW pl2, Sound(p, st, ix, tb, pl),
           StackAttrs(p, st, pl), Taken(p, st, st2, ix, pl, pl2), TakenMore(p, st, st2, pl, pl2)
    PROVE  StackAttrs(p, st2, pl2)
<1> DEFINE f == st[Len(st)]
           g == st2[Len(st)]
<1>1. /\ st # <<>> /\ st2 # <<>> /\ Len(st2) = Len(st) /\ Len(st) \in Nat \ {0}
      /\ StackOK(p, st2) /\ SameFrames(st, st2)
      /\ f \in Frames(p) /\ FrameOK(p, f) /\ FrameDone(p, f, ix, pl) /\ Busy(p, f)
      /\ g.obj = f.obj /\ g.step = f.step + 1 /\ g.got = <<>>
      /\ Effect(p, f, g.row, ix, pl, pl2) /\ Grown(ix, ix, pl, pl2)
  BY TakenIs
<1>2. p \in Programs /\ PoolsOK(pl)
  BY SoundFacts
<1>3. FrameAttrs(p, f, pl)
  BY <1>1 DEF StackAttrs
<1>4. StepMore(p, f, g.row, pl, pl2)
  BY DEF TakenMore
<1> HIDE DEF f, g
<1>5. FrameAttrs(p, g, pl2)
  BY <1>1, <1>2, <1>3, <1>4, FrameAttrsTaken
<1>6. st2[Len(st2)] = g
  BY <1>1 DEF g
<1> QED
  BY <1>1, <1>5, <1>6, LowerAttrs

LEMMA AttrsPassed ==
    ASSUME NEW p, NEW st, NEW st2, NEW i, NEW ix, NEW tb, NEW pl, NEW pl2, Sound(p, st, ix, tb, pl),
           StackAttrs(p, st, pl), Passed(p, st, st2, i, ix, pl, pl2), PassedMore(p, st, st2, ix, pl, pl2)
    PROVE  StackAttrs(p, st2, pl2)
<1> DEFINE f == st[Len(st)]
           g == st2[Len(st)]
<1>1. /\ st # <<>> /\ st2 # <<>> /\ Len(st2) = Len(st) /\ Len(st) \in Nat \ {0}
      /\ StackOK(p, st2) /\ SameFrames(st, st2)
      /\ f \in Frames(p) /\ FrameOK(p, f) /\ FrameDone(p, f, ix, pl) /\ Busy(p, f)
      /\ g.obj = f.obj /\ g.step = f.step /\ g.row = f.row /\ Grown(ix, ix, pl, pl2)
  BY PassedIs
<1>2. p \in Programs /\ PoolsOK(pl) /\ f.got \in Seq(Nat)
  BY <1>1, SoundFacts DEF Frames
<1>3. FrameAttrs(p, f, pl)
  BY <1>1 DEF StackAttrs
<1> DEFINE n == Len(pl["attr"])
           d == StepOf(p, f).data
<1>4. n \in Nat
  BY <1>1, PoolKept, ItemFacts
<1>5. ~Waits(p, f) => /\ g.got = Append(f.got, n) /\ Len(pl2["attr"]) = n + 1
                      /\ AttrIs(pl2, n + 1, d[Len(f.got) + 1])
  BY DEF PassedMore
<1>6. st2[Len(st2)] = g
  BY <1>1
<1> HIDE DEF f, g, n, d
<1>7. StepOf(p, g) = StepOf(p, f) /\ (Busy(p, g) <=> Busy(p, f))
  BY <1>1 DEF StepOf, Busy
<1>8. GotAttrs(p, g, pl2)
  <2>1. CASE Waits(p, f)
    <3>1. StepOf(p, f).op # "attrs"
      BY <2>1, <1>1, <1>2, WaitingAttrs
    <3> QED
      BY <3>1, <1>7 DEF GotAttrs
  <2>2. CASE ~Waits(p, f)
    <3> SUFFICES ASSUME StepOf(p, f).op = "attrs"
                 PROVE  /\ Len(pl2["attr"]) = g.got[1] + Len(g.got)
                        /\ \A k \in 1 .. Len(g.got) : AttrIs(pl2, g.got[1] + k, d[k])
      BY <1>7 DEF GotAttrs, d
    <3> DEFINE l == Len(f.got)
    <3>1. /\ l \in Nat /\ Len(g.got) = l + 1 /\ g.got[l + 1] = n
          /\ \A k \in 1 .. l : g.got[k] = f.got[k] /\ f.got[k] \in Nat
      BY SMTT(60), <2>2, <1>2, <1>4, <1>5
    <3>2. CASE l = 0
      <4>1. g.got[1] = n /\ Len(g.got) = 1 /\ \A k \in 1 .. Len(g.got) : k = 1
        BY <3>1, <3>2
      <4>2. AttrIs(pl2, n + 1, d[1])
        BY <2>2, <3>2, <1>5
      <4> QED
        BY <4>1, <4>2, <2>2, <1>5
    <3>3. CASE l # 0
      <4>1. f.got # <<>> /\ 1 \in 1 .. l /\ g.got[1] = f.got[1] /\ f.got[1] \in Nat
        BY <3>1, <3>3, EmptySeqs
      <4>2. n = f.got[1] + l /\ \A k \in 1 .. l : AttrIs(pl, f.got[1] + k, d[k])
        BY <4>1, <1>1, <1>3 DEF FrameAttrs, GotAttrs, n, d
      <4>3. Len(pl2["attr"]) = g.got[1] + Len(g.got)
        BY SMTT(60), <4>1, <4>2, <3>1, <2>2, <1>5
      <4>4. ASSUME NEW k \in 1 .. Len(g.got) PROVE AttrIs(pl2, g.got[1] + k, d[k])
        <5>1. CASE k = l + 1
          <6> DEFINE a == f.got[1]
          <6>2. a \in Nat /\ g.got[1] = a /\ n = a + l /\ l \in Nat /\ k = l + 1
            BY <5>1, <4>1, <4>2, <3>1
          <6> HIDE DEF a, l
          <6>1. g.got[1] + k = n + 1
            BY <6>2
          <6> QED
            BY <6>1, <5>1, <2>2, <1>5 DEF l
        <5>2. CASE k # l + 1
          <6>1. k \in 1 .. l /\ f.got[1] + k \in Nat \ {0}
            BY SMTT(60), <5>2, <4>1, <3>1
          <6>2. AttrIs(pl, f.got[1] + k, d[k])
            BY <6>1, <4>2
          <6> QED
            BY <6>1, <6>2, <4>1, <1>1, AttrKept
        <5> QED
          BY <5>1, <5>2
      <4> QED
        BY <4>3, <4>4
    <3> QED
      BY <3>2, <3>3
  <2> QED
    BY <2>1, <2>2
<1>9. \A m \in 1 .. f.step - 1 : AttrsStored(p, f.obj, m, f.row, pl2)
  BY <1>1, <1>2, <1>3, StoredKept
<1>10. FrameAttrs(p, g, pl2)
  BY <1>1, <1>8, <1>9 DEF FrameAttrs
<1> QED
  BY <1>1, <1>6, <1>10, LowerAttrs

LEMMA AttrsEntered ==
    ASSUME NEW p, NEW st, NEW st2, NEW ix, NEW ix2, NEW tb, NEW tb2, NEW pl, Sound(p, st, ix, tb, pl),
           StackAttrs(p, st, pl), Entered(p, st, st2, ix, ix2, tb, tb2)
    PROVE  StackAttrs(p, st2, pl)
<1>1. p \in Programs /\ Len(st) \in Nat
  BY SoundFacts
<1>2. PICK t, row : Pushed(st, st2, t, row)
  BY DEF Entered
<1>3. /\ Len(st2) = Len(st) + 1 /\ \A n \in 1 .. Len(st) : st2[n] = st[n]
      /\ st2[Len(st) + 1] = Frame(t, row)
  BY <1>2 DEF Pushed, SameBelow
<1>4. FrameAttrs(p, Frame(t, row), pl)
  BY EmptySeqs DEF FrameAttrs, GotAttrs, Frame
<1> SUFFICES ASSUME NEW n \in 1 .. Len(st2) PROVE FrameAttrs(p, st2[n], pl)
  BY DEF StackAttrs
<1>5. n = Len(st) + 1 \/ n \in 1 .. Len(st)
  BY <1>1, <1>3
<1> QED
  BY <1>3, <1>4, <1>5 DEF StackAttrs

LEMMA AttrsLeft ==
    ASSUME NEW p, NEW st, NEW st2, NEW i, NEW ix, NEW tb, NEW tb2, NEW pl, Sound(p, st, ix, tb, pl),
           StackAttrs(p, st, pl), Left(p, st, st2, i, ix, tb, tb2)
    PROVE  StackAttrs(p, st2, pl)
<1> DEFINE n == Len(st) - 1
           f == st[n]
           g == st2[n]
<1>1. /\ p \in Programs /\ StackOK(p, st) /\ Len(st) \in Nat /\ PoolsOK(pl)
      /\ \A m \in 1 .. Len(st) : st[m] \in Frames(p) /\ FrameOK(p, st[m]) /\ FrameDone(p, st[m], ix, pl)
  BY SoundFacts
<1>2. /\ n \in Nat \ {0} /\ StackOK(p, st2) /\ Len(st2) = n /\ Waits(p, f)
      /\ g.obj = f.obj /\ g.step = f.step /\ g.row = f.row
  BY DEF Left
<1>3. n \in 1 .. Len(st) /\ f \in Frames(p) /\ FrameAttrs(p, f, pl)
  BY <1>1, <1>2 DEF StackAttrs
<1>4. SameFrames(st, st2) /\ Grown(ix, ix, pl, pl)
  BY <1>1, LeftFrames, SameIndex, NotGrown DEF Grown
<1>5. st2[Len(st2)] = g
  BY <1>2
<1> HIDE DEF f, g, n
<1>6. StepOf(p, f).op # "attrs"
  BY <1>1, <1>2, <1>3, WaitingAttrs
<1>7. GotAttrs(p, g, pl)
  BY <1>2, <1>6 DEF GotAttrs, StepOf
<1>8. FrameAttrs(p, g, pl)
  BY <1>2, <1>3, <1>7 DEF FrameAttrs
<1> QED
  BY <1>4, <1>2, <1>5, <1>8, LowerAttrs

-----------------------------------------------------------------------------
(* The rows with a place in the maps.                                      *)

LEMMA FullRowKept ==
    ASSUME NEW p \in Programs, NEW o \in DOMAIN p, NEW row,
           NEW ix, NEW ix2, NEW pl, NEW pl2, Grown(ix, ix2, pl, pl2), FullRow(p, o, row, ix, pl)
    PROVE  FullRow(p, o, row, ix2, pl2)
<1>1. RowDone(p, o, row, ix, pl) /\ RowDone(p, o, row, ix2, pl2)
  BY RowDoneKept DEF FullRow
<1>2. ASSUME NEW m \in 1 .. Len(Script(p, o)) PROVE AttrsStored(p, o, m, row, pl2)
  <2>1. StepDone(p, o, m, row, ix, pl) /\ AttrsStored(p, o, m, row, pl)
    BY <1>1 DEF RowDone, FullRow
  <2> QED
    BY <2>1, SameRow, AttrsStoredKept
<1> QED
  BY <1>1, <1>2 DEF FullRow

\* A step that changes neither the tables nor the objects on the stack.
LEMMA SameRowsFull ==
    ASSUME NEW p \in Programs, NEW st, NEW st2, SameFrames(st, st2), Len(st2) = Len(st),
           NEW ix, NEW tb, IndexOK(p, ix, tb), NEW pl, NEW pl2, Grown(ix, ix, pl, pl2),
           RowsFull(p, st, ix, tb, pl)
    PROVE  RowsFull(p, st2, ix, tb, pl2)
<1> SUFFICES ASSUME NEW o \in DOMAIN ix, ~OnStack(o, st2)
             PROVE  FullRow(p, o, tb[p[o].kind][ix[o] + 1], ix, pl2)
  BY DEF RowsFull
<1>1. o \in DOMAIN p
  BY DEF IndexOK, Indexed
<1>2. ~OnStack(o, st)
  BY SameObjects
<1>3. FullRow(p, o, tb[p[o].kind][ix[o] + 1], ix, pl)
  BY <1>2 DEF RowsFull
<1> QED
  BY <1>1, <1>3, FullRowKept

LEMMA FullTaken ==
    ASSUME NEW p, NEW st, NEW st2, NEW ix, NEW tb, NEW pl, NEW pl2, Sound(p, st, ix, tb, pl),
           RowsFull(p, st, ix, tb, pl), Taken(p, st, st2, ix, pl, pl2)
    PROVE  RowsFull(p, st2, ix, tb, pl2)
<1>1. Len(st2) = Len(st) /\ SameFrames(st, st2) /\ Grown(ix, ix, pl, pl2)
  BY TakenIs
<1>2. p \in Programs /\ IndexOK(p, ix, tb)
  BY SoundFacts
<1> QED
  BY <1>1, <1>2, SameRowsFull

LEMMA FullPassed ==
    ASSUME NEW p, NEW st, NEW st2, NEW i, NEW ix, NEW tb, NEW pl, NEW pl2, Sound(p, st, ix, tb, pl),
           RowsFull(p, st, ix, tb, pl), Passed(p, st, st2, i, ix, pl, pl2)
    PROVE  RowsFull(p, st2, ix, tb, pl2)
<1>1. Len(st2) = Len(st) /\ SameFrames(st, st2) /\ Grown(ix, ix, pl, pl2)
  BY PassedIs
<1>2. p \in Programs /\ IndexOK(p, ix, tb)
  BY SoundFacts
<1> QED
  BY <1>1, <1>2, SameRowsFull

LEMMA FullEntered ==
    ASSUME NEW p, NEW st, NEW st2, NEW ix, NEW ix2, NEW tb, NEW tb2, NEW pl, Sound(p, st, ix, tb, pl),
           RowsFull(p, st, ix, tb, pl), Entered(p, st, st2, ix, ix2, tb, tb2)
    PROVE  RowsFull(p, st2, ix2, tb2, pl)
<1>1. p \in Programs /\ IndexOK(p, ix, tb) /\ TablesOK(tb) /\ PoolsOK(pl) /\ Len(st) \in Nat
  BY SoundFacts
<1>2. PICK t \in DOMAIN p, row \in Records :
        /\ t \notin DOMAIN ix /\ Pushed(st, st2, t, row) /\ TablesGrown(tb, tb2)
        /\ p[t].kind = "entryPoint" => ix2 = ix
        /\ p[t].kind # "entryPoint" => Assigned(ix, ix2, t, Len(tb[p[t].kind]))
  BY DEF Entered
<1>3. IndexGrown(ix, ix2) /\ DOMAIN ix2 \subseteq DOMAIN ix \cup {t}
  BY <1>2 DEF IndexGrown, Assigned
<1>4. Grown(ix, ix2, pl, pl)
  BY <1>1, <1>3, NotGrown DEF Grown
<1>5. Len(st2) = Len(st) + 1 /\ st2[Len(st) + 1] = Frame(t, row) /\ \A n \in 1 .. Len(st) : st2[n] = st[n]
  BY <1>2 DEF Pushed, SameBelow
<1> SUFFICES ASSUME NEW o \in DOMAIN ix2, ~OnStack(o, st2)
             PROVE  FullRow(p, o, tb2[p[o].kind][ix2[o] + 1], ix2, pl)
  BY DEF RowsFull
<1>6. o # t
  BY <1>1, <1>5 DEF OnStack, Frame
<1>7. o \in DOMAIN ix /\ ix2[o] = ix[o]
  BY <1>6, <1>3 DEF IndexGrown
<1>8. ~OnStack(o, st)
  BY <1>1, <1>5 DEF OnStack
<1>9. FullRow(p, o, tb[p[o].kind][ix[o] + 1], ix, pl)
  BY <1>7, <1>8 DEF RowsFull
<1>10. o \in DOMAIN p /\ p[o].kind \in Kinds /\ ix[o] \in Nat /\ ix[o] < Len(tb[p[o].kind])
  BY <1>7, <1>1, ProgramFacts DEF IndexOK, Indexed
<1>11. Len(tb[p[o].kind]) \in Nat
  BY <1>10, <1>1 DEF TablesOK
<1>12. ix[o] + 1 \in 1 .. Len(tb[p[o].kind])
  BY <1>10, <1>11
<1>13. tb2[p[o].kind][ix[o] + 1] = tb[p[o].kind][ix[o] + 1]
  BY <1>10, <1>12, <1>2 DEF TablesGrown, Extends
<1> QED
  BY <1>7, <1>9, <1>10, <1>13, <1>1, <1>4, FullRowKept

\* A frame whose steps are all done has a full row.
LEMMA FrameFull ==
    ASSUME NEW p \in Programs, NEW e \in Frames(p), ~Busy(p, e), NEW ix, NEW pl,
           FrameDone(p, e, ix, pl), FrameAttrs(p, e, pl)
    PROVE  FullRow(p, e.obj, e.row, ix, pl)
<1>1. e.obj \in DOMAIN p /\ e.step \in Nat \ {0}
  BY DEF Frames
<1>2. StepsOK(p, p[e.obj], Script(p, e.obj))
  BY <1>1, Scripts
<1>3. \A k \in 1 .. Len(Script(p, e.obj)) : k \in 1 .. e.step - 1
  BY <1>1, <1>2 DEF Busy, StepsOK
<1> QED
  BY <1>3 DEF FullRow, RowDone, FrameDone, FrameAttrs

LEMMA FullLeft ==
    ASSUME NEW p, NEW st, NEW st2, NEW i, NEW ix, NEW tb, NEW tb2, NEW pl, Sound(p, st, ix, tb, pl),
           StackAttrs(p, st, pl), RowsFull(p, st, ix, tb, pl), Left(p, st, st2, i, ix, tb, tb2)
    PROVE  RowsFull(p, st2, ix, tb2, pl)
<1> DEFINE e == st[Len(st)]
           o == e.obj
<1>1. /\ p \in Programs /\ StackOK(p, st) /\ Len(st) \in Nat
      /\ \A n \in 1 .. Len(st) : st[n] \in Frames(p) /\ FrameDone(p, st[n], ix, pl)
  BY SoundFacts
<1>2. /\ st # <<>> /\ ~Busy(p, e) /\ Len(st2) = Len(st) - 1 /\ RowsKept(p, ix, tb, tb2, o)
      /\ o \in DOMAIN ix => i = ix[o] /\ tb2[p[o].kind][i + 1] = e.row
  BY SMTT(60) DEF Left
<1>3. SameFrames(st, st2)
  BY <1>1, LeftFrames
<1>4. Len(st) \in 1 .. Len(st)
  BY <1>1, <1>2, StackFacts
<1>5. FullRow(p, o, e.row, ix, pl)
  <2>1. e \in Frames(p) /\ FrameDone(p, e, ix, pl) /\ FrameAttrs(p, e, pl)
    BY <1>1, <1>4 DEF StackAttrs
  <2> QED
    BY <2>1, <1>1, <1>2, FrameFull
<1> SUFFICES ASSUME NEW m \in DOMAIN ix, ~OnStack(m, st2)
             PROVE  FullRow(p, m, tb2[p[m].kind][ix[m] + 1], ix, pl)
  BY DEF RowsFull
<1>6. CASE m = o
  BY <1>6, <1>5, <1>2
<1>7. CASE m # o
  <2>1. ~OnStack(m, st)
    <3> SUFFICES ASSUME NEW k \in 1 .. Len(st), st[k].obj = m PROVE FALSE
      BY DEF OnStack
    <3>1. k # Len(st)
      BY <1>7
    <3>2. k \in 1 .. Len(st2)
      BY <3>1, <1>1, <1>2
    <3> QED
      BY <3>2, <1>3 DEF SameFrames, OnStack
  <2>2. tb2[p[m].kind][ix[m] + 1] = tb[p[m].kind][ix[m] + 1]
    BY <1>7, <1>2 DEF RowsKept
  <2> QED
    BY <2>1, <2>2 DEF RowsFull
<1> QED
  BY <1>6, <1>7

-----------------------------------------------------------------------------
(* The entry points and the hashed strings.                                *)

EntryPointsOf(p) == {o \in DOMAIN p : p[o].kind = "entryPoint"}

LEMMA EntryRowsKept ==
    ASSUME NEW p \in Programs, NEW es \in Seq(EntryPointsOf(p)), NEW rows,
           NEW ix, NEW ix2, NEW pl, NEW pl2, Grown(ix, ix2, pl, pl2), EntryRows(p, es, rows, ix, pl)
    PROVE  EntryRows(p, es, rows, ix2, pl2)
<1>1. ASSUME NEW e \in 1 .. Len(es) PROVE FullRow(p, es[e], rows[e], ix2, pl2)
  <2>1. es[e] \in EntryPointsOf(p)
    OBVIOUS
  <2>2. es[e] \in DOMAIN p /\ FullRow(p, es[e], rows[e], ix, pl)
    BY <2>1 DEF EntryPointsOf, EntryRows
  <2> QED
    BY <2>2, FullRowKept
<1> QED
  BY <1>1 DEF EntryRows

LEMMA EntryRowsMore ==
    ASSUME NEW p \in Programs, NEW es \in Seq(EntryPointsOf(p)), NEW rows \in Seq(Records),
           NEW ix, NEW pl, EntryRows(p, es, rows, ix, pl),
           NEW o \in EntryPointsOf(p), NEW row \in Records, FullRow(p, o, row, ix, pl)
    PROVE  EntryRows(p, Append(es, o), Append(rows, row), ix, pl)
<1> DEFINE es2 == Append(es, o)
           rows2 == Append(rows, row)
           n == Len(es)
<1>1. n \in Nat /\ Len(rows) = n /\ \A e \in 1 .. n : FullRow(p, es[e], rows[e], ix, pl)
  BY DEF EntryRows
<1>2. Len(es2) = n + 1 /\ es2[n + 1] = o /\ \A e \in 1 .. n : es2[e] = es[e]
  OBVIOUS
<1>3. Len(rows2) = n + 1 /\ rows2[n + 1] = row /\ \A e \in 1 .. n : rows2[e] = rows[e]
  BY <1>1
<1> HIDE DEF es2, rows2, n
<1>4. ASSUME NEW e \in 1 .. Len(es2) PROVE FullRow(p, es2[e], rows2[e], ix, pl)
  <2>1. e = n + 1 \/ e \in 1 .. n
    BY <1>1, <1>2
  <2> QED
    BY <2>1, <1>1, <1>2, <1>3
<1>5. EntryRows(p, es2, rows2, ix, pl)
  BY <1>2, <1>3, <1>4 DEF EntryRows
<1> QED
  BY <1>5 DEF es2, rows2

LEMMA EntryPointsAre ==
    ASSUME NEW p \in Programs
    PROVE  LET all == p["root"].entryPoints
           IN  /\ EntryPoints(p, 0) = <<>>
               /\ \A k \in 0 .. Len(all) : EntryPoints(p, k) \in Seq(EntryPointsOf(p))
               /\ \A k \in 0 .. Len(all) : k + 1 <= Len(all) =>
                    /\ all[k + 1] = Nil => EntryPoints(p, k + 1) = EntryPoints(p, k)
                    /\ all[k + 1] # Nil =>
                         /\ all[k + 1] \in EntryPointsOf(p)
                         /\ EntryPoints(p, k + 1) = Append(EntryPoints(p, k), all[k + 1])
<1> DEFINE all == p["root"].entryPoints
           N  == Len(all)
           xs == [j \in NonNull(all) |-> all[j]]
<1>1. all \in Seq(Pointers(p, {"entryPoint"}))
  BY TypedRoot
<1>2. N \in Nat /\ DOMAIN all = 1 .. N /\ \A j \in 1 .. N : all[j] # Nil => all[j] \in EntryPointsOf(p)
  <2>1. N \in Nat /\ DOMAIN all = 1 .. N /\ \A j \in 1 .. N : all[j] \in Pointers(p, {"entryPoint"})
    BY <1>1
  <2>2. \A t \in Pointers(p, {"entryPoint"}) : t # Nil => t \in EntryPointsOf(p)
    BY DEF Pointers, EntryPointsOf
  <2> QED
    BY <2>1, <2>2
<1>3. DOMAIN xs = NonNull(all) /\ \A j \in NonNull(all) : xs[j] = all[j]
  OBVIOUS
<1>4. \A k : EntryPoints(p, k) = PushBacks(xs, k)
  BY DEF EntryPoints
<1>5. \A j : j \in NonNull(all) <=> j \in 1 .. N /\ all[j] # Nil
  BY <1>2 DEF NonNull
<1> HIDE DEF all, xs, N
<1>6. \A k \in DOMAIN xs : xs[k] \in EntryPointsOf(p)
  BY <1>2, <1>3, <1>5
<1>7. \A k \in 0 .. N : EntryPoints(p, k) \in Seq(EntryPointsOf(p))
  BY <1>2, <1>4, <1>6, PushBacksSeq
<1>8. EntryPoints(p, 0) = <<>>
  BY <1>4, PushBacksNext
<1>9. ASSUME NEW k \in 0 .. N, k + 1 <= N
      PROVE  /\ all[k + 1] = Nil => EntryPoints(p, k + 1) = EntryPoints(p, k)
             /\ all[k + 1] # Nil =>
                  /\ all[k + 1] \in EntryPointsOf(p)
                  /\ EntryPoints(p, k + 1) = Append(EntryPoints(p, k), all[k + 1])
  <2>1. k \in Nat /\ k + 1 \in 1 .. N
    BY <1>2, <1>9
  <2>2. /\ k + 1 \in DOMAIN xs => PushBacks(xs, k + 1) = Append(PushBacks(xs, k), xs[k + 1])
        /\ k + 1 \notin DOMAIN xs => PushBacks(xs, k + 1) = PushBacks(xs, k)
    BY <2>1, PushBacksNext
  <2>3. k + 1 \in DOMAIN xs <=> all[k + 1] # Nil
    BY <2>1, <1>3, <1>5
  <2>4. all[k + 1] # Nil => xs[k + 1] = all[k + 1]
    BY <2>3, <1>3
  <2> QED
    BY <2>1, <2>2, <2>3, <2>4, <1>2, <1>4
<1> QED
  BY <1>7, <1>8, <1>9 DEF all, N

LEMMA HashKept ==
    ASSUME NEW ix, NEW ix2, NEW pl, NEW pl2, Grown(ix, ix2, pl, pl2), NEW j \in 1 .. Len(pl["hashedStr"]),
           NEW s, HashIs(pl, j, s)
    PROVE  HashIs(pl2, j, s)
<1> DEFINE h == pl["hashedStr"][j]
<1>1. /\ pl["hashedStr"] \in Seq(Nat) /\ Extends(pl["hashedStr"], pl2["hashedStr"])
      /\ Extends(pl["string"], pl2["string"])
      /\ Len(pl["string"]) \in Nat /\ Len(pl2["string"]) \in Nat
  BY PoolKept, ItemFacts
<1>2. h \in Nat /\ pl2["hashedStr"][j] = h
  BY SMTT(60), <1>1 DEF Extends
<1>3. (s = Nil => h = Invalid) /\ (s # Nil => h < Len(pl["string"]) /\ pl["string"][h + 1] = s)
  BY DEF HashIs
<1> HIDE DEF h
<1>4. s # Nil => h < Len(pl2["string"]) /\ pl2["string"][h + 1] = s
  <2> SUFFICES ASSUME s # Nil PROVE h < Len(pl2["string"]) /\ pl2["string"][h + 1] = s
    OBVIOUS
  <2>1. h + 1 \in 1 .. Len(pl["string"])
    BY <1>1, <1>2, <1>3
  <2>2. Len(pl["string"]) <= Len(pl2["string"]) /\ pl2["string"][h + 1] = pl["string"][h + 1]
    BY <2>1, <1>1 DEF Extends
  <2>3. h < Len(pl2["string"])
    BY <2>2, <1>1, <1>2, <1>3
  <2> QED
    BY <2>2, <2>3, <1>3
<1> QED
  BY <1>2, <1>3, <1>4 DEF HashIs

LEMMA HashesKept ==
    ASSUME NEW p, NEW n, NEW ix, NEW ix2, NEW pl, NEW pl2, Grown(ix, ix2, pl, pl2),
           pl2["hashedStr"] = pl["hashedStr"], Hashes(p, n, pl)
    PROVE  Hashes(p, n, pl2)
BY HashKept DEF Hashes

LEMMA HashesMore ==
    ASSUME NEW p, NEW n \in Nat, NEW ix, NEW ix2, NEW pl, NEW pl2, Grown(ix, ix2, pl, pl2),
           Hashes(p, n, pl), Len(pl2["hashedStr"]) = Len(pl["hashedStr"]) + 1,
           HashIs(pl2, Len(pl["hashedStr"]) + 1, p["root"].hashed[n + 1])
    PROVE  Hashes(p, n + 1, pl2)
<1>1. Len(pl["hashedStr"]) = n /\ \A j \in 1 .. n : HashIs(pl, j, p["root"].hashed[j])
  BY DEF Hashes
<1>2. ASSUME NEW j \in 1 .. n + 1 PROVE HashIs(pl2, j, p["root"].hashed[j])
  <2>1. j = n + 1 \/ j \in 1 .. n
    OBVIOUS
  <2> QED
    BY <2>1, <1>1, HashKept
<1> QED
  BY <1>1, <1>2 DEF Hashes

-----------------------------------------------------------------------------
(* Where serialize is.                                                     *)

LEMMA RootFrame ==
    ASSUME NEW p \in Programs, NEW f \in Frames(p), FrameOK(p, f), f.obj = "root"
    PROVE  LET r == p["root"]
           IN  /\ EntriesIn(p, f) \in 0 .. Len(r.entryPoints) /\ HashesIn(p, f) \in Nat
               /\ ~Busy(p, f) => EntriesIn(p, f) = Len(r.entryPoints) /\ HashesIn(p, f) = Len(r.hashed)
<1> DEFINE r == p["root"]
           e == Len(r.entryPoints)
           d == Len(r.hashed)
           b == EntryBase(p)
           h == HashBase(p)
           m == f.step
           l == Len(f.got)
<1>1. m \in Nat \ {0} /\ l \in Nat
  BY DEF Frames
<1>2. b \in Nat /\ h \in Nat /\ e \in Nat /\ d \in Nat /\ h = b + e /\ Len(Script(p, "root")) = h + d
  BY BaseFacts
<1>3. m <= h + d + 1 /\ (Busy(p, f) <=> m <= h + d)
  BY <1>2 DEF FrameOK, Busy
<1>4. m > b /\ m <= h => l <= 1
  <2> SUFFICES ASSUME m > b, m <= h PROVE l <= 1
    OBVIOUS
  <2>1. m \in 1 .. Len(Script(p, "root")) /\ Busy(p, f)
    BY SMTT(60), <1>1, <1>2, <1>3
  <2>2. StepOf(p, f) = Script(p, "root")[m]
    BY DEF StepOf
  <2>3. RootStep(p, m, StepOf(p, f))
    BY <2>1, <2>2, RootStepIs
  <2>4. StepOf(p, f).op = "add" /\ Len(StepOf(p, f).to) = 1
    BY <2>3, <1>1, <1>2 DEF RootStep
  <2> QED
    BY <2>1, <2>4 DEF FrameOK
<1>5. EntriesIn(p, f) = IF m <= b THEN 0 ELSE IF m > h THEN e ELSE m - 1 - b + l
  BY DEF EntriesIn
<1>6. HashesIn(p, f) = IF m <= h THEN 0 ELSE m - 1 - h
  BY DEF HashesIn
<1> HIDE DEF e, d, b, h, m, l
<1>7. EntriesIn(p, f) \in 0 .. e /\ HashesIn(p, f) \in Nat
  BY <1>1, <1>2, <1>3, <1>4, <1>5, <1>6
<1>8. ~Busy(p, f) => EntriesIn(p, f) = e /\ HashesIn(p, f) = d
  BY <1>1, <1>2, <1>3, <1>5, <1>6
<1> QED
  BY <1>7, <1>8 DEF e, d

\* The root takes a step.
LEMMA RootAdvances ==
    ASSUME NEW p \in Programs, NEW f \in Frames(p), f.obj = "root", Busy(p, f),
           StepOf(p, f).op # "attrs" => Len(f.got) = Len(StepOf(p, f).to),
           NEW g, g.step = f.step + 1, g.got = <<>>
    PROVE  LET s == StepOf(p, f)
           IN  /\ EntriesIn(p, g) = EntriesIn(p, f)
               /\ s.op # "hash" => HashesIn(p, g) = HashesIn(p, f)
               /\ s.op = "hash" => /\ HashesIn(p, g) = HashesIn(p, f) + 1 /\ HashesIn(p, f) \in Nat
                                   /\ s.data[1] = p["root"].hashed[HashesIn(p, f) + 1]
<1> DEFINE r == p["root"]
           s == StepOf(p, f)
           e == Len(r.entryPoints)
           b == EntryBase(p)
           h == HashBase(p)
           m == f.step
           l == Len(f.got)
<1>1. m \in Nat \ {0} /\ l \in Nat /\ Len(g.got) = 0
  BY EmptySeqs DEF Frames
<1>2. b \in Nat /\ h \in Nat /\ e \in Nat /\ Len(r.hashed) \in Nat /\ h = b + e
      /\ Len(Script(p, "root")) = h + Len(r.hashed)
  BY BaseFacts
<1>3. m \in 1 .. Len(Script(p, "root")) /\ s = Script(p, "root")[m]
  BY <1>1, <1>2 DEF Busy, StepOf
<1>4. RootStep(p, m, s)
  BY <1>3, RootStepIs
<1>5. /\ EntriesIn(p, f) = IF m <= b THEN 0 ELSE IF m > h THEN e ELSE m - 1 - b + l
      /\ EntriesIn(p, g) = IF m + 1 <= b THEN 0 ELSE IF m + 1 > h THEN e ELSE (m + 1) - 1 - b + 0
  BY <1>1 DEF EntriesIn
<1>6. /\ HashesIn(p, f) = IF m <= h THEN 0 ELSE m - 1 - h
      /\ HashesIn(p, g) = IF m + 1 <= h THEN 0 ELSE (m + 1) - 1 - h
  BY DEF HashesIn
<1>7. \/ m <= b /\ s.op # "hash"
      \/ m > b /\ m <= h /\ s.op = "add" /\ Len(s.to) = 1
      \/ m > h /\ s = HashStep(r.hashed[m - h])
  BY <1>4 DEF RootStep
<1> HIDE DEF r, s, e, b, h, m, l
<1>8. CASE m <= b /\ s.op # "hash"
  BY <1>1, <1>2, <1>5, <1>6, <1>8 DEF s
<1>9. CASE m > b /\ m <= h /\ s.op = "add" /\ Len(s.to) = 1
  <2>1. l = 1
    BY <1>9 DEF s, l
  <2> QED
    BY <2>1, <1>1, <1>2, <1>5, <1>6, <1>9 DEF s
<1>10. CASE m > h /\ s = HashStep(r.hashed[m - h])
  <2>1. s.op = "hash" /\ s.data[1] = r.hashed[m - h]
    BY <1>10 DEF HashStep, Step
  <2>2. /\ EntriesIn(p, g) = EntriesIn(p, f) /\ HashesIn(p, g) = HashesIn(p, f) + 1
        /\ HashesIn(p, f) \in Nat /\ HashesIn(p, f) + 1 = m - h
    BY <1>1, <1>2, <1>5, <1>6, <1>10
  <2> QED
    BY <2>1, <2>2 DEF s, r
<1> QED
  BY <1>7, <1>8, <1>9, <1>10

\* The root gets an index.
RootGot(p, f, g, t) ==
    LET all == p["root"].entryPoints
        n == EntriesIn(p, f)
    IN  /\ HashesIn(p, g) = HashesIn(p, f)
        /\ \/ EntriesIn(p, g) = n /\ (t # Nil => p[t].kind # "entryPoint")
           \/ /\ n + 1 <= Len(all) /\ EntriesIn(p, g) = n + 1 /\ all[n + 1] = t
              /\ t # Nil => p[t].kind = "entryPoint"

LEMMA RootGets ==
    ASSUME NEW p \in Programs, NEW f \in Frames(p), f.obj = "root", Waits(p, f),
           NEW g, g.step = f.step, NEW i, g.got = Append(f.got, i)
    PROVE  RootGot(p, f, g, Awaited(p, f))
<1> DEFINE r == p["root"]
           s == StepOf(p, f)
           t == Awaited(p, f)
           e == Len(r.entryPoints)
           b == EntryBase(p)
           h == HashBase(p)
           m == f.step
           l == Len(f.got)
<1>1. m \in Nat \ {0} /\ l \in Nat /\ f.got \in Seq(Nat)
  BY DEF Frames
<1>2. b \in Nat /\ h \in Nat /\ e \in Nat /\ Len(r.hashed) \in Nat /\ h = b + e
      /\ Len(Script(p, "root")) = h + Len(r.hashed)
  BY BaseFacts
<1>3. m \in 1 .. Len(Script(p, "root")) /\ s = Script(p, "root")[m] /\ l < Len(s.to) /\ t = s.to[l + 1]
  BY <1>1, <1>2 DEF Waits, Busy, StepOf, Awaited
<1>4. RootStep(p, m, s)
  BY <1>3, RootStepIs
<1>5. Len(g.got) = l + 1
  BY <1>1
<1>6. /\ EntriesIn(p, f) = IF m <= b THEN 0 ELSE IF m > h THEN e ELSE m - 1 - b + l
      /\ EntriesIn(p, g) = IF m <= b THEN 0 ELSE IF m > h THEN e ELSE m - 1 - b + (l + 1)
  BY <1>5 DEF EntriesIn
<1>7. HashesIn(p, g) = HashesIn(p, f)
  BY DEF HashesIn
<1>8. \/ m <= b /\ Len(s.to) = 1 /\ (s.to[1] # Nil => p[s.to[1]].kind # "entryPoint")
      \/ m > b /\ m <= h /\ Len(s.to) = 1 /\ s.to[1] = r.entryPoints[m - b]
           /\ (s.to[1] # Nil => p[s.to[1]].kind = "entryPoint")
      \/ s = HashStep(r.hashed[m - h])
  BY <1>4 DEF RootStep
<1>9. s # HashStep(r.hashed[m - h])
  <2>1. \A x : HashStep(x).to = <<>>
    BY DEF HashStep, Step
  <2> QED
    BY <2>1, <1>1, <1>3, EmptySeqs
<1> HIDE DEF r, s, t, e, b, h, m, l
<1>10. CASE m <= b /\ Len(s.to) = 1 /\ (s.to[1] # Nil => p[s.to[1]].kind # "entryPoint")
  <2>1. l = 0 /\ t = s.to[1]
    BY <1>1, <1>3, <1>10
  <2>2. EntriesIn(p, g) = EntriesIn(p, f) /\ (t # Nil => p[t].kind # "entryPoint")
    BY <2>1, <1>6, <1>10
  <2> QED
    BY <2>2, <1>7 DEF RootGot, t
<1>11. CASE m > b /\ m <= h /\ Len(s.to) = 1 /\ s.to[1] = r.entryPoints[m - b]
             /\ (s.to[1] # Nil => p[s.to[1]].kind = "entryPoint")
  <2>1. l = 0 /\ t = s.to[1]
    BY <1>1, <1>3, <1>11
  <2>2. EntriesIn(p, g) = EntriesIn(p, f) + 1 /\ EntriesIn(p, f) + 1 = m - b /\ EntriesIn(p, f) + 1 <= e
    BY <2>1, <1>1, <1>2, <1>6, <1>11
  <2>3. r.entryPoints[EntriesIn(p, f) + 1] = t /\ (t # Nil => p[t].kind = "entryPoint")
    BY <2>1, <2>2, <1>11
  <2> QED
    BY <2>2, <2>3, <1>7 DEF RootGot, t, r, e
<1> QED
  BY <1>8, <1>9, <1>10, <1>11

-----------------------------------------------------------------------------
(* Every operation keeps the entry points and the hashed strings.          *)

\* The first frame is the root's.
LEMMA RootFirst ==
    ASSUME NEW p, NEW st, NEW ix, NEW tb, NEW pl, Sound(p, st, ix, tb, pl), st # <<>>
    PROVE  /\ p \in Programs /\ Len(st) \in Nat \ {0} /\ st[1].obj = "root" /\ PoolsOK(pl) /\ TablesOK(tb)
           /\ st[1] \in Frames(p) /\ FrameOK(p, st[1]) /\ FrameDone(p, st[1], ix, pl)
           /\ Len(st) > 1 => st[Len(st)].obj # "root"
<1>1. /\ p \in Programs /\ StackOK(p, st) /\ PoolsOK(pl) /\ TablesOK(tb)
      /\ \A n \in 1 .. Len(st) : st[n] \in Frames(p) /\ FrameOK(p, st[n]) /\ FrameDone(p, st[n], ix, pl)
  BY SoundFacts
<1>2. Len(st) \in Nat \ {0} /\ \A n \in 2 .. Len(st) : st[n].obj # "root"
  BY <1>1, StackFacts
<1>3. 1 \in 1 .. Len(st) /\ (Len(st) > 1 => Len(st) \in 2 .. Len(st))
  BY <1>2
<1>4. st[1].obj = "root"
  BY <1>1 DEF StackOK
<1> QED
  BY <1>1, <1>2, <1>3, <1>4

\* The root is as it was, and so are its strings and its entry points.
LEMMA RootSame ==
    ASSUME NEW p, NEW st, NEW ix, NEW tb, NEW pl, Sound(p, st, ix, tb, pl), RootDone(p, st, ix, tb, pl),
           st # <<>>, NEW st2, NEW ix2, NEW tb2, NEW pl2, Grown(ix, ix2, pl, pl2),
           EntriesIn(p, st2[1]) = EntriesIn(p, st[1]) \/
             EntryPoints(p, EntriesIn(p, st2[1])) = EntryPoints(p, EntriesIn(p, st[1])),
           HashesIn(p, st2[1]) = HashesIn(p, st[1]),
           tb2["entryPoint"] = tb["entryPoint"], pl2["hashedStr"] = pl["hashedStr"]
    PROVE  RootDone(p, st2, ix2, tb2, pl2)
<1> DEFINE n == EntriesIn(p, st[1])
           es == EntryPoints(p, n)
<1>1. /\ p \in Programs /\ st[1].obj = "root" /\ st[1] \in Frames(p) /\ FrameOK(p, st[1])
  BY RootFirst
<1>2. n \in 0 .. Len(p["root"].entryPoints)
  BY <1>1, RootFrame
<1>3. es \in Seq(EntryPointsOf(p))
  BY <1>1, <1>2, EntryPointsAre
<1>4. EntryRows(p, es, tb["entryPoint"], ix, pl) /\ Hashes(p, HashesIn(p, st[1]), pl)
  BY DEF RootDone
<1>5. EntryRows(p, es, tb["entryPoint"], ix2, pl2)
  BY <1>1, <1>3, <1>4, EntryRowsKept
<1>6. Hashes(p, HashesIn(p, st[1]), pl2)
  BY <1>4, HashesKept
<1> QED
  BY <1>5, <1>6 DEF RootDone

LEMMA RootTaken ==
    ASSUME NEW p, NEW st, NEW st2, NEW ix, NEW tb, NEW pl, NEW pl2, Sound(p, st, ix, tb, pl),
           RootDone(p, st, ix, tb, pl), Taken(p, st, st2, ix, pl, pl2), TakenMore(p, st, st2, pl, pl2)
    PROVE  RootDone(p, st2, ix, tb, pl2)
<1> DEFINE f == st[Len(st)]
           g == st2[Len(st)]
           s == StepOf(p, f)
<1>1. /\ st # <<>> /\ Len(st2) = Len(st) /\ Len(st) \in Nat \ {0} /\ SameFrames(st, st2)
      /\ f \in Frames(p) /\ Busy(p, f) /\ (s.op # "attrs" => Len(f.got) = Len(s.to))
      /\ g.obj = f.obj /\ g.step = f.step + 1 /\ g.got = <<>> /\ Grown(ix, ix, pl, pl2)
  BY TakenIs
<1>2. /\ p \in Programs /\ st[1].obj = "root" /\ (Len(st) > 1 => f.obj # "root")
      /\ st[1] \in Frames(p) /\ FrameOK(p, st[1])
  BY <1>1, RootFirst
<1>3. /\ s.op # "hash" => pl2["hashedStr"] = pl["hashedStr"]
      /\ s.op = "hash" => /\ Len(pl2["hashedStr"]) = Len(pl["hashedStr"]) + 1
                          /\ HashIs(pl2, Len(pl["hashedStr"]) + 1, s.data[1])
  BY DEF TakenMore, StepMore
<1>4. CASE Len(st) > 1
  <2>1. 1 \in 1 .. Len(st2) - 1
    BY <1>1, <1>4
  <2>2. st2[1] = st[1]
    BY <2>1, <1>1 DEF SameFrames
  <2>3. s.op # "hash"
    <3>1. StepOK(p, p[f.obj], s) /\ f.obj \in DOMAIN p
      BY <1>1, <1>2, SoundFacts, StackFacts
    <3>2. p[f.obj].kind # "root"
      BY <3>1, <1>2, <1>4, ProgramFacts
    <3> QED
      BY <3>1, <3>2 DEF StepOK
  <2> QED
    BY <2>2, <2>3, <1>1, <1>3, RootSame
<1>5. CASE Len(st) = 1
  <2>1. f = st[1] /\ g = st2[1]
    BY <1>5
  <2> HIDE DEF f, g
  <2>2. /\ EntriesIn(p, g) = EntriesIn(p, f)
        /\ s.op # "hash" => HashesIn(p, g) = HashesIn(p, f)
        /\ s.op = "hash" => /\ HashesIn(p, g) = HashesIn(p, f) + 1 /\ HashesIn(p, f) \in Nat
                            /\ s.data[1] = p["root"].hashed[HashesIn(p, f) + 1]
    BY <1>1, <1>2, <2>1, RootAdvances
  <2>3. CASE s.op # "hash"
    BY <2>1, <2>2, <2>3, <1>1, <1>3, RootSame
  <2>4. CASE s.op = "hash"
    <3> DEFINE n == HashesIn(p, f)
               es == EntryPoints(p, EntriesIn(p, f))
    <3>1. EntryRows(p, es, tb["entryPoint"], ix, pl) /\ Hashes(p, n, pl)
      BY <1>1, <2>1 DEF RootDone
    <3>2. es \in Seq(EntryPointsOf(p))
      BY <1>2, <2>1, RootFrame, EntryPointsAre
    <3>3. EntryRows(p, es, tb["entryPoint"], ix, pl2)
      BY <3>1, <3>2, <1>1, <1>2, EntryRowsKept
    <3>4. n \in Nat /\ HashIs(pl2, Len(pl["hashedStr"]) + 1, p["root"].hashed[n + 1])
      BY <2>2, <2>4, <1>3
    <3> HIDE DEF n
    <3>5. Hashes(p, n + 1, pl2)
      BY <3>1, <3>4, <2>4, <1>1, <1>3, HashesMore
    <3> QED
      BY <3>3, <3>5, <2>1, <2>2, <2>4 DEF RootDone, n
  <2> QED
    BY <2>3, <2>4
<1> QED
  BY <1>1, <1>4, <1>5

LEMMA RootPassed ==
    ASSUME NEW p, NEW st, NEW st2, NEW i, NEW ix, NEW tb, NEW pl, NEW pl2, Sound(p, st, ix, tb, pl),
           RootDone(p, st, ix, tb, pl), Passed(p, st, st2, i, ix, pl, pl2),
           PassedMore(p, st, st2, ix, pl, pl2)
    PROVE  RootDone(p, st2, ix, tb, pl2)
<1> DEFINE f == st[Len(st)]
           g == st2[Len(st)]
           s == StepOf(p, f)
           t == Awaited(p, f)
<1>1. /\ st # <<>> /\ Len(st2) = Len(st) /\ Len(st) \in Nat \ {0} /\ SameFrames(st, st2)
      /\ f \in Frames(p) /\ Busy(p, f) /\ (s.op = "attrs" \/ Waits(p, f))
      /\ g.step = f.step /\ g.got = Append(f.got, i) /\ Grown(ix, ix, pl, pl2)
  BY PassedIs
<1>2. /\ p \in Programs /\ st[1].obj = "root" /\ (Len(st) > 1 => f.obj # "root")
      /\ st[1] \in Frames(p) /\ FrameOK(p, st[1]) /\ IndexOK(p, ix, tb)
  BY <1>1, RootFirst, SoundFacts
<1>3. /\ pl2["hashedStr"] = pl["hashedStr"]
      /\ Waits(p, f) => t = Nil \/ t \in DOMAIN ix
  BY DEF PassedMore
<1>4. CASE Len(st) > 1
  <2>1. 1 \in 1 .. Len(st2) - 1
    BY <1>1, <1>4
  <2>2. st2[1] = st[1]
    BY <2>1, <1>1 DEF SameFrames
  <2> QED
    BY <2>2, <1>1, <1>3, RootSame
<1>5. CASE Len(st) = 1
  <2>1. f = st[1] /\ g = st2[1]
    BY <1>5
  <2>2. Waits(p, f)
    <3> SUFFICES ASSUME s.op = "attrs" PROVE FALSE
      BY <1>1
    <3>1. StepOK(p, p[f.obj], s) /\ s = Script(p, "root")[f.step] /\ f.step \in 1 .. Len(Script(p, "root"))
      <4>1. StepsOK(p, p["root"], Script(p, "root")) /\ f.step \in Nat \ {0} /\ f.obj = "root"
        BY <2>1, <1>1, <1>2, ProgramFacts, Scripts DEF Frames
      <4> QED
        BY <4>1, <1>1 DEF StepsOK, Busy, StepOf
    <3>2. RootStep(p, f.step, s)
      BY SMTT(60), <3>1, <1>2, RootStepIs
    <3>3. Len(s.to) = 0
      BY <3>1, EmptySeqs DEF StepOK
    <3>4. \A x : HashStep(x).op = "hash"
      BY DEF HashStep, Step
    <3> QED
      BY <3>2, <3>3, <3>4 DEF RootStep
  <2>3. t # Nil => p[t].kind # "entryPoint"
    BY <2>2, <1>2, <1>3 DEF IndexOK, Indexed
  <2> HIDE DEF f, g, t
  <2>4. RootGot(p, f, g, t)
    BY <2>1, <2>2, <1>1, <1>2, RootGets DEF t
  <2>5. HashesIn(p, g) = HashesIn(p, f)
    BY <2>4 DEF RootGot
  <2>6. EntriesIn(p, g) = EntriesIn(p, f)
        \/ EntryPoints(p, EntriesIn(p, g)) = EntryPoints(p, EntriesIn(p, f))
    <3> DEFINE n == EntriesIn(p, f)
               all == p["root"].entryPoints
    <3>1. n \in 0 .. Len(all)
      BY <2>1, <1>2, RootFrame
    <3>2. EntriesIn(p, g) = n \/ (n + 1 <= Len(all) /\ EntriesIn(p, g) = n + 1 /\ all[n + 1] = Nil)
      BY <2>3, <2>4 DEF RootGot
    <3> QED
      BY <3>1, <3>2, <1>2, EntryPointsAre
  <2> QED
    BY <2>1, <2>5, <2>6, <1>1, <1>3, RootSame
<1> QED
  BY <1>1, <1>4, <1>5

LEMMA RootEntered ==
    ASSUME NEW p, NEW st, NEW st2, NEW ix, NEW ix2, NEW tb, NEW tb2, NEW pl, Sound(p, st, ix, tb, pl),
           RootDone(p, st, ix, tb, pl), Entered(p, st, st2, ix, ix2, tb, tb2),
           EnteredMore(p, st, st2, ix, tb, tb2)
    PROVE  RootDone(p, st2, ix2, tb2, pl)
<1>1. st # <<>>
  BY DEF Entered
<1>2. p \in Programs /\ Len(st) \in Nat \ {0} /\ PoolsOK(pl) /\ TablesOK(tb)
  BY <1>1, RootFirst
<1>3. PICK t : EnteredFacts(p, st, st2, ix, ix2, tb, tb2, t)
  BY <1>2, EnteredIs
<1>4. Grown(ix, ix2, pl, pl)
  BY <1>2, <1>3, NotGrown DEF Grown, EnteredFacts
<1>5. st2[1] = st[1]
  <2>1. 1 \in 1 .. Len(st)
    BY <1>2
  <2> QED
    BY <2>1, <1>3 DEF EnteredFacts
<1>6. tb2["entryPoint"] = tb["entryPoint"]
  <2>1. \/ tb2 = tb
        \/ \E k : k # "entryPoint" /\ tb2 = [tb EXCEPT ![k] = Append(tb[k], Blank)]
    BY DEF EnteredMore
  <2>2. "entryPoint" \in DOMAIN tb
    BY <1>2 DEF TablesOK, Kinds
  <2> QED
    BY <2>1, <2>2
<1> QED
  BY <1>1, <1>4, <1>5, <1>6, RootSame

LEMMA RootLeft ==
    ASSUME NEW p, NEW st, NEW st2, NEW i, NEW ix, NEW tb, NEW tb2, NEW pl, Sound(p, st, ix, tb, pl),
           StackAttrs(p, st, pl), RootDone(p, st, ix, tb, pl), Left(p, st, st2, i, ix, tb, tb2),
           LeftMore(p, st, ix, tb, tb2)
    PROVE  RootDone(p, st2, ix, tb2, pl)
<1> DEFINE n == Len(st) - 1
           c == st[Len(st)]
           o == c.obj
           f == st[n]
           g == st2[n]
<1>1. /\ st # <<>> /\ n \in Nat \ {0} /\ ~Busy(p, c) /\ Len(st2) = n
      /\ g.step = f.step /\ g.got = Append(f.got, i) /\ Waits(p, f) /\ o = Awaited(p, f)
  BY DEF Left
<1>2. /\ p \in Programs /\ Len(st) \in Nat \ {0} /\ st[1].obj = "root" /\ PoolsOK(pl) /\ TablesOK(tb)
      /\ st[1] \in Frames(p) /\ FrameOK(p, st[1])
  BY <1>1, RootFirst
<1>3. /\ StackOK(p, st)
      /\ \A m \in 1 .. Len(st) : st[m] \in Frames(p) /\ FrameOK(p, st[m]) /\ FrameDone(p, st[m], ix, pl)
  BY SoundFacts
<1>4. /\ Len(st) \in 1 .. Len(st) /\ n \in 1 .. Len(st) /\ c \in Frames(p) /\ f \in Frames(p)
      /\ FrameDone(p, c, ix, pl) /\ FrameAttrs(p, c, pl)
  BY <1>1, <1>2, <1>3 DEF StackAttrs
<1>5. o \in DOMAIN p /\ o # Nil /\ c.row \in Records /\ c.step \in Nat \ {0}
  BY SMTT(60), <1>2, <1>4, ProgramFacts DEF Frames
<1>6. SameFrames(st, st2) /\ Grown(ix, ix, pl, pl)
  BY <1>2, <1>3, LeftFrames, SameIndex, NotGrown DEF Grown
<1>7. CASE p[o].kind # "entryPoint"
  <2>1. \E k : k # "entryPoint" /\ \E v : tb2 = [tb EXCEPT ![k] = v]
    BY <1>7 DEF LeftMore
  <2>2. tb2["entryPoint"] = tb["entryPoint"]
    <3>1. "entryPoint" \in DOMAIN tb
      BY <1>2 DEF TablesOK, Kinds
    <3> QED
      BY <2>1, <3>1
  <2>3. CASE n = 1
    <3>1. f = st[1] /\ g = st2[1]
      BY <2>3
    <3> HIDE DEF f, g
    <3>2. RootGot(p, f, g, o)
      BY <3>1, <1>1, <1>2, RootGets
    <3>3. EntriesIn(p, g) = EntriesIn(p, f) /\ HashesIn(p, g) = HashesIn(p, f)
      BY <3>2, <1>5, <1>7 DEF RootGot
    <3> QED
      BY <3>1, <3>3, <2>2, <1>1, <1>6, RootSame
  <2>4. CASE n # 1
    <3>1. 1 \in 1 .. Len(st2) - 1
      BY <2>4, <1>1
    <3>2. st2[1] = st[1]
      BY <3>1, <1>6 DEF SameFrames
    <3> QED
      BY <3>2, <2>2, <1>1, <1>6, RootSame
  <2> QED
    BY <2>3, <2>4
<1>8. CASE p[o].kind = "entryPoint"
  <2>1. o \notin Indexed(p)
    BY <1>8 DEF Indexed
  <2>2. f.obj = "root"
    BY <2>1, <1>1, <1>2, <1>4, <1>5, AwaitedFacts
  <2>3. n = 1
    <3>1. \A m \in 2 .. Len(st) : st[m].obj # "root"
      BY <1>1, <1>2, <1>3, StackFacts
    <3>2. n \in 2 .. Len(st) \/ n = 1
      BY <1>1, <1>2
    <3> QED
      BY <3>1, <3>2, <2>2
  <2>4. tb2["entryPoint"] = Append(tb["entryPoint"], c.row)
    <3>1. tb2 = [tb EXCEPT !["entryPoint"] = Append(tb["entryPoint"], c.row)]
      BY <1>8 DEF LeftMore
    <3>2. "entryPoint" \in DOMAIN tb
      BY <1>2 DEF TablesOK, Kinds
    <3> QED
      BY <3>1, <3>2
  <2>5. FullRow(p, o, c.row, ix, pl)
    <3>1. StepsOK(p, p[o], Script(p, o))
      BY <1>2, <1>5, Scripts
    <3>2. ~(c.step <= Len(Script(p, o)))
      BY <1>1 DEF Busy
    <3>3. \A m \in 1 .. Len(Script(p, o)) : m \in 1 .. c.step - 1
      BY <3>1, <3>2, <1>5 DEF StepsOK
    <3>4. \A m \in 1 .. Len(Script(p, o)) : StepDone(p, o, m, c.row, ix, pl) /\ AttrsStored(p, o, m, c.row, pl)
      BY <3>3, <1>4 DEF FrameDone, FrameAttrs
    <3> QED
      BY <3>4 DEF FullRow, RowDone
  <2>6. f = st[1] /\ g = st2[1]
    BY <2>3
  <2> HIDE DEF f, g
  <2> DEFINE k == EntriesIn(p, f)
             all == p["root"].entryPoints
             es == EntryPoints(p, k)
  <2>7. RootGot(p, f, g, o)
    BY <2>6, <1>1, <1>2, RootGets
  <2>8. k + 1 <= Len(all) /\ EntriesIn(p, g) = k + 1 /\ all[k + 1] = o /\ HashesIn(p, g) = HashesIn(p, f)
    BY <2>7, <1>5, <1>8 DEF RootGot
  <2>9. k \in 0 .. Len(all)
    BY <2>6, <1>2, RootFrame
  <2>10. es \in Seq(EntryPointsOf(p)) /\ EntryPoints(p, k + 1) = Append(es, o) /\ o \in EntryPointsOf(p)
    BY <2>8, <2>9, <1>2, <1>5, EntryPointsAre
  <2>11. EntryRows(p, es, tb["entryPoint"], ix, pl) /\ Hashes(p, HashesIn(p, f), pl)
    BY <1>1, <2>6 DEF RootDone
  <2>12. tb["entryPoint"] \in Seq(Records)
    BY <1>2 DEF TablesOK, Kinds
  <2>13. EntryRows(p, Append(es, o), tb2["entryPoint"], ix, pl)
    BY <2>4, <2>5, <2>10, <2>11, <2>12, <1>2, <1>5, EntryRowsMore
  <2> QED
    BY <2>6, <2>8, <2>10, <2>11, <2>13 DEF RootDone
<1> QED
  BY <1>7, <1>8

-----------------------------------------------------------------------------
(* The tree of declarations.                                               *)

StackDecls(p, st, ix) ==
    \A n \in 1 .. Len(st) : IsDecl(p, st[n].obj) => ParentIs(p, ix, st[n].obj, st[n].row)
RowDecls(p, st, ix, tb) ==
    \A o \in DOMAIN ix : IsDecl(p, o) =>
      OnStack(o, st) \/ ParentIs(p, ix, o, tb["decl"][ix[o] + 1])

LEMMA DeclsAre ==
    ASSUME NEW p, NEW st, NEW ix, NEW tb
    PROVE  Decls(p, st, ix, tb) <=>
             ModuleFirst(p, ix) /\ StackDecls(p, st, ix) /\ RowDecls(p, st, ix, tb)
BY DEF Decls, StackDecls, RowDecls

LEMMA ParentKept ==
    ASSUME NEW p, NEW ix, NEW ix2, IndexGrown(ix, ix2), NEW o, NEW row, NEW row2, ParentIs(p, ix, o, row),
           "parent" \in DOMAIN row2, row2["parent"] = row["parent"]
    PROVE  ParentIs(p, ix2, o, row2)
BY DEF ParentIs, IndexGrown

\* Steps that enter and leave no object.
LEMMA SameDecls ==
    ASSUME NEW p, NEW st, NEW st2, NEW ix, NEW tb, StackOK(p, st), Decls(p, st, ix, tb),
           SameFrames(st, st2), Len(st2) = Len(st),
           Len(st) \in Nat \ {0},
           IsDecl(p, st[Len(st)].obj) => ParentIs(p, ix, st[Len(st)].obj, st2[Len(st)].row)
    PROVE  Decls(p, st2, ix, tb)
<1>1. ModuleFirst(p, ix) /\ StackDecls(p, st, ix) /\ RowDecls(p, st, ix, tb)
  BY DeclsAre
<1>2. StackDecls(p, st2, ix)
  <2> SUFFICES ASSUME NEW n \in 1 .. Len(st2), IsDecl(p, st2[n].obj)
               PROVE  ParentIs(p, ix, st2[n].obj, st2[n].row)
    BY DEF StackDecls
  <2>1. st2[n].obj = st[n].obj /\ n \in 1 .. Len(st)
    BY DEF SameFrames
  <2>2. CASE n = Len(st)
    BY <2>1, <2>2
  <2>3. CASE n # Len(st)
    <3>1. n \in 1 .. Len(st2) - 1
      BY <2>3
    <3>2. st2[n] = st[n]
      BY <3>1 DEF SameFrames
    <3> QED
      BY <2>1, <3>2, <1>1 DEF StackDecls
  <2> QED
    BY <2>2, <2>3
<1>3. RowDecls(p, st2, ix, tb)
  BY <1>1, SameObjects DEF RowDecls
<1> QED
  BY <1>1, <1>2, <1>3, DeclsAre

LEMMA DeclsTaken ==
    ASSUME NEW p, NEW st, NEW st2, NEW ix, NEW tb, NEW pl, NEW pl2, Sound(p, st, ix, tb, pl),
           Decls(p, st, ix, tb), Taken(p, st, st2, ix, pl, pl2)
    PROVE  Decls(p, st2, ix, tb)
<1> DEFINE f == st[Len(st)]
           g == st2[Len(st)]
<1>1. /\ Len(st2) = Len(st) /\ Len(st) \in Nat \ {0} /\ SameFrames(st, st2)
      /\ f \in Frames(p) /\ Busy(p, f) /\ Effect(p, f, g.row, ix, pl, pl2)
  BY TakenIs
<1>2. p \in Programs /\ StackOK(p, st)
  BY SoundFacts
<1>3. ASSUME IsDecl(p, f.obj) PROVE ParentIs(p, ix, f.obj, g.row)
  <2>1. ParentIs(p, ix, f.obj, f.row)
    BY <1>1, <1>3 DEF Decls
  <2>2. f.obj \in DOMAIN p /\ f.step \in Nat \ {0}
    BY <1>1 DEF Frames
  <2>3. "parent" \notin Assigns(StepOf(p, f))
    <3>1. Len(Script(p, f.obj)) = 3 /\ \A m \in 1 .. 3 : "parent" \notin Assigns(Script(p, f.obj)[m])
      BY <1>2, <1>3, <2>2, DeclSteps
    <3>2. f.step \in 1 .. 3
      BY <3>1, <2>2, <1>1 DEF Busy
    <3> QED
      BY <3>1, <3>2 DEF StepOf
  <2>4. "parent" \in DOMAIN f.row
    BY <2>1 DEF ParentIs
  <2>5. "parent" \in DOMAIN g.row /\ g.row["parent"] = f.row["parent"]
    BY <2>3, <2>4, <1>1 DEF Effect
  <2> QED
    BY <2>1, <2>5, SameIndex, ParentKept
<1> QED
  BY <1>1, <1>2, <1>3, SameDecls

LEMMA DeclsPassed ==
    ASSUME NEW p, NEW st, NEW st2, NEW i, NEW ix, NEW tb, NEW pl, NEW pl2, Sound(p, st, ix, tb, pl),
           Decls(p, st, ix, tb), Passed(p, st, st2, i, ix, pl, pl2)
    PROVE  Decls(p, st2, ix, tb)
<1> DEFINE f == st[Len(st)]
           g == st2[Len(st)]
<1>1. Len(st2) = Len(st) /\ Len(st) \in Nat \ {0} /\ SameFrames(st, st2) /\ g.row = f.row
  BY PassedIs
<1>2. StackOK(p, st)
  BY SoundFacts
<1>3. IsDecl(p, f.obj) => ParentIs(p, ix, f.obj, g.row)
  BY <1>1 DEF Decls
<1> QED
  BY <1>1, <1>2, <1>3, SameDecls

LEMMA DeclsLeft ==
    ASSUME NEW p, NEW st, NEW st2, NEW i, NEW ix, NEW tb, NEW tb2, NEW pl, Sound(p, st, ix, tb, pl),
           Decls(p, st, ix, tb), Left(p, st, st2, i, ix, tb, tb2)
    PROVE  Decls(p, st2, ix, tb2)
<1> DEFINE l == Len(st)
           f == st[l]
<1>1. ModuleFirst(p, ix) /\ StackDecls(p, st, ix) /\ RowDecls(p, st, ix, tb)
  BY DeclsAre
<1>2. l \in Nat
  BY SoundFacts
<1>3. LeftFacts(p, st, st2, ix, tb, tb2)
  BY SMTT(60), LeftIs
<1>4. /\ l - 1 \in Nat \ {0} /\ Len(st2) = l - 1
      /\ \A m \in 1 .. l - 1 : st2[m].obj = st[m].obj /\ st2[m].row = st[m].row
      /\ RowsKept(p, ix, tb, tb2, f.obj)
      /\ f.obj \in DOMAIN ix => tb2[p[f.obj].kind][ix[f.obj] + 1] = f.row
  BY <1>3 DEF LeftFacts
<1>5. StackDecls(p, st2, ix)
  <2> SUFFICES ASSUME NEW n \in 1 .. Len(st2), IsDecl(p, st2[n].obj)
               PROVE  ParentIs(p, ix, st2[n].obj, st2[n].row)
    BY DEF StackDecls
  <2>1. n \in 1 .. l - 1 /\ n \in 1 .. l
    BY <1>2, <1>4
  <2>2. st2[n].obj = st[n].obj /\ st2[n].row = st[n].row
    BY <2>1, <1>4
  <2> QED
    BY <2>1, <2>2, <1>1 DEF StackDecls
<1>6. RowDecls(p, st2, ix, tb2)
  <2> SUFFICES ASSUME NEW o \in DOMAIN ix, IsDecl(p, o), ~OnStack(o, st2)
               PROVE  ParentIs(p, ix, o, tb2["decl"][ix[o] + 1])
    BY DEF RowDecls
  <2>1. p[o].kind = "decl"
    BY DEF IsDecl
  <2>2. CASE o = f.obj
    <3>1. l \in 1 .. Len(st)
      BY <1>2, <1>4
    <3>2. ParentIs(p, ix, f.obj, f.row)
      BY <3>1, <2>2, <1>1 DEF StackDecls
    <3> QED
      BY <3>2, <2>1, <2>2, <1>4
  <2>3. CASE o # f.obj
    <3>1. ~OnStack(o, st)
      BY <2>3, <1>2, <1>3, LeftObjects
    <3>2. ParentIs(p, ix, o, tb["decl"][ix[o] + 1])
      BY <3>1, <1>1 DEF RowDecls
    <3>3. tb2["decl"][ix[o] + 1] = tb["decl"][ix[o] + 1]
      BY <2>1, <2>3, <1>4 DEF RowsKept
    <3> QED
      BY <3>2, <3>3
  <2> QED
    BY <2>2, <2>3
<1> QED
  BY <1>1, <1>5, <1>6, DeclsAre

\* The one declaration the root's script adds is the module.
LEMMA RootStepDecl ==
    ASSUME NEW p, NEW m, NEW s, RootStep(p, m, s), NEW j \in 1 .. Len(s.to),
           NEW t, t = s.to[j], t # Nil, IsDecl(p, t)
    PROVE  t = p["root"].module
<1>1. p[t].kind = "decl" /\ p[t].kind # "entryPoint"
  BY DEF IsDecl
<1>2. Len(s.to) # 0
  OBVIOUS
<1>3. ASSUME NEW x, s = HashStep(x) PROVE FALSE
  <2>1. s.to = <<>>
    BY <1>3 DEF HashStep, Step
  <2> QED
    BY <1>2, <2>1, EmptySeqs
<1>4. Len(s.to) = 1
  BY <1>3 DEF RootStep
<1>5. t = s.to[1]
  BY <1>4
<1> QED
  BY <1>1, <1>3, <1>5 DEF RootStep

\* A declaration that is entered: who its parent is.
LEMMA DeclEntered ==
    ASSUME NEW p, NEW st, NEW ix, NEW tb, NEW pl, Sound(p, st, ix, tb, pl), st # <<>>,
           NEW f, f = st[Len(st)], Waits(p, f), NEW t, t = Awaited(p, f), t # Nil, IsDecl(p, t)
    PROVE  \/ /\ f.obj \notin DOMAIN ix /\ t = p["root"].module /\ \A d \in DOMAIN p : ~Parent(p, d, t)
           \/ /\ f.obj \in DOMAIN ix /\ t # p["root"].module /\ IsDecl(p, f.obj)
              /\ \A d \in DOMAIN p : Parent(p, d, t) => d = f.obj
<1>1. /\ p \in Programs /\ StackOK(p, st) /\ Len(st) \in Nat /\ Registered(p, st, ix) /\ IndexOK(p, ix, tb)
      /\ \A n \in 1 .. Len(st) : st[n] \in Frames(p) /\ FrameOK(p, st[n])
  BY SoundFacts
<1>2. Len(st) \in 1 .. Len(st)
  BY <1>1, StackFacts
<1>3. f \in Frames(p) /\ FrameOK(p, f)
  BY <1>1, <1>2
<1>4. /\ f.obj \in DOMAIN p /\ f.step \in Nat \ {0} /\ Len(f.got) \in Nat
  BY <1>3 DEF Frames
<1> DEFINE sc == Script(p, f.obj)
           j  == Len(f.got) + 1
<1>5. Len(sc) \in Nat
  BY <1>1, <1>4, Scripts DEF StepsOK
<1>6. f.step \in 1 .. Len(sc)
  BY SMTT(60), <1>4, <1>5 DEF Waits, Busy
<1>7. j \in 1 .. Len(sc[f.step].to) /\ t = sc[f.step].to[j] /\ t \in DOMAIN p /\ t # "root"
  BY <1>1, <1>3, AwaitedFacts DEF StepOf, Awaited
<1>8. \A d \in DOMAIN p : Parent(p, d, t) =>
        /\ t # p["root"].module
        /\ \A e \in DOMAIN p : Parent(p, e, t) => e = d
  BY <1>1, DeclAssumption DEF Parent, IsDecl
<1>9. CASE f.obj = "root"
  <2>1. "root" \notin DOMAIN ix
    BY <1>1, ProgramFacts DEF IndexOK, Indexed
  <2>2. RootStep(p, f.step, sc[f.step])
    BY <1>1, <1>6, <1>9, RootStepIs
  <2>3. t = p["root"].module
    BY <2>2, <1>7, RootStepDecl
  <2> QED
    BY <1>9, <2>1, <2>3, <1>8
<1>10. CASE f.obj # "root"
  <2>1. Parent(p, f.obj, t)
    BY <1>1, <1>4, <1>6, <1>7, <1>10, DeclAdded
  <2>2. IsDecl(p, f.obj)
    BY <2>1 DEF Parent
  <2>3. f.obj \in DOMAIN ix
    BY <2>2, <1>1, <1>2 DEF Registered, IsDecl
  <2> QED
    BY SMTT(60), <2>1, <2>2, <2>3, <1>4, <1>8
<1> QED
  BY <1>9, <1>10

LEMMA DeclsEntered ==
    ASSUME NEW p, NEW st, NEW st2, NEW ix, NEW ix2, NEW tb, NEW tb2, NEW pl, Sound(p, st, ix, tb, pl),
           Decls(p, st, ix, tb), RowsOwned(p, ix, tb), Entered(p, st, st2, ix, ix2, tb, tb2),
           EnteredMore(p, st, st2, ix, tb, tb2)
    PROVE  Decls(p, st2, ix2, tb2)
<1> DEFINE f == st[Len(st)]
           l == Len(st)
           mod == p["root"].module
<1>1. ModuleFirst(p, ix) /\ StackDecls(p, st, ix) /\ RowDecls(p, st, ix, tb)
  BY DeclsAre
<1>2. p \in Programs /\ l \in Nat /\ IndexOK(p, ix, tb) /\ TablesOK(tb)
  BY SoundFacts
<1>3. PICK t : EnteredFacts(p, st, st2, ix, ix2, tb, tb2, t) /\ t = Awaited(p, f)
               /\ t # Nil /\ Waits(p, f) /\ st # <<>>
               /\ (p[t].kind # "entryPoint" => t \in DOMAIN ix2)
  <2>1. PICK t \in DOMAIN p, row \in Records :
          /\ st # <<>> /\ Waits(p, st[Len(st)]) /\ t = Awaited(p, st[Len(st)])
          /\ t # Nil /\ t \notin DOMAIN ix /\ t # "root"
          /\ StackOK(p, st2) /\ Pushed(st, st2, t, row)
          /\ TablesOK(tb2) /\ TablesGrown(tb, tb2) /\ IndexOK(p, ix2, tb2)
          /\ p[t].kind = "entryPoint" => ix2 = ix
          /\ p[t].kind # "entryPoint" => t \in Indexed(p) /\ Assigned(ix, ix2, t, Len(tb[p[t].kind]))
    BY DEF Entered
  <2>2. IndexGrown(ix, ix2) /\ DOMAIN ix2 \subseteq DOMAIN ix \cup {t}
        /\ (t \in DOMAIN ix2 => ix2[t] = Len(tb[p[t].kind]))
        /\ (p[t].kind # "entryPoint" => t \in DOMAIN ix2)
    BY <2>1 DEF Assigned, IndexGrown
  <2>3. /\ Len(st2) = Len(st) + 1 /\ \A n \in 1 .. Len(st) : st2[n] = st[n]
        /\ st2[Len(st) + 1].obj = t /\ st2[Len(st) + 1].step = 1
    BY <2>1 DEF Pushed, SameBelow, Frame
  <2> QED
    BY <2>1, <2>2, <2>3 DEF EnteredFacts
<1> DEFINE row == st2[l + 1].row
<1>4. /\ IndexGrown(ix, ix2) /\ DOMAIN ix2 \subseteq DOMAIN ix \cup {t}
      /\ t \in DOMAIN p /\ t \notin DOMAIN ix
      /\ t \in DOMAIN ix2 => ix2[t] = Len(tb[p[t].kind])
      /\ TablesGrown(tb, tb2)
      /\ Len(st2) = l + 1 /\ \A n \in 1 .. l : st2[n] = st[n]
      /\ st2[l + 1].obj = t
  BY <1>3 DEF EnteredFacts
<1>5. ASSUME IsDecl(p, t)
      PROVE  /\ t \in DOMAIN ix2 /\ "parent" \in DOMAIN row
             /\ row["parent"] = IF f.obj \in DOMAIN ix THEN ix[f.obj] ELSE Invalid
  BY <1>3, <1>5 DEF EnteredMore, IsDecl
<1>6. ASSUME IsDecl(p, t)
      PROVE  \/ /\ f.obj \notin DOMAIN ix /\ t = mod /\ \A d \in DOMAIN p : ~Parent(p, d, t)
             \/ /\ f.obj \in DOMAIN ix /\ t # mod /\ IsDecl(p, f.obj)
                /\ \A d \in DOMAIN p : Parent(p, d, t) => d = f.obj
  BY <1>3, <1>6, DeclEntered
<1> HIDE DEF f, l, row, mod
<1>7. ModuleFirst(p, ix2)
  <2> SUFFICES ASSUME NEW o \in DOMAIN ix2, IsDecl(p, o)
               PROVE  mod \in DOMAIN ix2 /\ ix2[mod] = 0
    BY DEF ModuleFirst, mod
  <2>1. ASSUME NEW d \in DOMAIN ix, IsDecl(p, d) PROVE mod \in DOMAIN ix /\ ix[mod] = 0
    BY <2>1, <1>1 DEF ModuleFirst, mod
  <2>2. CASE o \in DOMAIN ix
    BY <2>1, <2>2, <1>4 DEF IndexGrown
  <2>3. CASE o = t /\ t # mod
    BY <2>1, <2>3, <1>4, <1>6 DEF IndexGrown
  <2>4. CASE o = t /\ t = mod
    <3>1. \A d \in DOMAIN ix : ~IsDecl(p, d)
      BY <2>1, <2>4, <1>4
    <3>2. "decl" \in Kinds /\ "decl" # "entryPoint"
      BY DEF Kinds
    <3>3. tb["decl"] \in Seq(Records) /\ Len(tb["decl"]) \in Nat
      BY <3>2, <1>2 DEF TablesOK
    <3>4. 1 \notin 1 .. Len(tb["decl"])
      BY <3>1, <3>2 DEF RowsOwned, IsDecl
    <3>5. Len(tb["decl"]) = 0
      BY <3>3, <3>4
    <3>6. p[t].kind = "decl"
      BY <2>4 DEF IsDecl
    <3> QED
      BY <3>5, <3>6, <2>4, <1>4
  <2> QED
    BY <2>2, <2>3, <2>4, <1>4
<1>8. StackDecls(p, st2, ix2)
  <2> SUFFICES ASSUME NEW n \in 1 .. Len(st2), IsDecl(p, st2[n].obj)
               PROVE  ParentIs(p, ix2, st2[n].obj, st2[n].row)
    BY DEF StackDecls
  <2>1. CASE n \in 1 .. l
    <3>1. ParentIs(p, ix, st[n].obj, st[n].row)
      BY <2>1, <1>1, <1>4 DEF StackDecls, l
    <3>2. "parent" \in DOMAIN st[n].row
      BY <3>1 DEF ParentIs
    <3> QED
      BY <2>1, <3>1, <3>2, <1>4, ParentKept
  <2>2. CASE n = l + 1
    <3>1. IsDecl(p, t)
      BY <2>2, <1>4
    <3>2. ParentIs(p, ix2, t, row)
      BY <3>1, <1>4, <1>5, <1>6 DEF ParentIs, IndexGrown, mod
    <3> QED
      BY <2>2, <3>2, <1>4 DEF row
  <2> QED
    BY <2>1, <2>2, <1>2, <1>4
<1>9. RowDecls(p, st2, ix2, tb2)
  <2> SUFFICES ASSUME NEW o \in DOMAIN ix2, IsDecl(p, o), ~OnStack(o, st2)
               PROVE  ParentIs(p, ix2, o, tb2["decl"][ix2[o] + 1])
    BY DEF RowDecls
  <2>1. o # t
    BY <1>2, <1>4 DEF OnStack
  <2>2. o \in DOMAIN ix /\ ix2[o] = ix[o]
    BY <2>1, <1>4 DEF IndexGrown
  <2>3. ~OnStack(o, st)
    BY <1>2, <1>4 DEF OnStack, l
  <2>4. ParentIs(p, ix, o, tb["decl"][ix[o] + 1])
    BY <2>2, <2>3, <1>1 DEF RowDecls
  <2>5. tb2["decl"][ix[o] + 1] = tb["decl"][ix[o] + 1]
    BY <2>2, <1>2, <1>4, RowFound DEF IsDecl
  <2>6. "parent" \in DOMAIN tb["decl"][ix[o] + 1]
    BY <2>4 DEF ParentIs
  <2> QED
    BY <2>2, <2>4, <2>5, <2>6, <1>4, ParentKept
<1> QED
  BY <1>7, <1>8, <1>9, DeclsAre

-----------------------------------------------------------------------------
(* Rows and strings.                                                       *)

LEMMA OwnedEntered ==
    ASSUME NEW p, NEW st, NEW st2, NEW ix, NEW ix2, NEW tb, NEW tb2, NEW pl, Sound(p, st, ix, tb, pl),
           RowsOwned(p, ix, tb), Entered(p, st, st2, ix, ix2, tb, tb2),
           EnteredMore(p, st, st2, ix, tb, tb2)
    PROVE  RowsOwned(p, ix2, tb2)
<1>1. p \in Programs /\ TablesOK(tb)
  BY SoundFacts
<1>2. PICK t \in DOMAIN p :
          /\ t = Awaited(p, st[Len(st)])
          /\ p[t].kind = "entryPoint" => ix2 = ix
          /\ p[t].kind # "entryPoint" => t \in Indexed(p) /\ Assigned(ix, ix2, t, Len(tb[p[t].kind]))
          /\ t \notin DOMAIN ix
  BY DEF Entered
<1> DEFINE k == p[t].kind
<1>3. CASE k = "entryPoint"
  BY <1>2, <1>3 DEF EnteredMore
<1>4. CASE k # "entryPoint"
  <2>1. tb2 = [tb EXCEPT ![k] = Append(tb[k], Blank)]
    BY <1>2, <1>4 DEF EnteredMore
  <2>2. IndexGrown(ix, ix2) /\ t \in DOMAIN ix2 /\ ix2[t] = Len(tb[k])
    BY <1>2, <1>4 DEF Assigned, IndexGrown
  <2>3. k \in Kinds
    BY <1>1, <1>2, <1>4, ProgramFacts DEF Indexed
  <2>4. DOMAIN tb = Kinds /\ \A c \in Kinds : tb[c] \in Seq(Records)
    BY <1>1 DEF TablesOK
  <2>5. AppendedTo(Records, tb[k], Blank, Append(tb[k], Blank))
    BY <2>3, <2>4, BlankRecord, ExtendedByOne
  <2>6. tb2[k] = Append(tb[k], Blank) /\ \A c \in Kinds : c # k => tb2[c] = tb[c]
    BY <2>1, <2>3, <2>4
  <2>7. Len(tb2[k]) = Len(tb[k]) + 1 /\ Len(tb[k]) \in Nat
    BY <2>5, <2>6 DEF AppendedTo
  <2> SUFFICES ASSUME NEW c \in Kinds, c # "entryPoint", NEW i \in 1 .. Len(tb2[c])
               PROVE  \E o \in DOMAIN ix2 : p[o].kind = c /\ ix2[o] = i - 1
    BY DEF RowsOwned
  <2>8. CASE c = k /\ i = Len(tb[k]) + 1
    <3>1. i - 1 = Len(tb[k])
      BY <2>8, <2>7
    <3> QED
      BY <3>1, <2>8, <2>2
  <2>9. CASE ~(c = k /\ i = Len(tb[k]) + 1)
    <3>1. i \in 1 .. Len(tb[c])
      <4>1. CASE c = k
        BY <4>1, <2>7, <2>9
      <4>2. CASE c # k
        BY <4>2, <2>6
      <4> QED
        BY <4>1, <4>2
    <3>2. PICK o \in DOMAIN ix : p[o].kind = c /\ ix[o] = i - 1
      BY <3>1 DEF RowsOwned
    <3> QED
      BY <3>2, <2>2 DEF IndexGrown
  <2> QED
    BY <2>8, <2>9
<1> QED
  BY <1>3, <1>4

LEMMA OwnedLeft ==
    ASSUME NEW p, NEW st, NEW st2, NEW i, NEW ix, NEW tb, NEW tb2, NEW pl, Sound(p, st, ix, tb, pl),
           RowsOwned(p, ix, tb), Left(p, st, st2, i, ix, tb, tb2), LeftMore(p, st, ix, tb, tb2)
    PROVE  RowsOwned(p, ix, tb2)
<1> DEFINE f == st[Len(st)]
           k == p[f.obj].kind
<1>1. TablesOK(tb)
  BY SoundFacts
<1>2. DOMAIN tb = Kinds /\ \A c \in Kinds : tb[c] \in Seq(Records)
  BY SMTT(60), <1>1 DEF TablesOK
<1>3. /\ k = "entryPoint" => tb2 = [tb EXCEPT !["entryPoint"] = Append(tb["entryPoint"], f.row)]
      /\ k # "entryPoint" => tb2 = [tb EXCEPT ![k] = [tb[k] EXCEPT ![ix[f.obj] + 1] = f.row]]
  BY DEF LeftMore
<1>4. ASSUME NEW c \in Kinds, c # "entryPoint" PROVE Len(tb2[c]) = Len(tb[c])
  <2>1. CASE k = "entryPoint"
    BY SMTT(60), <2>1, <1>2, <1>3, <1>4
  <2>2. CASE k # "entryPoint" /\ c # k
    BY <2>2, <1>2, <1>3
  <2>3. CASE k # "entryPoint" /\ c = k
    <3>1. tb2[c] = [tb[c] EXCEPT ![ix[f.obj] + 1] = f.row]
      BY <2>3, <1>2, <1>3
    <3> HIDE DEF f
    <3> QED
      BY SMTT(60), <3>1, <1>2
  <2> QED
    BY <2>1, <2>2, <2>3
<1> QED
  BY <1>4 DEF RowsOwned

LEMMA DistinctKept ==
    ASSUME NEW ss \in Seq(Text), NEW ss2, Interned(ss, ss2), Distinct(ss)
    PROVE  Distinct(ss2)
<1>1. PICK t \in Text \cup {Nil} : ss2 = Strings(ss, t)
  BY DEF Interned
<1>2. CASE ss2 = ss
  BY <1>2
<1>3. CASE ss2 # ss
  <2>1. t # Nil /\ (\A k \in DOMAIN ss : ss[k] # t) /\ ss2 = Append(ss, t)
    BY <1>1, <1>3 DEF Strings
  <2>2. AppendedTo(Text, ss, t, ss2) /\ DOMAIN ss = 1 .. Len(ss)
    <3>1. t \in Text
      BY <2>1, <1>1
    <3>2. AppendedTo(Text, ss, t, ss2)
      BY <2>1, <3>1, ExtendedByOne
    <3> QED
      BY <3>2
  <2>3. /\ Len(ss) \in Nat /\ Len(ss2) = Len(ss) + 1 /\ ss2[Len(ss) + 1] = t
        /\ \A i \in 1 .. Len(ss) : ss2[i] = ss[i]
    BY <2>2 DEF AppendedTo, Extends
  <2> SUFFICES ASSUME NEW i \in 1 .. Len(ss2), NEW j \in 1 .. Len(ss2), ss2[i] = ss2[j] PROVE i = j
    BY DEF Distinct
  <2>4. i = Len(ss) + 1 \/ i \in 1 .. Len(ss)
    BY <2>3
  <2>5. j = Len(ss) + 1 \/ j \in 1 .. Len(ss)
    BY <2>3
  <2> QED
    BY <2>1, <2>2, <2>3, <2>4, <2>5 DEF Distinct
<1> QED
  BY <1>2, <1>3

-----------------------------------------------------------------------------
(* The file that is written.                                               *)

LEMMA FileBig ==
    ASSUME \A n \in 1 .. 18 : Bytes(Sections[n]) \in Nat
    PROVE  /\ Cur[18] \in Nat /\ Cur[18] >= HeaderSize
           /\ \A n \in 1 .. 18 : Cur[n] <= Cur[18]
<1> DEFINE S == {n \in 0 .. 17 : Cur[n + 1] >= HeaderSize}
<1>1. \A n \in 1 .. 18 : Cur[n] \in Nat /\ EndBefore(Cur, n) \in Nat /\ EndBefore(Cur, n) <= Cur[n]
  BY CurFacts
<1>2. 0 \in S
  <2>1. EndBefore(Cur, 1) <= Cur[1]
    BY <1>1
  <2>2. EndBefore(Cur, 1) = HeaderSize
    BY DEF EndBefore
  <2>3. Cur[1] \in Nat
    BY <1>1
  <2> QED
    BY <2>1, <2>2, <2>3 DEF HeaderSize
<1>3. ASSUME NEW n \in 1 .. 17, n - 1 \in S PROVE n \in S
  <2>1. n \in 1 .. 18 /\ n + 1 \in 1 .. 18 /\ n + 1 # 1 /\ (n + 1) - 1 = n /\ (n - 1) + 1 = n
    OBVIOUS
  <2>2. EndBefore(Cur, n + 1) = Cur[n] + Bytes(Sections[n])
    BY <2>1 DEF EndBefore
  <2>3. Cur[n] >= HeaderSize
    BY <1>3, <2>1
  <2>4. Cur[n] + Bytes(Sections[n]) <= Cur[n + 1]
    BY <2>1, <2>2, <1>1
  <2>5. Cur[n] \in Nat /\ Cur[n + 1] \in Nat /\ Bytes(Sections[n]) \in Nat
    BY <2>1, <1>1
  <2>6. Cur[n + 1] >= HeaderSize
    BY <2>3, <2>4, <2>5 DEF HeaderSize
  <2> QED
    BY <2>6
<1> HIDE DEF S
<1>4. \A n \in 0 .. 17 : n \in S
  BY <1>2, <1>3, IntervalInduction
<1>5. 17 \in S
  BY <1>4
<1>6. Cur[17 + 1] >= HeaderSize /\ 17 + 1 = 18
  BY <1>5 DEF S
<1> DEFINE T == {m \in 0 .. 18 : \A n \in 1 .. m : Cur[n] <= Cur[m]}
<1>7. ASSUME NEW m \in 1 .. 18, m - 1 \in T PROVE m \in T
  <2> SUFFICES ASSUME NEW n \in 1 .. m PROVE Cur[n] <= Cur[m]
    BY <1>7
  <2>1. CASE n = m
    BY <1>1, <2>1
  <2>2. CASE n # m
    <3>1. n \in 1 .. m - 1 /\ m - 1 \in 1 .. 18 /\ m # 1 /\ n \in 1 .. 18
      BY <2>2
    <3>2. Cur[n] <= Cur[m - 1]
      BY <3>1, <1>7
    <3>3. EndBefore(Cur, m) = Cur[m - 1] + Bytes(Sections[m - 1])
      BY <3>1 DEF EndBefore
    <3>4. Cur[n] \in Nat /\ Cur[m - 1] \in Nat /\ Cur[m] \in Nat /\ Bytes(Sections[m - 1]) \in Nat
          /\ EndBefore(Cur, m) <= Cur[m]
      BY <3>1, <1>1
    <3> QED
      BY <3>2, <3>3, <3>4
  <2> QED
    BY <2>1, <2>2
<1>8. 0 \in T
  OBVIOUS
<1> HIDE DEF T
<1>9. \A m \in 0 .. 18 : m \in T
  BY <1>7, <1>8, IntervalInduction
<1>10. 18 \in T
  BY <1>9
<1>11. \A n \in 1 .. 18 : Cur[n] <= Cur[18]
  BY <1>10 DEF T
<1> QED
  BY <1>1, <1>6, <1>11

\* The frame of the root when serialize writes the file.
LEMMA RootEnds ==
    ASSUME Shape, Progress, WriteFile
    PROVE  LET f == stack[1]
           IN  /\ Len(stack) = 1 /\ Top = f /\ f.obj = "root" /\ f \in Frames(prog) /\ FrameOK(prog, f)
               /\ FrameDone(prog, f, index, pool) /\ ~Busy(prog, f)
<1>1. Sound(prog, stack, index, table, pool)
  BY SoundState
<1>2. Len(stack) = 1 /\ stack # <<>> /\ Top = stack[1] /\ Top.step \notin DOMAIN Steps
  BY DEF WriteFile, Running, Top
<1>3. /\ prog \in Programs /\ stack[1].obj = "root" /\ stack[1] \in Frames(prog)
      /\ FrameOK(prog, stack[1]) /\ FrameDone(prog, stack[1], index, pool)
  BY <1>1, <1>2, RootFirst
<1>4. stack[1].step \in Nat \ {0} /\ "root" \in DOMAIN prog
  BY <1>3, ProgramFacts DEF Frames
<1>5. Len(Script(prog, "root")) \in Nat /\ DOMAIN Script(prog, "root") = 1 .. Len(Script(prog, "root"))
  BY <1>3, <1>4, Scripts DEF StepsOK
<1>6. stack[1].step \notin DOMAIN Script(prog, "root")
  BY <1>2, <1>3 DEF Steps
<1>7. ~Busy(prog, stack[1])
  BY <1>3, <1>4, <1>5, <1>6 DEF Busy
<1> QED
  BY <1>2, <1>3, <1>7

LEMMA GlobalNamed ==
    ASSUME NEW p \in Programs, NEW f \in Frames(p), FrameOK(p, f), f.obj = "root", ~Busy(p, f),
           NEW ix, NEW pl, FrameDone(p, f, ix, pl)
    PROVE  NamesIn(ix, f.row["globalParams"], p["root"].global)
<1> DEFINE a == Len(p["root"].params)
           sc == Script(p, "root")
<1>1. a \in Nat /\ Len(sc) \in Nat /\ a + 1 \in 1 .. Len(sc) /\ sc[a + 1] = Ref("globalParams", p["root"].global)
  <2>1. RootSteps(p, sc)
    BY RootPositions
  <2> HIDE DEF sc
  <2> DEFINE e == Len(p["root"].entryPoints)
             h == Len(p["root"].hashed)
  <2>2. a \in Nat /\ e \in Nat /\ h \in Nat /\ Len(sc) = a + 2 + e + h
    BY <2>1 DEF RootSteps
  <2>3. sc[a + 1] = Ref("globalParams", p["root"].global)
    BY <2>1 DEF RootSteps
  <2> HIDE DEF a, e, h
  <2>4. Len(sc) \in Nat /\ a + 1 \in 1 .. Len(sc)
    BY <2>2
  <2> QED
    BY <2>2, <2>3, <2>4
<1>2. f.step \in Nat \ {0}
  BY DEF Frames
<1> HIDE DEF a, sc
<1>3. f.step = Len(sc) + 1
  BY <1>1, <1>2 DEF FrameOK, Busy, sc
<1>4. a + 1 \in 1 .. f.step - 1
  BY <1>1, <1>3
<1>5. StepDone(p, "root", a + 1, f.row, ix, pl)
  BY <1>4 DEF FrameDone
<1> QED
  BY <1>1, <1>5, RefDone DEF sc

LEMMA FileWritten ==
    ASSUME Shape, Progress, RootDone(prog, stack, index, table, pool), WriteFile
    PROVE  FileIs(prog, file', index, table, pool)
<1> DEFINE f == stack[1]
           r == prog["root"]
<1>1. /\ Len(stack) = 1 /\ Top = f /\ f.obj = "root" /\ f \in Frames(prog) /\ FrameOK(prog, f)
      /\ FrameDone(prog, f, index, pool) /\ ~Busy(prog, f)
  BY RootEnds
<1>2. prog \in Programs /\ stack # <<>>
  BY SMTT(60), <1>1, EmptySeqs DEF Shape
<1>3. EntriesIn(prog, f) = Len(r.entryPoints) /\ HashesIn(prog, f) = Len(r.hashed)
  BY <1>1, <1>2, RootFrame
<1>4. /\ EntryRows(prog, EntryPoints(prog, Len(r.entryPoints)), table["entryPoint"], index, pool)
      /\ Hashes(prog, Len(r.hashed), pool)
  BY <1>2, <1>3 DEF RootDone
<1>5. file'.global = f.row["globalParams"]
  BY <1>1 DEF WriteFile
<1>6. NamesIn(index, file'.global, r.global)
  BY <1>1, <1>2, <1>5, GlobalNamed
<1>7. /\ \A n \in 1 .. 18 : Bytes(Sections[n]) \in Nat
      /\ file'.off = Off /\ file'.at = At /\ CurEnd = Cur[18] + Bytes(Sections[18]) /\ CurEnd \in Nat
      /\ file'.bytes = CurEnd /\ file'.size = CurEnd % Wrap
  BY FileEnds
<1>8. Cur[18] \in Nat /\ Cur[18] >= HeaderSize /\ \A n \in 1 .. 18 : Cur[n] <= Cur[18]
  BY <1>7, FileBig
<1>9. Bytes(Sections[18]) \in Nat
  BY <1>7
<1>10. file'.bytes \in Nat /\ file'.bytes >= HeaderSize /\ file'.size <= file'.bytes
  <2>1. CurEnd >= HeaderSize
    BY <1>7, <1>8, <1>9 DEF HeaderSize
  <2>2. CurEnd % Wrap \in Nat /\ CurEnd % Wrap < Wrap /\ Wrap \in Nat
        /\ (CurEnd < Wrap => CurEnd % Wrap = CurEnd)
    BY <1>7, Wrapped, WrapAssumption
  <2> QED
    BY <1>7, <2>1, <2>2
<1>11. ASSUME file'.bytes < Wrap, NEW n \in 1 .. 18 PROVE file'.at[n] = file'.off[n]
  <2>1. Cur[n] \in Nat /\ Cur[n] <= Cur[18] /\ Wrap \in Nat
    BY <1>7, <1>8, CurFacts, WrapAssumption
  <2>2. Cur[n] < Wrap
    BY <1>7, <1>8, <1>9, <1>11, <2>1
  <2> QED
    BY <1>7, <2>2, SectionAt
<1>12. file'.rows = [k \in Kinds \cup Pools |-> IF k \in Kinds THEN table[k] ELSE pool[k]]
  BY DEF WriteFile, Rows
<1> QED
  BY <1>4, <1>6, <1>10, <1>11, <1>12 DEF FileIs

-----------------------------------------------------------------------------
(* The invariant.                                                          *)

LEMMA ViewFinished ==
    ASSUME NEW p, NEW st, NEW ix, NEW tb, NEW pl, Sound(p, st, ix, tb, pl), Len(st) = 1 \/ DOMAIN ix = {},
           ViewState(p, st, ix, tb, pl)
    PROVE  ViewState(p, <<>>, ix, tb, pl)
<1>1. \A o \in DOMAIN ix : ~OnStack(o, st)
  BY NothingOnStack
<1>2. Decls(p, <<>>, ix, tb)
  BY <1>1, EmptySeqs DEF ViewState, Decls
<1>3. RowsFull(p, <<>>, ix, tb, pl)
  BY <1>1 DEF ViewState, RowsFull
<1> QED
  BY <1>2, <1>3, EmptySeqs DEF ViewState, StackAttrs, RootDone

LEMMA InitView == Init => ViewInv
<1> SUFFICES ASSUME Init PROVE ViewInv
  OBVIOUS
<1> DEFINE f == Frame("root", Blank)
<1>1. prog \in Programs /\ stack = <<f>> /\ index = <<>> /\ file = NoFile
      /\ table = [k \in Kinds |-> <<>>] /\ pool = [q \in Pools |-> <<>>]
  BY DEF Init
<1>2. f.obj = "root" /\ f.step = 1 /\ f.got = <<>>
  BY DEF Frame
<1> HIDE DEF f
<1>3. Len(stack) = 1 /\ stack[1] = f /\ stack # <<>> /\ DOMAIN index = {}
  BY <1>1, EmptySeqs
<1>4. StackAttrs(prog, stack, pool)
  <2>1. \A n \in 1 .. Len(stack) : stack[n] = f
    BY <1>3
  <2>2. FrameAttrs(prog, f, pool)
    BY <1>2 DEF FrameAttrs, GotAttrs
  <2> QED
    BY <2>1, <2>2 DEF StackAttrs
<1>5. RootDone(prog, stack, index, table, pool)
  <2>1. EntriesIn(prog, f) = 0 /\ HashesIn(prog, f) = 0
    <3>1. EntryBase(prog) \in Nat /\ HashBase(prog) \in Nat /\ EntryBase(prog) >= 2 /\ Len(prog["root"].entryPoints) \in Nat
          /\ HashBase(prog) = EntryBase(prog) + Len(prog["root"].entryPoints)
      BY <1>1, BaseFacts
    <3>2. f.step <= EntryBase(prog) /\ f.step <= HashBase(prog)
      BY <3>1, <1>2
    <3> QED
      BY <3>2 DEF EntriesIn, HashesIn
  <2>2. EntryPoints(prog, 0) = <<>>
    BY <1>1, EntryPointsAre
  <2>3. table["entryPoint"] = <<>> /\ pool["hashedStr"] = <<>>
    BY <1>1, ItemFacts DEF Kinds
  <2>4. EntryRows(prog, <<>>, <<>>, index, pool)
    BY EmptySeqs DEF EntryRows
  <2>5. Hashes(prog, 0, pool)
    BY <2>3, EmptySeqs DEF Hashes
  <2> QED
    BY <2>1, <2>2, <2>3, <2>4, <2>5, <1>3 DEF RootDone
<1>6. Decls(prog, stack, index, table)
  <2>1. prog["root"].kind = "root"
    BY <1>1, ProgramFacts
  <2>2. \A n \in 1 .. Len(stack) : ~IsDecl(prog, stack[n].obj)
    BY <2>1, <1>2, <1>3 DEF IsDecl
  <2> QED
    BY <2>2, <1>3 DEF Decls, ModuleFirst
<1>7. RowsOwned(prog, index, table)
  BY <1>1, EmptySeqs DEF RowsOwned
<1>8. Distinct(pool["string"])
  BY <1>1, ItemFacts, EmptySeqs DEF Distinct
<1>9. RowsFull(prog, stack, index, table, pool)
  BY <1>3 DEF RowsFull
<1> QED
  BY <1>1, <1>4, <1>5, <1>6, <1>7, <1>8, <1>9 DEF ViewInv, ViewState, Written

LEMMA NextView == Shape /\ Progress /\ ViewInv /\ [Next]_vars => ViewInv'
<1> SUFFICES ASSUME Shape, Progress, ViewInv, [Next]_vars
             PROVE  /\ ViewState(prog', stack', index', table', pool')
                    /\ file' # NoFile => FileIs(prog', file', index', table', pool')
  BY DEF ViewInv, Written, ViewState, StackAttrs, RootDone, Decls, RowsOwned, Distinct, RowsFull, FileIs
<1>1. Sound(prog, stack, index, table, pool) /\ (prog["root"].layout \/ DOMAIN index = {})
      /\ (file # NoFile => stack = <<>>)
      /\ StackAttrs(prog, stack, pool) /\ RootDone(prog, stack, index, table, pool)
      /\ Decls(prog, stack, index, table) /\ RowsOwned(prog, index, table) /\ Distinct(pool["string"])
      /\ RowsFull(prog, stack, index, table, pool)
  BY SoundState DEF ViewInv, ViewState
<1>2. pool["string"] \in Seq(Text)
  BY <1>1, SoundFacts, ItemFacts DEF PoolsOK
<1>3. CASE UNCHANGED vars
  BY <1>3 DEF vars, ViewInv, Written
<1>4. CASE Next
  <2>1. CASE /\ Same /\ Taken(prog, stack, stack', index, pool, pool')
             /\ TakenMore(prog, stack, stack', pool, pool')
    <3>1. StackAttrs(prog, stack', pool') /\ RootDone(prog, stack', index, table, pool')
          /\ Decls(prog, stack', index, table) /\ RowsFull(prog, stack', index, table, pool')
      BY <2>1, <1>1, AttrsTaken, RootTaken, DeclsTaken, FullTaken
    <3>2. Interned(pool["string"], pool'["string"])
      BY <2>1 DEF TakenMore, StepMore
    <3>3. Distinct(pool'["string"])
      BY <3>2, <1>1, <1>2, DistinctKept
    <3>4. stack # <<>>
      BY <2>1 DEF Taken
    <3> QED
      BY <2>1, <3>1, <3>3, <3>4, <1>1 DEF Same, ViewState
  <2>2. CASE /\ Same /\ \E i \in Nat : Passed(prog, stack, stack', i, index, pool, pool')
             /\ PassedMore(prog, stack, stack', index, pool, pool')
    <3>1. StackAttrs(prog, stack', pool') /\ RootDone(prog, stack', index, table, pool')
          /\ Decls(prog, stack', index, table) /\ RowsFull(prog, stack', index, table, pool')
      BY <2>2, <1>1, AttrsPassed, RootPassed, DeclsPassed, FullPassed
    <3>2. Interned(pool["string"], pool'["string"])
      BY <2>2 DEF PassedMore
    <3>3. Distinct(pool'["string"])
      BY <3>2, <1>1, <1>2, DistinctKept
    <3>4. stack # <<>>
      BY <2>2 DEF Passed
    <3> QED
      BY <2>2, <3>1, <3>3, <3>4, <1>1 DEF Same, ViewState
  <2>3. CASE /\ prog' = prog /\ pool' = pool /\ file' = file
             /\ Entered(prog, stack, stack', index, index', table, table')
             /\ EnteredMore(prog, stack, stack', index, table, table')
    <3>1. StackAttrs(prog, stack', pool) /\ RootDone(prog, stack', index', table', pool)
          /\ Decls(prog, stack', index', table') /\ RowsOwned(prog, index', table')
          /\ RowsFull(prog, stack', index', table', pool)
      BY <2>3, <1>1, AttrsEntered, RootEntered, DeclsEntered, OwnedEntered, FullEntered
    <3>2. stack # <<>>
      BY <2>3 DEF Entered
    <3> QED
      BY <2>3, <3>1, <3>2, <1>1 DEF ViewState
  <2>4. CASE /\ prog' = prog /\ pool' = pool /\ file' = file /\ index' = index
             /\ \E i \in Nat : Left(prog, stack, stack', i, index, table, table')
             /\ LeftMore(prog, stack, index, table, table')
    <3>1. StackAttrs(prog, stack', pool) /\ RootDone(prog, stack', index, table', pool)
          /\ Decls(prog, stack', index, table') /\ RowsOwned(prog, index, table')
          /\ RowsFull(prog, stack', index, table', pool)
      BY <2>4, <1>1, AttrsLeft, RootLeft, DeclsLeft, OwnedLeft, FullLeft
    <3>2. stack # <<>>
      BY <2>4 DEF Left
    <3> QED
      BY <2>4, <3>1, <3>2, <1>1 DEF ViewState
  <2>5. CASE WriteFile
    <3>1. FileIs(prog, file', index, table, pool)
      BY <2>5, <1>1, FileWritten
    <3>2. Len(stack) = 1
      BY <2>5 DEF WriteFile
    <3>3. ViewState(prog, <<>>, index, table, pool)
      BY <3>2, <1>1, ViewFinished DEF ViewState
    <3> QED
      BY <2>5, <3>1, <3>3 DEF WriteFile
  <2>6. CASE NoLayout
    <3>1. ~prog["root"].layout /\ stack # <<>> /\ stack' = <<>> /\ UNCHANGED <<prog, index, table, pool, file>>
      BY <2>6 DEF NoLayout
    <3>2. ViewState(prog, <<>>, index, table, pool)
      BY <3>1, <1>1, ViewFinished DEF ViewState
    <3> QED
      BY <3>1, <3>2, <1>1
  <2> QED
    BY SMTT(60), <1>3, <1>4, <2>1, <2>2, <2>3, <2>4, <2>5, <2>6, MoreOperations
<1> QED
  BY SMTT(60), <1>3, <1>4

LEMMA ViewInvariant == Spec => [](Shape /\ Progress /\ ViewInv)
<1>1. Init => ViewInv
  BY InitView
<1>2. Shape /\ Progress /\ ViewInv /\ [Next]_vars => ViewInv'
  BY NextView
<1> QED
  BY <1>1, <1>2, Invariant, PTL DEF Spec

-----------------------------------------------------------------------------
(* What a reader finds in the file.                                        *)

\* n things that are told apart by elements of a set.
LEMMA NoMore ==
    ASSUME NEW n \in Nat, NEW T, IsFiniteSet(T), NEW f, DOMAIN f = 1 .. n, f = [i \in DOMAIN f |-> f[i]],
           \A i \in 1 .. n : f[i] \in T,
           \A i, j \in 1 .. n : f[i] = f[j] => i = j
    PROVE  n <= Cardinality(T)
<1>1. f \in [1 .. n -> T]
  OBVIOUS
<1>2. f \in Injection(1 .. n, T)
  BY <1>1 DEF Injection, IsInjective
<1>3. Cardinality(1 .. n) <= Cardinality(T)
  BY <1>2, FS_Injection
<1>4. 1 \in Int /\ n \in Int
  OBVIOUS
<1>5. Cardinality(1 .. n) = n
  <2>1. Cardinality(1 .. n) = IF 1 > n THEN 0 ELSE n - 1 + 1
    BY <1>4, FS_Interval, Zenon
  <2> QED
    BY <2>1
<1> QED
  BY <1>3, <1>5

LEMMA RowsFit ==
    ASSUME NEW p \in Programs, NEW ix, NEW tb, IndexOK(p, ix, tb), TablesOK(tb), RowsOwned(p, ix, tb),
           NEW k \in Kinds, k # "entryPoint"
    PROVE  Len(tb[k]) \in Nat /\ Len(tb[k]) <= Invalid
<1> DEFINE n == Len(tb[k])
           f == [i \in 1 .. n |-> CHOOSE o \in DOMAIN ix : p[o].kind = k /\ ix[o] = i - 1]
<1>1. tb[k] \in Seq(Records) /\ n \in Nat
  BY DEF TablesOK
<1>2. \A i \in 1 .. n : \E o \in DOMAIN ix : p[o].kind = k /\ ix[o] = i - 1
  BY DEF RowsOwned
<1>3. DOMAIN ix \subseteq DOMAIN p
  BY DEF IndexOK, Indexed
<1>4. \A i \in 1 .. n : f[i] \in DOMAIN p /\ ix[f[i]] = i - 1
  BY <1>2, <1>3
<1>5. DOMAIN f = 1 .. n /\ f = [i \in DOMAIN f |-> f[i]]
  OBVIOUS
<1> HIDE DEF f, n
<1>6. \A i, j \in 1 .. n : f[i] = f[j] => i = j
  BY <1>1, <1>4
<1>7. IsFiniteSet(DOMAIN p) /\ Cardinality(DOMAIN p) <= Invalid
  BY IndexAssumption
<1>8. n <= Cardinality(DOMAIN p)
  BY <1>1, <1>4, <1>5, <1>6, <1>7, NoMore
<1>9. Cardinality(DOMAIN p) \in Nat /\ Invalid \in Nat
  BY <1>7, FS_CardinalityType, ReflectionAssumption
<1> QED
  BY <1>1, <1>7, <1>8, <1>9 DEF n

LEMMA StringsFit ==
    ASSUME NEW ss \in Seq(Text), Distinct(ss)
    PROVE  Len(ss) \in Nat /\ Len(ss) <= Invalid
<1>1. Len(ss) \in Nat /\ DOMAIN ss = 1 .. Len(ss) /\ ss = [i \in DOMAIN ss |-> ss[i]]
      /\ \A i \in 1 .. Len(ss) : ss[i] \in Text
  OBVIOUS
<1>2. IsFiniteSet(Text) /\ Cardinality(Text) <= Invalid
  BY IndexAssumption
<1>3. Len(ss) <= Cardinality(Text)
  BY <1>1, <1>2, NoMore DEF Distinct
<1>4. Cardinality(Text) \in Nat /\ Invalid \in Nat
  BY <1>2, FS_CardinalityType, ReflectionAssumption
<1> QED
  BY <1>1, <1>2, <1>3, <1>4

\* The file has the tables and the pools, and every row of them is done.
Complete ==
    /\ prog \in Programs /\ IndexOK(prog, index, table) /\ TablesOK(table) /\ PoolsOK(pool)
    /\ HasHeader
    /\ \A k \in Kinds : TableSpan(k) = table[k]
    /\ \A q \in Pools : TableSpan(q) = pool[q]
    /\ \A o \in DOMAIN index : RowDone(prog, o, table[prog[o].kind][index[o] + 1], index, pool)
    /\ \A k \in Kinds : k # "entryPoint" => Len(table[k]) \in Nat /\ Len(table[k]) <= Invalid
    /\ Len(pool["string"]) \in Nat /\ Len(pool["string"]) <= Invalid

LEMMA SectionOf ==
    \A k \in Kinds \cup Pools : \E n \in DOMAIN Sections : Sections[n] = k
<1>1. DOMAIN Sections = 1 .. 18
  BY SectionFacts
<1>2. /\ Sections[1] = "string" /\ Sections[2] = "hashedStr" /\ Sections[3] = "attrArg"
      /\ Sections[4] = "attr" /\ Sections[5] = "modifier" /\ Sections[6] = "type"
      /\ Sections[7] = "typeLayout" /\ Sections[8] = "var" /\ Sections[9] = "varLayout"
      /\ Sections[10] = "func" /\ Sections[11] = "generic" /\ Sections[12] = "decl"
      /\ Sections[13] = "entryPoint" /\ Sections[14] = "bindingRange" /\ Sections[15] = "descriptorSet"
      /\ Sections[16] = "descriptorRange" /\ Sections[17] = "subObjectRange" /\ Sections[18] = "u32"
  BY DEF Sections
<1>3. \A n \in {1, 2, 3, 4, 5, 6, 7, 8, 9, 10, 11, 12, 13, 14, 15, 16, 17, 18} : n \in DOMAIN Sections
  BY <1>1
<1> QED
  BY <1>2, <1>3 DEF Kinds, Pools

LEMMA WrittenComplete ==
    ASSUME Shape, Progress, ViewInv, Written, Fits
    PROVE  Complete
<1>1. Sound(prog, stack, index, table, pool) /\ stack = <<>>
  BY SoundState DEF Written
<1>2. prog \in Programs /\ IndexOK(prog, index, table) /\ TablesOK(table) /\ PoolsOK(pool)
      /\ TablesDone(prog, stack, index, table, pool)
  BY <1>1, SoundFacts
<1>3. FileIs(prog, file, index, table, pool) /\ RowsOwned(prog, index, table) /\ Distinct(pool["string"])
  BY DEF ViewInv, ViewState
<1>4. HasHeader
  BY <1>3 DEF FileIs, HasHeader
<1>5. ASSUME NEW k \in Kinds \cup Pools PROVE TableSpan(k) = IF k \in Kinds THEN table[k] ELSE pool[k]
  <2> DEFINE n == CHOOSE m \in DOMAIN Sections : Sections[m] = k
  <2>1. n \in DOMAIN Sections
    BY SMTT(60), SectionOf
  <2>2. n \in 1 .. 18
    BY <2>1, SectionFacts
  <2>3. TableSpan(k) = IF file.at[n] = file.off[n] THEN file.rows[k] ELSE <<>>
    BY <1>4 DEF TableSpan
  <2> HIDE DEF n
  <2>4. file.at[n] = file.off[n]
    BY <2>2, <1>3 DEF FileIs, Fits
  <2>5. file.rows[k] = IF k \in Kinds THEN table[k] ELSE pool[k]
    BY <1>3 DEF FileIs
  <2> QED
    BY <2>3, <2>4, <2>5
<1>6. \A q \in Pools : q \notin Kinds
  BY DEF Pools, Kinds
<1>7. \A o \in DOMAIN index : RowDone(prog, o, table[prog[o].kind][index[o] + 1], index, pool)
  BY <1>1, <1>2, EmptySeqs DEF TablesDone, OnStack
<1>8. \A k \in Kinds : k # "entryPoint" => Len(table[k]) \in Nat /\ Len(table[k]) <= Invalid
  BY <1>2, <1>3, RowsFit
<1>9. pool["string"] \in Seq(Text)
  BY <1>2, ItemFacts DEF PoolsOK
<1>10. Len(pool["string"]) \in Nat /\ Len(pool["string"]) <= Invalid
  BY <1>3, <1>9, StringsFit
<1>11. (\A k \in Kinds : TableSpan(k) = table[k]) /\ (\A q \in Pools : TableSpan(q) = pool[q])
  BY <1>5, <1>6
<1> QED
  BY <1>2, <1>4, <1>7, <1>8, <1>10, <1>11 DEF Complete

LEMMA StringRead ==
    ASSUME Complete, NEW i, NEW x, StringIs(pool["string"], i, x)
    PROVE  String(i) = x
<1>1. TableSpan("string") = pool["string"] /\ Len(pool["string"]) \in Nat /\ Len(pool["string"]) <= Invalid
  BY ItemFacts DEF Complete
<1>2. Invalid \in Nat
  BY ReflectionAssumption
<1> DEFINE ss == pool["string"]
<1>3. String(i) = IF i = Invalid \/ i >= Len(ss) THEN Nil ELSE ss[i + 1]
  BY <1>1 DEF String
<1>4. CASE x = Nil
  BY <1>3, <1>4 DEF StringIs
<1>5. CASE x # Nil
  <2>1. i \in Nat /\ i < Len(ss) /\ ss[i + 1] = x
    BY <1>5 DEF StringIs
  <2>2. i # Invalid /\ ~(i >= Len(ss))
    BY <2>1, <1>1, <1>2
  <2> QED
    BY <2>1, <2>2, <1>3
<1> QED
  BY <1>4, <1>5

\* Index i stands for x, which is null or an object of kind k.
LEMMA IndexRead ==
    ASSUME Complete, NEW k \in Kinds, k # "entryPoint", NEW i, NEW x \in Pointers(prog, {k}),
           NamesIn(index, i, x)
    PROVE  /\ x = Nil => i = Invalid /\ i >= Len(table[k])
           /\ x # Nil => /\ x \in DOMAIN index /\ x \in DOMAIN prog /\ prog[x].kind = k /\ i = index[x]
                         /\ i \in Nat /\ i < Len(table[k]) /\ ~(i >= Len(table[k])) /\ i # Invalid
                         /\ RowDone(prog, x, table[k][i + 1], index, pool)
<1>1. Len(table[k]) \in Nat /\ Len(table[k]) <= Invalid /\ IndexOK(prog, index, table)
      /\ \A o \in DOMAIN index : RowDone(prog, o, table[prog[o].kind][index[o] + 1], index, pool)
  BY DEF Complete
<1>2. Invalid \in Nat
  BY ReflectionAssumption
<1>3. CASE x = Nil
  BY <1>1, <1>2, <1>3 DEF NamesIn
<1>4. CASE x # Nil
  <2>1. x \in DOMAIN index /\ i = index[x] /\ x \in DOMAIN prog /\ prog[x].kind = k
    BY <1>4 DEF NamesIn, Pointers
  <2>2. i \in Nat /\ i < Len(table[k])
    BY <2>1, <1>1 DEF IndexOK
  <2>3. i # Invalid /\ ~(i >= Len(table[k]))
    BY <2>2, <1>1, <1>2
  <2> QED
    BY <2>1, <2>2, <2>3, <1>1, <1>4
<1> QED
  BY <1>3, <1>4

-----------------------------------------------------------------------------
(* The rows that are read.                                                 *)

\* Slice c of the words is ws.
WordsAt(us, c, ws) ==
    /\ c \in Slices /\ c.count = Len(ws)
    /\ c.count > 0 => c.off + c.count <= Len(us)
    /\ \A k \in 1 .. Len(ws) : us[c.off + k] = ws[k]

LEMMA WordsRead ==
    ASSUME NEW p, NEW o, NEW m, NEW row, NEW ix, NEW pl, StepDone(p, o, m, row, ix, pl),
           NEW f, NEW ws \in Seq(Nat), Script(p, o)[m] = Words(f, ws)
    PROVE  WordsAt(pl["u32"], row[f], ws)
<1> DEFINE s == Script(p, o)[m]
<1>1. s.op = "list" /\ s.field = f /\ s.to = <<>> /\ s.data = ws
  BY DEF Words, Step
<1>2. s.op = "list" =>
        /\ row[s.field] \in Slices /\ row[s.field].count = Len(s.to) + Len(s.data)
        /\ row[s.field].count > 0 => row[s.field].off + row[s.field].count <= Len(pl["u32"])
        /\ \A k \in 1 .. Len(s.data) : pl["u32"][row[s.field].off + Len(s.to) + k] = s.data[k]
  BY DEF StepDone
<1> HIDE DEF s
<1> DEFINE c == row[f]
<1>3. /\ c \in Slices /\ c.count = 0 + Len(ws)
      /\ c.count > 0 => c.off + c.count <= Len(pl["u32"])
      /\ \A k \in 1 .. Len(ws) : pl["u32"][c.off + 0 + k] = ws[k]
  BY <1>1, <1>2, EmptySeqs
<1>4. c.off \in Nat /\ Len(ws) \in Nat
  BY <1>3 DEF Slices
<1> HIDE DEF c
<1>5. c.count = Len(ws) /\ c.off + 0 = c.off
  BY <1>3, <1>4
<1> QED
  BY <1>3, <1>5 DEF WordsAt, c

LEMMA FirstWordRead ==
    ASSUME Complete, NEW c, NEW ws \in Seq(Nat), WordsAt(pool["u32"], c, ws)
    PROVE  FirstWord(c) = First(ws)
<1> DEFINE us == pool["u32"]
<1>1. TableSpan("u32") = us /\ us \in Seq(Nat)
  BY ItemFacts DEF Complete, PoolsOK
<1>2. /\ c.off \in Nat /\ c.count \in Nat /\ c.count = Len(ws) /\ Len(us) \in Nat
      /\ c.count > 0 => c.off + c.count <= Len(us)
      /\ \A k \in 1 .. Len(ws) : us[c.off + k] = ws[k]
  BY <1>1 DEF WordsAt, Slices
<1>3. FirstWord(c) = IF c.count > 0 /\ c.off < Len(us) THEN us[c.off + 1] ELSE 0
  BY <1>1 DEF FirstWord
<1> HIDE DEF us
<1>4. CASE ws = <<>>
  <2>1. c.count = 0
    BY <1>2, <1>4, EmptySeqs
  <2> QED
    BY <2>1, <1>3, <1>4 DEF First
<1>5. CASE ws # <<>>
  <2>1. c.count > 0 /\ 1 \in 1 .. Len(ws)
    BY <1>2, <1>5, EmptySeqs
  <2>2. c.off < Len(us)
    BY <2>1, <1>2
  <2> QED
    BY <2>1, <2>2, <1>2, <1>3, <1>5 DEF First
<1> QED
  BY <1>4, <1>5

\* The row of a variable has its name, and that of a layout its words.
LEMMA VarName ==
    ASSUME NEW p \in Programs, NEW o \in DOMAIN p, p[o].kind = "var", NEW r, NEW ix, NEW pl,
           RowDone(p, o, r, ix, pl)
    PROVE  StringIs(pl["string"], r.name, p[o].name)
<1> DEFINE x == p[o]
<1>1. Script(p, o) = <<Name("name", x.name), Ref("type", x.type), Mods(x.mods), Attrs(x.attrs),
                       Ref("generic", x.generic)>>
  BY DEF Script, AddVariable
<1>2. Script(p, o)[1] = Name("name", x.name) /\ Len(Script(p, o)) = 5
  BY <1>1
<1>3. StepDone(p, o, 1, r, ix, pl)
  BY <1>2 DEF RowDone
<1>4. StringIs(pl["string"], r["name"], x.name)
  BY <1>2, <1>3, NameDone
<1> QED
  BY <1>4

LEMMA LayoutSizes ==
    ASSUME NEW p \in Programs, NEW o \in DOMAIN p, p[o].kind = "typeLayout", NEW r, NEW ix, NEW pl,
           RowDone(p, o, r, ix, pl)
    PROVE  p[o].sizes \in Seq(Nat) /\ WordsAt(pl["u32"], r.sizes, p[o].sizes)
<1> DEFINE x == p[o]
           fs == IF x.shape = "struct" THEN x.fields ELSE <<>>
<1>1. x.kind = "typeLayout" /\ Typed(p, x)
  BY ProgramFacts
<1>2. x.sizes \in Seq(Nat)
  BY <1>1 DEF Typed
<1>3. LayoutRefs(x) = <<Ref("type", x.type), Words("sizes", x.sizes), List("fields", fs),
                        Ref("container", x.container), Ref("elementLayout", x.element),
                        Ref("elementVar", x.elementVar), Ref("counter", x.counter)>>
  BY DEF LayoutRefs
<1>4. Len(Script(p, o)) \in Nat /\ Len(Script(p, o)) >= 8 /\ Script(p, o)[2] = LayoutRefs(x)[2]
  <2>1. LayoutPositions(x, Script(p, o))
    BY <1>1, TypedLayout DEF IsLayout
  <2> HIDE DEF x
  <2> QED
    BY SMTT(60), <2>1 DEF LayoutPositions
<1> HIDE DEF fs
<1>5. Script(p, o)[2] = Words("sizes", x.sizes)
  BY <1>3, <1>4
<1>6. StepDone(p, o, 2, r, ix, pl)
  BY <1>4 DEF RowDone
<1>7. WordsAt(pl["u32"], r["sizes"], x.sizes)
  BY <1>2, <1>5, <1>6, WordsRead
<1> QED
  BY <1>2, <1>7

LEMMA VarLayoutWords ==
    ASSUME NEW p \in Programs, NEW o \in DOMAIN p, p[o].kind = "varLayout", NEW r, NEW ix, NEW pl,
           RowDone(p, o, r, ix, pl)
    PROVE  LET x == p[o]
           IN  /\ x.var \in Pointers(p, {"var"}) /\ x.typeLayout \in Pointers(p, {"typeLayout"})
               /\ x.offsets \in Seq(Nat) /\ WordsAt(pl["u32"], r.offsets, x.offsets)
               /\ x.spaces \in Seq(Nat) /\ WordsAt(pl["u32"], r.spaces, x.spaces)
<1> DEFINE x == p[o]
           a == Annotated(p, x.var)
<1>1. x.kind = "varLayout" /\ Typed(p, x)
  BY ProgramFacts
<1>2. /\ x.offsets \in Seq(Nat) /\ x.spaces \in Seq(Nat)
      /\ x.var \in Pointers(p, {"var"}) /\ x.typeLayout \in Pointers(p, {"typeLayout"})
  BY <1>1 DEF Typed
<1>3. Script(p, o) = <<Ref("var", x.var), Ref("typeLayout", x.typeLayout), Words("offsets", x.offsets),
                       Words("spaces", x.spaces), Mods(a.mods), Attrs(a.attrs)>>
  BY <1>1 DEF Script, AddVarLayout
<1> HIDE DEF a
<1>4. /\ Script(p, o)[3] = Words("offsets", x.offsets) /\ Script(p, o)[4] = Words("spaces", x.spaces)
      /\ Len(Script(p, o)) = 6
  BY <1>3
<1>5. StepDone(p, o, 3, r, ix, pl) /\ StepDone(p, o, 4, r, ix, pl)
  BY <1>4 DEF RowDone
<1>6. WordsAt(pl["u32"], r["offsets"], x.offsets) /\ WordsAt(pl["u32"], r["spaces"], x.spaces)
  BY <1>2, <1>4, <1>5, WordsRead
<1> QED
  BY <1>2, <1>6

\* A parameter is read back as Slang has it.
LEMMA ParamRead ==
    ASSUME Complete, NEW o \in DOMAIN prog, prog[o].kind = "varLayout", NEW r,
           RowDone(prog, o, r, index, pool)
    PROVE  DecodeParam(r) = SlangParam(o)
<1> DEFINE x == prog[o]
           vs == table["var"]
           tls == table["typeLayout"]
<1>1. prog \in Programs /\ PoolsOK(pool) /\ TableSpan("var") = vs /\ TableSpan("typeLayout") = tls
      /\ "var" \in Kinds /\ "typeLayout" \in Kinds
  BY DEF Complete, Kinds
<1>2. NamesIn(index, r.var, x.var) /\ NamesIn(index, r.typeLayout, x.typeLayout)
  BY <1>1, VarLayoutRow
<1>3. /\ x.var \in Pointers(prog, {"var"}) /\ x.typeLayout \in Pointers(prog, {"typeLayout"})
      /\ x.offsets \in Seq(Nat) /\ WordsAt(pool["u32"], r.offsets, x.offsets)
      /\ x.spaces \in Seq(Nat) /\ WordsAt(pool["u32"], r.spaces, x.spaces)
  BY <1>1, VarLayoutWords
<1>4. FirstWord(r.offsets) = First(x.offsets) /\ FirstWord(r.spaces) = First(x.spaces)
  BY <1>3, FirstWordRead
<1>5. (IF r.var < Len(vs) THEN String(vs[r.var + 1].name) ELSE Nil)
        = IF x.var = Nil THEN Nil ELSE prog[x.var].name
  <2>1. /\ x.var = Nil => r.var = Invalid /\ r.var >= Len(vs)
        /\ x.var # Nil => /\ x.var \in DOMAIN prog /\ prog[x.var].kind = "var" /\ r.var < Len(vs)
                          /\ RowDone(prog, x.var, vs[r.var + 1], index, pool)
    BY SMTT(60), <1>1, <1>2, <1>3, IndexRead
  <2>2. CASE x.var = Nil
    <3>1. Len(vs) \in Nat /\ Invalid \in Nat
      BY <1>1, ReflectionAssumption DEF Complete
    <3>2. ~(r.var < Len(vs))
      BY <2>1, <2>2, <3>1
    <3> QED
      BY <2>2, <3>2
  <2>3. CASE x.var # Nil
    <3>1. StringIs(pool["string"], vs[r.var + 1].name, prog[x.var].name)
      BY <2>1, <2>3, <1>1, VarName
    <3>2. String(vs[r.var + 1].name) = prog[x.var].name
      BY <3>1, StringRead
    <3> QED
      BY <2>1, <2>3, <3>2
  <2> QED
    BY <2>2, <2>3
<1>6. (IF r.typeLayout < Len(tls) THEN FirstWord(tls[r.typeLayout + 1].sizes) ELSE 0)
        = IF x.typeLayout = Nil THEN 0 ELSE First(prog[x.typeLayout].sizes)
  <2>1. /\ x.typeLayout = Nil => r.typeLayout = Invalid /\ r.typeLayout >= Len(tls)
        /\ x.typeLayout # Nil =>
             /\ x.typeLayout \in DOMAIN prog /\ prog[x.typeLayout].kind = "typeLayout"
             /\ r.typeLayout < Len(tls)
             /\ RowDone(prog, x.typeLayout, tls[r.typeLayout + 1], index, pool)
    BY <1>1, <1>2, <1>3, IndexRead
  <2>2. CASE x.typeLayout = Nil
    <3>1. Len(tls) \in Nat /\ Invalid \in Nat
      BY <1>1, ReflectionAssumption DEF Complete
    <3>2. ~(r.typeLayout < Len(tls))
      BY <2>1, <2>2, <3>1
    <3> QED
      BY <2>2, <3>2
  <2>3. CASE x.typeLayout # Nil
    <3>1. prog[x.typeLayout].sizes \in Seq(Nat)
          /\ WordsAt(pool["u32"], tls[r.typeLayout + 1].sizes, prog[x.typeLayout].sizes)
      BY <2>1, <2>3, <1>1, LayoutSizes
    <3>2. FirstWord(tls[r.typeLayout + 1].sizes) = First(prog[x.typeLayout].sizes)
      BY <3>1, FirstWordRead
    <3> QED
      BY <2>1, <2>3, <3>2
  <2> QED
    BY <2>2, <2>3
<1>7. DecodeParam(r) =
        [name   |-> IF r.var < Len(vs) THEN String(vs[r.var + 1].name) ELSE Nil,
         space  |-> FirstWord(r.spaces), offset |-> FirstWord(r.offsets),
         size   |-> IF r.typeLayout < Len(tls) THEN FirstWord(tls[r.typeLayout + 1].sizes) ELSE 0]
  BY <1>1 DEF DecodeParam
<1>8. SlangParam(o) =
        [name   |-> IF x.var = Nil THEN Nil ELSE prog[x.var].name,
         space  |-> First(x.spaces), offset |-> First(x.offsets),
         size   |-> IF x.typeLayout = Nil THEN 0 ELSE First(prog[x.typeLayout].sizes)]
  BY DEF SlangParam
<1> QED
  BY <1>4, <1>5, <1>6, <1>7, <1>8

\* A slice that lists parameters is read back as them.
LEMMA ParamsRead ==
    ASSUME Complete, NEW xs \in Seq(Pointers(prog, {"varLayout"})), NEW c, ListedIn(index, pool, c, xs)
    PROVE  DecodeParams(c) = SlangParams(xs)
<1> DEFINE vls == table["varLayout"]
           us  == pool["u32"]
           at(k) == us[c.off + k]
           A == {k \in 1 .. c.count : at(k) < Len(vls)}
           f == [k \in A |-> DecodeParam(vls[at(k) + 1])]
           g == [k \in NonNull(xs) |-> SlangParam(xs[k])]
<1>1. TableSpan("varLayout") = vls /\ TableSpan("u32") = us /\ "varLayout" \in Kinds
      /\ Len(vls) \in Nat /\ Invalid \in Nat
  BY ItemFacts, ReflectionAssumption DEF Complete, Kinds
<1>2. c.count = Len(xs) /\ DOMAIN xs = 1 .. Len(xs) /\ \A k \in 1 .. Len(xs) : NamesIn(index, at(k), xs[k])
  BY DEF ListedIn
<1>3. ASSUME NEW k \in 1 .. Len(xs)
      PROVE  /\ at(k) < Len(vls) <=> xs[k] # Nil
             /\ xs[k] # Nil => DecodeParam(vls[at(k) + 1]) = SlangParam(xs[k])
  <2>1. xs[k] \in Pointers(prog, {"varLayout"}) /\ NamesIn(index, at(k), xs[k])
    BY <1>2
  <2> DEFINE i == at(k)
             x == xs[k]
  <2>2. /\ x = Nil => i = Invalid /\ i >= Len(vls)
        /\ x # Nil => /\ x \in DOMAIN prog /\ prog[x].kind = "varLayout" /\ i < Len(vls)
                      /\ RowDone(prog, x, vls[i + 1], index, pool)
    BY SMTT(60), <2>1, <1>1, IndexRead
  <2> HIDE DEF i, x
  <2>3. x = Nil => ~(i < Len(vls))
    BY <2>2, <1>1
  <2>4. x # Nil => DecodeParam(vls[i + 1]) = SlangParam(x)
    BY <2>2, ParamRead
  <2> QED
    BY <2>2, <2>3, <2>4 DEF i, x
<1>4. A = NonNull(xs)
  BY <1>2, <1>3 DEF NonNull
<1>5. \A k \in NonNull(xs) : DecodeParam(vls[at(k) + 1]) = SlangParam(xs[k])
  BY <1>2, <1>3 DEF NonNull
<1>6. f = g
  BY <1>4, <1>5
<1>7. DecodeParams(c) = PushBacks(f, c.count)
  BY <1>1 DEF DecodeParams
<1>8. SlangParams(xs) = PushBacks(g, Len(xs))
  BY DEF SlangParams
<1> HIDE DEF f, g
<1> QED
  BY <1>2, <1>6, <1>7, <1>8

-----------------------------------------------------------------------------
(* The global parameters and the hashed strings.                           *)

\* Without a section there is nothing to read.
LEMMA NoneRead ==
    ASSUME ~Written
    PROVE  /\ ~HasHeader /\ DecodedGlobalParameters = <<>>
           /\ \A k \in Nat : HashedString(k) = Nil
<1>1. file = NoFile
  BY DEF Written
<1>2. ~HasHeader
  BY <1>1 DEF NoFile, HasHeader, HeaderSize
<1>3. TableSpan("hashedStr") = <<>>
  BY <1>2 DEF TableSpan
<1>4. \A k \in Nat : k >= Len(<<>>)
  BY EmptySeqs
<1> QED
  BY <1>2, <1>3, <1>4 DEF HashedString, DecodedGlobalParameters

LEMMA HashRead ==
    ASSUME Complete, FileIs(prog, file, index, table, pool), NEW k \in DOMAIN Root.hashed
    PROVE  HashedString(k - 1) = Root.hashed[k]
<1> DEFINE hs == pool["hashedStr"]
           x  == Root.hashed[k]
<1>1. TableSpan("hashedStr") = hs /\ prog \in Programs /\ hs \in Seq(Nat)
      /\ Len(pool["string"]) \in Nat /\ Invalid \in Nat
  BY ItemFacts, ReflectionAssumption DEF Complete, PoolsOK
<1>2. Root.hashed \in Seq(Text \cup {Nil})
  BY <1>1, TypedRoot DEF Root
<1>3. k \in Nat /\ k >= 1 /\ k <= Len(Root.hashed) /\ Len(Root.hashed) \in Nat
  BY <1>2
<1>4. Len(hs) = Len(Root.hashed) /\ HashIs(pool, k, x)
  BY <1>3 DEF FileIs, Hashes, Root
<1>5. (k - 1) + 1 = k /\ ~(k - 1 >= Len(hs))
  BY <1>3, <1>4
<1>6. HashedString(k - 1) = String(hs[k])
  BY <1>1, <1>5 DEF HashedString
<1>7. hs[k] \in Nat
  BY <1>1, <1>3, <1>4
<1>8. StringIs(pool["string"], hs[k], x)
  BY <1>4, <1>7 DEF HashIs, StringIs
<1> QED
  BY <1>6, <1>8, StringRead

\* The fields of the global scope.
GlobalFields ==
    IF Root.global = Nil THEN <<>>
    ELSE LET tl == prog[Root.global].typeLayout
         IN  IF tl = Nil \/ prog[tl].shape # "struct" THEN <<>> ELSE prog[tl].fields

LEMMA NoParams == SlangParams(<<>>) = <<>>
<1>1. Len(<<>>) = 0 /\ 0 \in Nat
  BY EmptySeqs
<1>2. \A xs : PushBacks(xs, 0) = <<>>
  BY <1>1, PushBacksNext
<1> QED
  BY <1>1, <1>2 DEF SlangParams

LEMMA GlobalsRead ==
    ASSUME Complete, FileIs(prog, file, index, table, pool)
    PROVE  DecodedGlobalParameters = SlangParams(GlobalFields)
<1> DEFINE vls == table["varLayout"]
           tls == table["typeLayout"]
           g   == Root.global
           x   == prog[g]
<1>1. prog \in Programs /\ PoolsOK(pool) /\ HasHeader /\ TableSpan("varLayout") = vls
      /\ TableSpan("typeLayout") = tls /\ "varLayout" \in Kinds /\ "typeLayout" \in Kinds
      /\ Len(vls) \in Nat /\ Len(tls) \in Nat
  BY DEF Complete, Kinds
<1>2. g \in Pointers(prog, {"varLayout"})
  BY <1>1, TypedRoot DEF Root
<1>3. NamesIn(index, file.global, g)
  BY DEF FileIs, Root
<1>4. /\ g = Nil => file.global = Invalid /\ file.global >= Len(vls)
      /\ g # Nil => /\ g \in DOMAIN prog /\ prog[g].kind = "varLayout"
                    /\ ~(file.global >= Len(vls)) /\ file.global # Invalid
                    /\ RowDone(prog, g, vls[file.global + 1], index, pool)
  BY <1>1, <1>2, <1>3, IndexRead
<1>5. CASE g = Nil
  <2>1. DecodedGlobalParameters = <<>>
    BY <1>1, <1>4, <1>5 DEF DecodedGlobalParameters
  <2> QED
    BY <2>1, <1>5, NoParams DEF GlobalFields
<1>6. CASE g # Nil
  <2> DEFINE r == vls[file.global + 1]
             t == x.typeLayout
             y == prog[t]
  <2>1. NamesIn(index, r.typeLayout, t) /\ t \in Pointers(prog, {"typeLayout"})
    BY SMTT(60), <1>1, <1>4, <1>6, VarLayoutRow, VarLayoutWords
  <2>2. /\ t = Nil => r.typeLayout >= Len(tls)
        /\ t # Nil => /\ t \in DOMAIN prog /\ prog[t].kind = "typeLayout" /\ ~(r.typeLayout >= Len(tls))
                      /\ RowDone(prog, t, tls[r.typeLayout + 1], index, pool)
    BY SMTT(60), <1>1, <2>1, IndexRead
  <2>3. DecodedGlobalParameters =
          IF r.typeLayout >= Len(tls) THEN <<>> ELSE DecodeParams(tls[r.typeLayout + 1].fields)
    BY <1>1, <1>4, <1>6 DEF DecodedGlobalParameters
  <2>4. GlobalFields = IF t = Nil \/ y.shape # "struct" THEN <<>> ELSE y.fields
    BY <1>6 DEF GlobalFields
  <2> HIDE DEF r
  <2>5. CASE t = Nil
    BY <2>2, <2>3, <2>4, <2>5, NoParams
  <2>6. CASE t # Nil
    <3> DEFINE fs == IF y.shape = "struct" THEN y.fields ELSE <<>>
               c  == tls[r.typeLayout + 1].fields
    <3>1. ListedIn(index, pool, c, fs)
      BY <1>1, <2>2, <2>6, TypeLayoutRow
    <3>2. y.kind = "typeLayout" /\ Typed(prog, y)
      BY SMTT(60), <1>1, <2>2, <2>6, ProgramFacts
    <3>3. y.fields \in Seq(Pointers(prog, {"varLayout"}))
      BY <3>2 DEF Typed
    <3>4. fs \in Seq(Pointers(prog, {"varLayout"}))
      BY <3>3, EmptySeqs
    <3>5. GlobalFields = fs
      BY <2>4, <2>6
    <3>6. DecodedGlobalParameters = DecodeParams(c)
      BY <2>2, <2>3, <2>6
    <3> HIDE DEF fs, c
    <3> QED
      BY <3>1, <3>4, <3>5, <3>6, ParamsRead
  <2> QED
    BY <2>5, <2>6
<1> QED
  BY <1>5, <1>6

LEMMA GlobalsAre ==
    ASSUME Shape, Progress, ViewInv
    PROVE  GlobalsDecoded
<1> SUFFICES ASSUME Fits PROVE GlobalsDecoded
  BY DEF GlobalsDecoded
<1>1. CASE ~Written
  <2>1. prog \in Programs
    BY DEF Shape
  <2>2. Root.hashed \in Seq(Text \cup {Nil})
    BY <2>1, TypedRoot DEF Root
  <2>3. \A k \in DOMAIN Root.hashed : k - 1 \in Nat
    BY <2>2
  <2> QED
    BY <1>1, <2>3, NoneRead DEF GlobalsDecoded
<1>2. CASE Written
  <2>1. Complete /\ FileIs(prog, file, index, table, pool)
    BY <1>2, WrittenComplete DEF ViewInv
  <2>2. \A k \in DOMAIN Root.hashed : HashedString(k - 1) = Root.hashed[k]
    BY <2>1, HashRead
  <2>3. DecodedGlobalParameters = SlangParams(GlobalFields)
    BY <2>1, GlobalsRead
  <2>4. SlangParams(GlobalFields) =
          IF Root.global = Nil THEN <<>>
          ELSE LET tl == prog[Root.global].typeLayout
               IN  IF tl = Nil \/ prog[tl].shape # "struct" THEN <<>> ELSE SlangParams(prog[tl].fields)
    BY NoParams DEF GlobalFields
  <2> QED
    BY <1>2, <2>2, <2>3, <2>4 DEF GlobalsDecoded
<1> QED
  BY <1>1, <1>2

\* A reader of the section sees the global parameters that Slang has: the
\* fields of the global scope in their order, each with its own name, space,
\* offset and size; an entry without a section has none.  The strings Slang
\* hashed come back in their order.
THEOREM GlobalsComeBack == Spec => []GlobalsDecoded
<1>1. Shape /\ Progress /\ ViewInv => GlobalsDecoded
  BY GlobalsAre
<1> QED
  BY <1>1, ViewInvariant, PTL

-----------------------------------------------------------------------------
(* The tree of declarations is read back.                                  *)

LEMMA SubSeqIs ==
    ASSUME NEW us \in Seq(Nat), NEW off \in Nat, NEW n \in Nat, off + n <= Len(us)
    PROVE  LET s == SubSeq(us, off + 1, off + n)
           IN  Len(s) = n /\ \A k \in 1 .. n : s[k] = us[off + k]
<1> DEFINE s == SubSeq(us, off + 1, off + n)
<1>1. Len(us) \in Nat
  OBVIOUS
<1>2. Len(s) = n
  <2>1. Len(s) = IF off + 1 <= off + n THEN (off + n) - (off + 1) + 1 ELSE 0
    BY <1>1
  <2> QED
    BY <2>1
<1>3. ASSUME NEW k \in 1 .. n PROVE s[k] = us[off + k]
  <2>1. k \in 1 .. (off + n + 1 - (off + 1)) /\ off + 1 + k - 1 = off + k
    BY <1>1
  <2>2. s[k] = us[off + 1 + k - 1]
    BY <2>1, <1>1
  <2> QED
    BY <2>1, <2>2
<1> QED
  BY <1>2, <1>3

\* What Decl returns as the children of a declaration with slice c.
ChildrenAt(c) ==
    LET words == TableSpan("u32")
    IN  IF c.off + c.count <= Len(words) THEN SubSeq(words, c.off + 1, c.off + c.count) ELSE <<>>

LEMMA ChildrenRead ==
    ASSUME Complete, NEW c \in Slices, NEW xs, Len(xs) \in Nat, DOMAIN xs = 1 .. Len(xs),
           c.count = Len(xs), c.count > 0 => c.off + c.count <= Len(pool["u32"]),
           ListedIn(index, pool, c, xs)
    PROVE  /\ Len(ChildrenAt(c)) = Len(xs)
           /\ \A k \in DOMAIN xs : NamesIn(index, ChildrenAt(c)[k], xs[k])
<1> DEFINE us == pool["u32"]
<1>1. TableSpan("u32") = us /\ us \in Seq(Nat) /\ c.off \in Nat /\ c.count \in Nat /\ Len(us) \in Nat
  BY SMTT(60), ItemFacts DEF Complete, PoolsOK, Slices
<1>2. \A k \in DOMAIN xs : NamesIn(index, us[c.off + k], xs[k])
  BY DEF ListedIn
<1>3. ChildrenAt(c) = IF c.off + c.count <= Len(us) THEN SubSeq(us, c.off + 1, c.off + c.count) ELSE <<>>
  BY <1>1 DEF ChildrenAt
<1>4. c.count > 0 => c.off + c.count <= Len(us)
  OBVIOUS
<1> HIDE DEF us
<1>5. CASE c.off + c.count <= Len(us)
  <2> DEFINE s == SubSeq(us, c.off + 1, c.off + c.count)
  <2>1. Len(s) = c.count /\ \A k \in 1 .. c.count : s[k] = us[c.off + k]
    BY ZenonT(60), <1>1, <1>5, SubSeqIs
  <2>2. ChildrenAt(c) = s
    BY <1>3, <1>5
  <2> HIDE DEF s
  <2> QED
    BY <2>1, <2>2, <1>2
<1>6. CASE ~(c.off + c.count <= Len(us))
  <2>1. c.count = 0 /\ ChildrenAt(c) = <<>>
    BY <1>1, <1>3, <1>4, <1>6
  <2>2. DOMAIN xs = {} /\ Len(ChildrenAt(c)) = 0
    BY <2>1, EmptySeqs
  <2> QED
    BY <2>1, <2>2
<1> QED
  BY <1>5, <1>6

LEMMA DeclRead ==
    ASSUME Complete, NEW o \in DOMAIN index, IsDecl(prog, o)
    PROVE  LET d == Decl(index[o])
               x == prog[o]
           IN  /\ d.name = x.name /\ d.parent = table["decl"][index[o] + 1].parent
               /\ Len(d.children) = Len(x.children)
               /\ \A k \in DOMAIN x.children : NamesIn(index, d.children[k], x.children[k])
<1> DEFINE x  == prog[o]
           sc == Script(prog, o)
           r  == table["decl"][index[o] + 1]
           c  == r["children"]
<1>1. prog \in Programs /\ o \in DOMAIN prog /\ PoolsOK(pool) /\ TableSpan("decl") = table["decl"]
  BY DEF Complete, IndexOK, Indexed, Kinds
<1>2. RowDone(prog, o, r, index, pool)
  BY DEF Complete, IsDecl
<1>3. Len(sc) = 3 /\ sc[1] = Name("name", x.name) /\ sc[3] = List("children", x.children)
  BY <1>1, DeclSteps
<1>4. StepDone(prog, o, 1, r, index, pool) /\ StepDone(prog, o, 3, r, index, pool)
  BY <1>2, <1>3 DEF RowDone
<1>5. Decl(index[o]) = [name |-> String(r.name), parent |-> r.parent, payload |-> r.payload,
                        children |-> ChildrenAt(r.children)]
  BY <1>1 DEF Decl, ChildrenAt
<1>6. x.children \in Seq(Pointers(prog, {"decl"}))
  BY <1>1, ProgramFacts DEF Typed, IsDecl
<1> HIDE DEF r
<1>7. String(r["name"]) = x.name
  <2>1. StringIs(pool["string"], r["name"], x.name)
    BY <1>3, <1>4, NameDone
  <2> QED
    BY <2>1, StringRead
<1>8. Len(x.children) \in Nat /\ DOMAIN x.children = 1 .. Len(x.children)
  BY <1>6
<1>9. ListedIn(index, pool, c, x.children)
  BY <1>3, <1>4, <1>8, ListDone
<1>10. c \in Slices /\ c.count = Len(x.children) /\ (c.count > 0 => c.off + c.count <= Len(pool["u32"]))
  <2> DEFINE s == sc[3]
  <2>1. s.op = "list" /\ s.field = "children" /\ s.to = x.children /\ s.data = <<>>
    BY SMTT(60), <1>3 DEF List, Step
  <2>2. s.op = "list" =>
          /\ r[s.field] \in Slices /\ r[s.field].count = Len(s.to) + Len(s.data)
          /\ r[s.field].count > 0 => r[s.field].off + r[s.field].count <= Len(pool["u32"])
    BY <1>4 DEF StepDone
  <2> HIDE DEF s
  <2>3. c \in Slices /\ c.count = Len(x.children) + 0
        /\ (c.count > 0 => c.off + c.count <= Len(pool["u32"]))
    BY <2>1, <2>2, EmptySeqs
  <2> QED
    BY <2>3, <1>8
<1> HIDE DEF c
<1>11. Len(ChildrenAt(c)) = Len(x.children)
       /\ \A k \in DOMAIN x.children : NamesIn(index, ChildrenAt(c)[k], x.children[k])
  BY <1>8, <1>9, <1>10, ChildrenRead
<1>12. Decl(index[o]).name = x.name /\ Decl(index[o]).children = ChildrenAt(c)
       /\ Decl(index[o]).parent = r.parent
  BY <1>5, <1>7 DEF c
<1> QED
  BY <1>11, <1>12 DEF r

\* When nothing is on the stack, every declaration's row names its parent.
LEMMA ParentRead ==
    ASSUME Shape, ViewInv, Written, NEW o \in DOMAIN index, IsDecl(prog, o)
    PROVE  ParentIs(prog, index, o, table["decl"][index[o] + 1]) /\ ModuleFirst(prog, index)
<1>1. stack = <<>>
  BY DEF Shape, Written
<1>2. Decls(prog, stack, index, table)
  BY DEF ViewInv, ViewState
<1>3. Len(stack) = 0
  BY <1>1, EmptySeqs
<1>4. ~OnStack(o, stack)
  BY <1>3 DEF OnStack
<1> QED
  BY <1>2, <1>4 DEF Decls

LEMMA DeclTreeIs ==
    ASSUME Shape, Progress, ViewInv
    PROVE  DeclTreeDecoded
<1> SUFFICES ASSUME Written, Fits, NEW o \in DOMAIN index, IsDecl(prog, o), NEW d, d = Decl(index[o]),
                    NEW x, x = prog[o]
             PROVE  /\ d.name = x.name
                    /\ o = Root.module => RootDecl = d /\ d.parent = Invalid
                    /\ Len(d.children) = Len(x.children)
                    /\ \A k \in DOMAIN x.children :
                         /\ Names(d.children[k], x.children[k])
                         /\ x.children[k] # Nil => Decl(d.children[k]).parent = index[o]
  BY DEF DeclTreeDecoded, IsDecl
<1>1. Complete
  BY WrittenComplete
<1>2. /\ d.name = x.name /\ d.parent = table["decl"][index[o] + 1].parent
      /\ Len(d.children) = Len(x.children)
      /\ \A k \in DOMAIN x.children : NamesIn(index, d.children[k], x.children[k])
  BY <1>1, DeclRead
<1>3. prog \in Programs /\ IndexOK(prog, index, table) /\ TableSpan("decl") = table["decl"]
      /\ DOMAIN index \subseteq DOMAIN prog
  BY <1>1 DEF Complete, Kinds, IndexOK, Indexed
<1>4. ASSUME o = Root.module PROVE RootDecl = d /\ d.parent = Invalid
  <2>1. ParentIs(prog, index, o, table["decl"][index[o] + 1]) /\ ModuleFirst(prog, index)
    BY ParentRead
  <2>2. d.parent = Invalid
    BY <2>1, <1>2, <1>4 DEF ParentIs, Root
  <2>3. index[o] = 0
    BY <2>1, <1>4 DEF ModuleFirst, Root
  <2>4. 0 < Len(table["decl"])
    BY <2>3, <1>3 DEF IndexOK, IsDecl
  <2>5. table["decl"] # <<>>
    BY <2>4, EmptySeqs
  <2> QED
    BY <2>2, <2>3, <2>5, <1>3 DEF RootDecl
<1>5. ASSUME NEW k \in DOMAIN x.children
      PROVE  /\ Names(d.children[k], x.children[k])
             /\ x.children[k] # Nil => Decl(d.children[k]).parent = index[o]
  <2> DEFINE e == x.children[k]
  <2>1. NamesIn(index, d.children[k], e)
    BY <1>2
  <2>2. Names(d.children[k], e)
    BY <2>1 DEF Names, NamesIn
  <2>3. ASSUME e # Nil PROVE Decl(d.children[k]).parent = index[o]
    <3>1. e \in DOMAIN index /\ d.children[k] = index[e]
      BY <2>1, <2>3 DEF NamesIn
    <3>2. IsDecl(prog, e)
      <4>1. x.children \in Seq(Pointers(prog, {"decl"}))
        BY <1>3, ProgramFacts DEF Typed, IsDecl
      <4>2. e \in Pointers(prog, {"decl"})
        BY <4>1
      <4> QED
        BY <4>2, <2>3 DEF Pointers, IsDecl
    <3>3. ParentIs(prog, index, e, table["decl"][index[e] + 1])
      BY <3>1, <3>2, ParentRead
    <3>4. o \in DOMAIN prog /\ Parent(prog, o, e)
      BY <1>3 DEF Parent
    <3>5. table["decl"][index[e] + 1]["parent"] = index[o]
      BY <3>3, <3>4 DEF ParentIs
    <3>6. Decl(index[e]).parent = table["decl"][index[e] + 1].parent
      BY <1>1, <3>1, <3>2, DeclRead
    <3> QED
      BY <3>1, <3>5, <3>6
  <2> QED
    BY <2>2, <2>3
<1> QED
  BY <1>2, <1>4, <1>5

\* A reader of the section can walk the declarations: the one rootDecl
\* returns is the module's, every declaration has its name and the indices of
\* its children in their order, and each child names it as its parent.
THEOREM DeclTreeComesBack == Spec => []DeclTreeDecoded
<1>1. Shape /\ Progress /\ ViewInv => DeclTreeDecoded
  BY DeclTreeIs
<1> QED
  BY <1>1, ViewInvariant, PTL

-----------------------------------------------------------------------------
(* The entry points are read back.                                         *)

\* What DecodedEntryPoints has for the attribute in row j.
AttrAt(j) ==
    LET row == TableSpan("attr")[j]
    IN  [name |-> String(row.name), args |-> SubSeq(TableSpan("attrArg"), row.off + 1, row.off + row.count)]

SlangAttr(a) == IF a = Nil THEN [name |-> Nil, args |-> <<>>] ELSE a

LEMMA AttrRead ==
    ASSUME Complete, NEW j \in Nat \ {0}, NEW a \in Attributes, AttrIs(pool, j, a)
    PROVE  AttrAt(j) = SlangAttr(a)
<1> DEFINE ats  == pool["attr"]
           args == pool["attrArg"]
           r    == ats[j]
<1>1. /\ TableSpan("attr") = ats /\ TableSpan("attrArg") = args /\ ats \in Seq([name : Nat, off : Nat, count : Nat])
      /\ args \in Seq(Nat) /\ Invalid \in Nat /\ Nil \notin Text
  BY ItemFacts, ReflectionAssumption DEF Complete, PoolsOK
<1>2. j <= Len(ats)
  BY DEF AttrIs
<1>3. r \in [name : Nat, off : Nat, count : Nat]
  <2> DEFINE R == [name : Nat, off : Nat, count : Nat]
  <2>1. ats \in Seq(R) /\ Len(ats) \in Nat
    BY <1>1
  <2> HIDE DEF ats, R
  <2>2. j \in 1 .. Len(ats)
    BY <2>1, <1>2
  <2>3. ats[j] \in R
    BY <2>1, <2>2
  <2> QED
    BY <2>3 DEF R
<1>4. AttrAt(j) = [name |-> String(r.name), args |-> SubSeq(args, r.off + 1, r.off + r.count)]
  BY <1>1 DEF AttrAt
<1>5. /\ a = Nil => r = [name |-> Invalid, off |-> 0, count |-> 0]
      /\ a # Nil =>
           /\ r.name < Len(pool["string"]) /\ pool["string"][r.name + 1] = a.name
           /\ r.count = Len(a.args) /\ r.off + r.count <= Len(args)
           /\ \A i \in 1 .. Len(a.args) : args[r.off + i] = a.args[i]
  BY DEF AttrIs
<1> HIDE DEF r
<1>6. CASE a = Nil
  <2>1. r.name = Invalid /\ r.off = 0 /\ r.count = 0
    BY <1>5, <1>6
  <2>2. StringIs(pool["string"], r.name, Nil)
    BY <2>1 DEF StringIs
  <2>3. String(r.name) = Nil
    BY <2>2, StringRead
  <2>4. Follows(args, 0, <<>>) /\ <<>> \in Seq(Nat)
    BY EmptySeqs DEF Follows
  <2>5. SubSeq(args, 0 + 1, 0 + Len(<<>>)) = <<>>
    BY <2>4, <1>1, SliceIs
  <2>6. SubSeq(args, r.off + 1, r.off + r.count) = <<>>
    BY <2>1, <2>5, EmptySeqs
  <2> QED
    BY <1>4, <1>6, <2>3, <2>6 DEF SlangAttr
<1>7. CASE a # Nil
  <2>1. a \in [name : Text, args : Seq(Nat)]
    BY <1>7 DEF Attributes
  <2>2. a.name # Nil /\ a.args \in Seq(Nat) /\ a = [name |-> a.name, args |-> a.args]
    BY <2>1, <1>1
  <2>3. r.name \in Nat /\ r.off \in Nat
    BY <1>3
  <2>4. StringIs(pool["string"], r.name, a.name)
    BY <1>5, <1>7, <2>2, <2>3 DEF StringIs
  <2>5. String(r.name) = a.name
    BY <2>4, StringRead
  <2>6. Follows(args, r.off, a.args)
    BY <1>5, <1>7 DEF Follows
  <2>7. SubSeq(args, r.off + 1, r.off + Len(a.args)) = a.args
    BY <2>2, <2>3, <2>6, <1>1, SliceIs
  <2>8. r.count = Len(a.args)
    BY <1>5, <1>7
  <2> QED
    BY <1>4, <1>7, <2>2, <2>5, <2>7, <2>8 DEF SlangAttr
<1> QED
  BY <1>6, <1>7

LEMMA SeqFacts ==
    \A S, s : s \in Seq(S) =>
      Len(s) \in Nat /\ DOMAIN s = 1 .. Len(s) /\ \A k \in 1 .. Len(s) : s[k] \in S
  OBVIOUS

\* The calls for an entry point, and what its fields are.
LEMMA EntrySteps ==
    ASSUME NEW p \in Programs, NEW o \in EntryPointsOf(p)
    PROVE  LET x  == p[o]
               sc == Script(p, o)
               as == Annotated(p, x.function).attrs
           IN  /\ Len(sc) = 7 /\ sc[1] = Name("name", x.name) /\ sc[6] = List("params", x.params)
               /\ sc[2] = Ref("varLayout", x.varLayout) /\ sc[3] = Ref("typeLayout", x.typeLayout)
               /\ sc[4] = Ref("resultLayout", x.resultLayout) /\ sc[5] = Ref("function", x.function)
               /\ sc[7] = Attrs(as) /\ as \in Seq(Attributes)
               /\ x.params \in Seq(Pointers(p, {"varLayout"}))
<1> DEFINE x  == p[o]
           sc == Script(p, o)
           f  == x.function
           y  == Annotated(p, f)
<1>1. o \in DOMAIN p /\ x.kind = "entryPoint" /\ Typed(p, x)
  BY ProgramFacts DEF EntryPointsOf
<1>2. f \in Pointers(p, {"func"}) /\ x.params \in Seq(Pointers(p, {"varLayout"}))
  BY <1>1 DEF Typed
<1>3. y.attrs \in Seq(Attributes)
  BY <1>2, AnnotatedOK
<1>4. sc = AddEntryPoint(x, y)
  BY <1>1 DEF Script
<1> HIDE DEF y
<1>5. sc = <<Name("name", x.name), Ref("varLayout", x.varLayout), Ref("typeLayout", x.typeLayout),
             Ref("resultLayout", x.resultLayout), Ref("function", x.function),
             List("params", x.params), Attrs(y.attrs)>>
  BY <1>4 DEF AddEntryPoint
<1> HIDE DEF sc
<1>6. /\ Len(sc) = 7 /\ sc[1] = Name("name", x.name) /\ sc[6] = List("params", x.params)
      /\ sc[2] = Ref("varLayout", x.varLayout) /\ sc[3] = Ref("typeLayout", x.typeLayout)
      /\ sc[4] = Ref("resultLayout", x.resultLayout) /\ sc[5] = Ref("function", f)
      /\ sc[7] = Attrs(y.attrs)
  BY <1>5
<1> QED
  BY <1>2, <1>3, <1>6 DEF y, sc

\* The attributes in a full row, from the step that puts them there.
LEMMA AttrsAt ==
    ASSUME NEW p, NEW o, NEW row, NEW ix, NEW pl, FullRow(p, o, row, ix, pl),
           NEW m \in 1 .. Len(Script(p, o)), NEW as, Script(p, o)[m] = Attrs(as)
    PROVE  LET c == row["attributes"]
           IN  /\ c \in Slices /\ c.count = Len(as)
               /\ \A k \in 1 .. Len(as) : AttrIs(pl, c.off + k, as[k])
<1> DEFINE s == Script(p, o)[m]
<1>1. s.op = "attrs" /\ s.field = "attributes" /\ s.data = as
  BY DEF Attrs, Step
<1>2. StepDone(p, o, m, row, ix, pl) /\ AttrsStored(p, o, m, row, pl)
  BY DEF FullRow, RowDone
<1>3. s.op = "attrs" => row[s.field] \in Slices /\ row[s.field].count = Len(s.data)
  BY <1>2 DEF StepDone
<1>4. s.op = "attrs" => \A k \in 1 .. Len(s.data) : AttrIs(pl, row[s.field].off + k, s.data[k])
  BY <1>2 DEF AttrsStored
<1> HIDE DEF s
<1> QED
  BY <1>1, <1>3, <1>4

\* What DecodedEntryPoints has for a row, and what Slang has for the object.
EntryAt(row) ==
    [name       |-> String(row.name),
     parameters |-> DecodeParams(row.params),
     attributes |-> [a \in 1 .. row.attributes.count |-> AttrAt(row.attributes.off + a)]]

SlangEntry(o) ==
    [name       |-> prog[o].name,
     parameters |-> SlangParams(prog[o].params),
     attributes |-> SlangAttrs(prog[o].function)]

LEMMA EntryRead ==
    ASSUME Complete, NEW o \in EntryPointsOf(prog), NEW row, FullRow(prog, o, row, index, pool)
    PROVE  EntryAt(row) = SlangEntry(o)
<1> DEFINE x  == prog[o]
           sc == Script(prog, o)
           as == Annotated(prog, x.function).attrs
<1>1. prog \in Programs
  BY DEF Complete
<1>2. /\ Len(sc) = 7 /\ sc[1] = Name("name", x.name) /\ sc[6] = List("params", x.params)
      /\ sc[7] = Attrs(as) /\ as \in Seq(Attributes)
      /\ x.params \in Seq(Pointers(prog, {"varLayout"}))
  BY <1>1, EntrySteps
<1>3. \A m \in 1 .. 7 : StepDone(prog, o, m, row, index, pool) /\ AttrsStored(prog, o, m, row, pool)
  BY <1>2 DEF FullRow, RowDone
<1> HIDE DEF sc, as
<1>4. String(row["name"]) = x.name
  <2>1. StringIs(pool["string"], row["name"], x.name)
    BY <1>2, <1>3, NameDone DEF sc
  <2> QED
    BY <2>1, StringRead
<1>5. DecodeParams(row["params"]) = SlangParams(x.params)
  <2>1. Len(x.params) \in Nat /\ DOMAIN x.params = 1 .. Len(x.params)
    BY <1>2
  <2>2. ListedIn(index, pool, row["params"], x.params)
    BY <1>2, <1>3, <2>1, ListDone DEF sc
  <2> QED
    BY <1>2, <2>2, ParamsRead
<1> DEFINE c == row["attributes"]
<1>6. c \in Slices /\ c.count = Len(as)
      /\ \A k \in 1 .. Len(as) : AttrIs(pool, c.off + k, as[k])
  <2>1. 7 \in 1 .. Len(Script(prog, o)) /\ Script(prog, o)[7] = Attrs(as)
    BY <1>2 DEF sc
  <2>2. PICK m \in 1 .. Len(Script(prog, o)) : Script(prog, o)[m] = Attrs(as)
    BY <2>1, Zenon
  <2> QED
    BY <2>2, AttrsAt
<1> HIDE DEF c
<1>7. c.off \in Nat /\ DOMAIN as = 1 .. c.count /\ as \in Seq(Attributes) /\ Len(as) \in Nat
  <2>1. as \in Seq(Attributes)
    BY <1>2
  <2>2. DOMAIN as = 1 .. Len(as) /\ Len(as) \in Nat
    BY <2>1, SeqFacts, Zenon
  <2>3. c.off \in Nat
    BY <1>6 DEF Slices
  <2> QED
    BY <2>1, <2>2, <2>3, <1>6
<1>8. \A k \in 1 .. c.count : AttrAt(c.off + k) = SlangAttr(as[k])
  <2> TAKE k \in 1 .. c.count
  <2>1. k \in 1 .. Len(as)
    BY <1>6
  <2>2. as[k] \in Attributes
    BY <2>1, <1>7, SeqFacts, Zenon
  <2>3. c.off + k \in Nat \ {0}
    BY <2>1, <1>7
  <2>4. AttrIs(pool, c.off + k, as[k])
    BY <2>1, <1>6
  <2> QED
    BY <2>2, <2>3, <2>4, AttrRead
<1>9. [k \in 1 .. c.count |-> AttrAt(c.off + k)] = [k \in DOMAIN as |-> SlangAttr(as[k])]
  BY <1>7, <1>8
<1>10. SlangAttrs(x.function) = [k \in DOMAIN as |-> SlangAttr(as[k])]
  BY DEF SlangAttrs, SlangAttr, as
<1>11. [a \in 1 .. row["attributes"].count |-> AttrAt(row["attributes"].off + a)] = SlangAttrs(x.function)
  BY <1>9, <1>10 DEF c
<1> QED
  BY <1>4, <1>5, <1>11 DEF EntryAt, SlangEntry

LEMMA EntriesAre ==
    ASSUME Shape, Progress, ViewInv
    PROVE  EntryPointsDecoded
<1> SUFFICES ASSUME Written, Fits PROVE EntryPointsDecoded
  BY DEF EntryPointsDecoded
<1> DEFINE all == Root.entryPoints
           es  == EntryPoints(prog, Len(all))
           eps == table["entryPoint"]
<1>1. Complete /\ FileIs(prog, file, index, table, pool)
  BY WrittenComplete DEF ViewInv
<1>2. prog \in Programs /\ TableSpan("entryPoint") = eps /\ DOMAIN eps = 1 .. Len(eps)
  BY <1>1 DEF Complete, TablesOK, Kinds
<1>3. EntryRows(prog, es, eps, index, pool)
  BY <1>1 DEF FileIs, Root
<1>4. es \in Seq(EntryPointsOf(prog))
  <2>1. Len(all) \in Nat
    BY <1>2, BaseFacts DEF Root
  <2>2. Len(all) \in 0 .. Len(all)
    BY <2>1
  <2> QED
    BY <1>2, <2>2, EntryPointsAre DEF Root
<1>5. es = PushBacks([k \in NonNull(all) |-> all[k]], Len(all))
  BY DEF EntryPoints, Root
<1> HIDE DEF es, eps
<1>6. Len(eps) = Len(es) /\ DOMAIN es = 1 .. Len(es)
      /\ \A e \in 1 .. Len(es) : es[e] \in EntryPointsOf(prog) /\ FullRow(prog, es[e], eps[e], index, pool)
  BY <1>3, <1>4 DEF EntryRows
<1>7. \A e \in 1 .. Len(es) : EntryAt(eps[e]) = SlangEntry(es[e])
  BY SMTT(60), <1>1, <1>6, EntryRead
<1>8. DecodedEntryPoints = [e \in DOMAIN eps |-> EntryAt(eps[e])]
  BY ZenonT(60), <1>2 DEF DecodedEntryPoints, EntryAt, AttrAt
<1>9. DecodedEntryPoints = [e \in DOMAIN es |-> SlangEntry(es[e])]
  BY <1>2, <1>6, <1>7, <1>8
<1> QED
  BY <1>5, <1>9 DEF EntryPointsDecoded, SlangEntry

\* A reader of the section sees the entry points that Slang has, in their
\* order and without the null ones, each with its own name, its parameters'
\* names and registers, and its function's attributes with their arguments.
THEOREM EntryPointsComeBack == Spec => []EntryPointsDecoded
<1>1. Shape /\ Progress /\ ViewInv => EntryPointsDecoded
  BY EntriesAre
<1> QED
  BY <1>1, ViewInvariant, PTL

-----------------------------------------------------------------------------
(* The rows of the tables.                                                 *)

\* What the row lemmas say, in terms of the variables.
LEMMA InTables ==
    /\ \A i, x : NamesIn(index, i, x) <=> Names(i, x)
    /\ \A c, xs : ListedIn(index, pool, c, xs) <=> Lists(c, xs)
    /\ \A q, c, ws : HeldIn(pool, q, c, ws) <=> Holds(c, q, ws)
    /\ \A i, s : StringIs(pool["string"], i, s) => Spells(i, s)
BY DEF NamesIn, Names, ListedIn, Lists, HeldIn, Holds, StringIs, Spells

LEMMA AttrHolds ==
    ASSUME PoolsOK(pool), NEW j, NEW a \in Attributes, AttrIs(pool, j, a), NEW r, r = pool["attr"][j],
           r.off \in Nat, r.name \in Nat
    PROVE  IF a = Nil THEN r.name = Invalid /\ r.count = 0
           ELSE Spells(r.name, a.name) /\ Holds(r, "attrArg", a.args)
<1> DEFINE args == pool["attrArg"]
<1>1. /\ a = Nil => r = [name |-> Invalid, off |-> 0, count |-> 0]
      /\ a # Nil =>
           /\ r.name < Len(pool["string"]) /\ pool["string"][r.name + 1] = a.name
           /\ r.count = Len(a.args) /\ r.off + r.count <= Len(args)
           /\ \A i \in 1 .. Len(a.args) : args[r.off + i] = a.args[i]
  BY DEF AttrIs
<1>2. CASE a = Nil
  BY <1>1, <1>2
<1>3. CASE a # Nil
  <2>1. a.name \in Text /\ a.args \in Seq(Nat) /\ Nil \notin Text
    BY <1>3, ReflectionAssumption DEF Attributes
  <2>2. Spells(r.name, a.name)
    BY <1>1, <1>3, <2>1 DEF Spells
  <2>3. args \in Seq(Nat)
    BY ItemFacts DEF PoolsOK
  <2>4. Follows(args, r.off, a.args)
    BY <1>1, <1>3 DEF Follows
  <2>5. SubSeq(args, r.off + 1, r.off + Len(a.args)) = a.args
    BY <2>1, <2>3, <2>4, SliceIs
  <2>6. Holds(r, "attrArg", a.args)
    BY <2>5, <1>1, <1>3 DEF Holds
  <2> QED
    BY <1>3, <2>2, <2>6
<1> QED
  BY <1>2, <1>3

LEMMA AttrsHeld ==
    ASSUME PoolsOK(pool), NEW o, NEW row, FullRow(prog, o, row, index, pool),
           NEW m \in 1 .. Len(Script(prog, o)), NEW as \in Seq(Attributes),
           Script(prog, o)[m] = Attrs(as)
    PROVE  Attributed(row["attributes"], as)
<1> DEFINE c == row["attributes"]
<1>1. c \in Slices /\ c.count = Len(as) /\ \A k \in 1 .. Len(as) : AttrIs(pool, c.off + k, as[k])
  BY AttrsAt
<1>2. c.off \in Nat
  BY <1>1 DEF Slices
<1> HIDE DEF c
<1>3. Len(as) \in Nat /\ DOMAIN as = 1 .. Len(as) /\ \A k \in 1 .. Len(as) : as[k] \in Attributes
  BY SeqFacts, Zenon
<1>4. ASSUME NEW k \in DOMAIN as
      PROVE  LET row2 == pool["attr"][c.off + k]
             IN  IF as[k] = Nil THEN row2.name = Invalid /\ row2.count = 0
                 ELSE Spells(row2.name, as[k].name) /\ Holds(row2, "attrArg", as[k].args)
  <2> DEFINE r == pool["attr"][c.off + k]
             R == [name : Nat, off : Nat, count : Nat]
  <2>1. k \in 1 .. Len(as)
    BY <1>3, Zenon
  <2>2. k \in Nat \ {0}
    BY <2>1, <1>3
  <2>3. as[k] \in Attributes /\ AttrIs(pool, c.off + k, as[k])
    BY <2>1, <1>1, <1>3, Zenon DEF c
  <2>4. pool["attr"] \in Seq(R)
    BY ItemFacts DEF PoolsOK
  <2>5. c.off + k <= Len(pool["attr"])
    BY <2>3 DEF AttrIs
  <2> DEFINE ats == pool["attr"]
             j   == c.off + k
  <2>6. j \in Nat \ {0} /\ Len(ats) \in Nat /\ j <= Len(ats)
    <3>1. j \in Nat \ {0}
      BY <1>2, <2>2
    <3>2. ats \in Seq(R) /\ j <= Len(ats)
      BY <2>4, <2>5
    <3> HIDE DEF ats, j, R, r
    <3> QED
      BY <3>1, <3>2, SeqFacts, Zenon
  <2>7. r \in R
    <3>1. ats \in Seq(R) /\ r = ats[j]
      BY <2>4
    <3> HIDE DEF ats, j, R, r
    <3>2. j \in 1 .. Len(ats)
      BY <2>6
    <3> QED
      BY <3>1, <3>2, SeqFacts, Zenon
  <2>8. r.off \in Nat /\ r.name \in Nat
    BY <2>7
  <2> HIDE DEF r
  <2>9. r = pool["attr"][c.off + k]
    BY DEF r
  <2> QED
    BY <2>3, <2>8, <2>9, AttrHolds
<1> QED
  BY <1>1, <1>4 DEF Attributed, c

LEMMA TypeStands ==
    ASSUME prog \in Programs, PoolsOK(pool), NEW o \in DOMAIN prog, prog[o].kind = "type", NEW r,
           FullRow(prog, o, r, index, pool)
    PROVE  StandsFor(r, o)
<1> DEFINE x == prog[o]
<1>1. RowDone(prog, o, r, index, pool)
  BY DEF FullRow
<1>2. /\ Spells(r["name"], x.name) /\ Names(r["element"], x.element) /\ Names(r["result"], x.result)
      /\ Lists(r["fields"], IF x.struct THEN x.fields ELSE <<>>)
  BY <1>1, TypeRow, InTables
<1> QED
  BY <1>2 DEF StandsFor

LEMMA VarStands ==
    ASSUME prog \in Programs, PoolsOK(pool), NEW o \in DOMAIN prog, prog[o].kind = "var", NEW r,
           FullRow(prog, o, r, index, pool)
    PROVE  StandsFor(r, o)
<1> DEFINE x == prog[o]
<1>1. RowDone(prog, o, r, index, pool)
  BY DEF FullRow
<1>2. /\ Spells(r["name"], x.name) /\ Names(r["type"], x.type) /\ Names(r["generic"], x.generic)
      /\ Holds(r["modifiers"], "modifier", x.mods)
  BY <1>1, VarRow, InTables
<1>3. Attributed(r["attributes"], x.attrs)
  <2>1. /\ Script(prog, o)[4] = Attrs(x.attrs) /\ 4 \in 1 .. Len(Script(prog, o))
        /\ x.attrs \in Seq(Attributes)
    BY <1>1, VarRow
  <2>2. PICK m \in 1 .. Len(Script(prog, o)) : Script(prog, o)[m] = Attrs(x.attrs)
    BY <2>1, Zenon
  <2> QED
    BY <2>1, <2>2, AttrsHeld
<1> QED
  BY <1>2, <1>3 DEF StandsFor

LEMMA FuncStands ==
    ASSUME prog \in Programs, PoolsOK(pool), NEW o \in DOMAIN prog, prog[o].kind = "func", NEW r,
           FullRow(prog, o, r, index, pool)
    PROVE  StandsFor(r, o)
<1> DEFINE x == prog[o]
<1>1. RowDone(prog, o, r, index, pool)
  BY DEF FullRow
<1>2. /\ Spells(r["name"], x.name) /\ Names(r["result"], x.result) /\ Names(r["generic"], x.generic)
      /\ Lists(r["params"], x.params) /\ Holds(r["modifiers"], "modifier", x.mods)
  BY <1>1, FuncRow, InTables
<1>3. Attributed(r["attributes"], x.attrs)
  <2>1. /\ Script(prog, o)[5] = Attrs(x.attrs) /\ 5 \in 1 .. Len(Script(prog, o))
        /\ x.attrs \in Seq(Attributes)
    BY <1>1, FuncRow
  <2>2. PICK m \in 1 .. Len(Script(prog, o)) : Script(prog, o)[m] = Attrs(x.attrs)
    BY <2>1, Zenon
  <2> QED
    BY <2>1, <2>2, AttrsHeld
<1> QED
  BY <1>2, <1>3 DEF StandsFor

LEMMA GenericStands ==
    ASSUME prog \in Programs, PoolsOK(pool), NEW o \in DOMAIN prog, prog[o].kind = "generic", NEW r,
           FullRow(prog, o, r, index, pool)
    PROVE  StandsFor(r, o)
<1> DEFINE x == prog[o]
<1>1. RowDone(prog, o, r, index, pool)
  BY DEF FullRow
<1>2. /\ Spells(r["name"], x.name) /\ Lists(r["typeParams"], x.typeParams)
      /\ Lists(r["valueParams"], x.valueParams) /\ Lists(r["constraints"], x.constraints)
      /\ Names(r["outer"], x.outer)
  BY <1>1, GenericRow, InTables
<1> QED
  BY <1>2 DEF StandsFor

LEMMA VarLayoutStands ==
    ASSUME prog \in Programs, PoolsOK(pool), NEW o \in DOMAIN prog, prog[o].kind = "varLayout", NEW r,
           FullRow(prog, o, r, index, pool)
    PROVE  StandsFor(r, o)
<1> DEFINE x == prog[o]
<1>1. RowDone(prog, o, r, index, pool)
  BY DEF FullRow
<1>2. /\ Names(r["var"], x.var) /\ Names(r["typeLayout"], x.typeLayout)
      /\ Holds(r["offsets"], "u32", x.offsets) /\ Holds(r["spaces"], "u32", x.spaces)
      /\ Holds(r["modifiers"], "modifier", Annotated(prog, x.var).mods)
  BY <1>1, VarLayoutRow, InTables
<1>3. Attributed(r["attributes"], Annotated(prog, x.var).attrs)
  <2>1. /\ Script(prog, o)[6] = Attrs(Annotated(prog, x.var).attrs) /\ 6 \in 1 .. Len(Script(prog, o))
        /\ Annotated(prog, x.var).attrs \in Seq(Attributes)
    BY <1>1, VarLayoutRow
  <2>2. PICK m \in 1 .. Len(Script(prog, o)) : Script(prog, o)[m] = Attrs(Annotated(prog, x.var).attrs)
    BY <2>1, Zenon
  <2> QED
    BY <2>1, <2>2, AttrsHeld
<1> QED
  BY <1>2, <1>3 DEF StandsFor

LEMMA TypeLayoutStands ==
    ASSUME prog \in Programs, PoolsOK(pool), NEW o \in DOMAIN prog, prog[o].kind = "typeLayout", NEW r,
           FullRow(prog, o, r, index, pool)
    PROVE  StandsFor(r, o)
<1> DEFINE x == prog[o]
<1>1. RowDone(prog, o, r, index, pool)
  BY DEF FullRow
<1>2. /\ Names(r["type"], x.type) /\ Names(r["container"], x.container)
      /\ Names(r["elementLayout"], x.element) /\ Names(r["elementVar"], x.elementVar) /\ Names(r["counter"], x.counter)
      /\ Lists(r["fields"], IF x.shape = "struct" THEN x.fields ELSE <<>>)
      /\ Holds(r["sizes"], "u32", x.sizes)
  BY <1>1, TypeLayoutRow, InTables
<1>4. /\ r["ranges"].count = IF WalkBindingTables(x) THEN Len(x.ranges) ELSE 0
      /\ r["sets"].count = IF WalkBindingTables(x) THEN Len(x.sets) ELSE 0
      /\ r["subs"].count = IF WalkBindingTables(x) THEN Len(x.subs) ELSE 0
  <2>1. SlicesMarked(prog, o, r)
    BY SMTT(60), <1>1, RowMarked DEF IsLayout
  <2> QED
    BY <2>1 DEF SlicesMarked, RangeCount, SetCount, SubCount
<1> QED
  BY <1>2, <1>4 DEF StandsFor

\* The children of a declaration name it as their parent.
LEMMA ParentsNamed ==
    ASSUME prog \in Programs, Decls(prog, <<>>, index, table), NEW o \in DOMAIN index, IsDecl(prog, o),
           IndexOK(prog, index, table), NEW r, r = table["decl"][index[o] + 1],
           Lists(r["children"], prog[o].children)
    PROVE  /\ \A k \in DOMAIN prog[o].children : prog[o].children[k] # Nil =>
                table["decl"][index[prog[o].children[k]] + 1].parent = index[o]
           /\ o = prog["root"].module => r["parent"] = Invalid
<1>1. \A c \in DOMAIN index : IsDecl(prog, c) => ParentIs(prog, index, c, table["decl"][index[c] + 1])
  BY EmptySeqs DEF Decls, OnStack
<1>2. o \in DOMAIN prog /\ prog[o].kind = "decl" /\ Typed(prog, prog[o])
  BY ProgramFacts DEF IndexOK, Indexed, IsDecl
<1>3. prog[o].children \in Seq(Pointers(prog, {"decl"}))
  BY SMTT(60), <1>2 DEF Typed
<1>4. ASSUME NEW k \in DOMAIN prog[o].children, prog[o].children[k] # Nil
      PROVE  table["decl"][index[prog[o].children[k]] + 1].parent = index[o]
  <2> DEFINE c == prog[o].children[k]
  <2>1. c \in Pointers(prog, {"decl"})
    BY <1>3
  <2>2. c \in DOMAIN prog /\ IsDecl(prog, c)
    BY SMTT(60), <2>1, <1>4 DEF Pointers, IsDecl
  <2>3. c \in DOMAIN index
    BY <1>4 DEF Lists, Names
  <2>4. Parent(prog, o, c)
    BY DEF Parent
  <2> HIDE DEF c
  <2>5. ParentIs(prog, index, c, table["decl"][index[c] + 1])
    BY <2>2, <2>3, <1>1
  <2>6. table["decl"][index[c] + 1]["parent"] = index[o]
    BY SMTT(60), <2>4, <2>5, <1>2 DEF ParentIs
  <2> QED
    BY <2>6 DEF c
<1>5. o = prog["root"].module => r["parent"] = Invalid
  BY SMTT(60), <1>1 DEF ParentIs
<1> QED
  BY <1>4, <1>5

LEMMA DeclStands ==
    ASSUME prog \in Programs, PoolsOK(pool), Decls(prog, <<>>, index, table),
           IndexOK(prog, index, table), NEW o \in DOMAIN index, prog[o].kind = "decl",
           NEW r, r = table["decl"][index[o] + 1], FullRow(prog, o, r, index, pool)
    PROVE  StandsFor(r, o)
<1> DEFINE x == prog[o]
<1>1. RowDone(prog, o, r, index, pool) /\ o \in DOMAIN prog
  BY DEF FullRow, IndexOK, Indexed
<1>2. Spells(r["name"], x.name) /\ Names(r["payload"], x.payload) /\ Lists(r["children"], x.children)
  BY SMTT(60), <1>1, DeclRow, InTables
<1>3. /\ \A k \in DOMAIN x.children : x.children[k] # Nil =>
           table["decl"][index[x.children[k]] + 1].parent = index[o]
      /\ o = prog["root"].module => r["parent"] = Invalid
  BY <1>2, ParentsNamed DEF IsDecl
<1> QED
  BY <1>2, <1>3 DEF StandsFor

LEMMA EntryStands ==
    ASSUME prog \in Programs, PoolsOK(pool), NEW o \in EntryPointsOf(prog), NEW r,
           FullRow(prog, o, r, index, pool)
    PROVE  StandsFor(r, o)
<1> DEFINE x  == prog[o]
           sc == Script(prog, o)
           as == Annotated(prog, x.function).attrs
<1>1. /\ Len(sc) = 7 /\ sc[1] = Name("name", x.name) /\ sc[6] = List("params", x.params)
      /\ sc[2] = Ref("varLayout", x.varLayout) /\ sc[3] = Ref("typeLayout", x.typeLayout)
      /\ sc[4] = Ref("resultLayout", x.resultLayout) /\ sc[5] = Ref("function", x.function)
      /\ sc[7] = Attrs(as) /\ as \in Seq(Attributes)
      /\ x.params \in Seq(Pointers(prog, {"varLayout"}))
  BY EntrySteps
<1>2. \A m \in 1 .. 7 : StepDone(prog, o, m, r, index, pool)
  BY <1>1 DEF FullRow, RowDone
<1>3. x.kind = "entryPoint"
  BY DEF EntryPointsOf
<1> HIDE DEF sc, as
<1>4. Spells(r["name"], x.name)
  BY <1>1, <1>2, NameDone, InTables DEF sc
<1>5. /\ Names(r["varLayout"], x.varLayout) /\ Names(r["typeLayout"], x.typeLayout)
      /\ Names(r["resultLayout"], x.resultLayout) /\ Names(r["function"], x.function)
  BY <1>1, <1>2, RefDone, InTables DEF sc
<1>6. Lists(r["params"], x.params)
  <2>1. Len(x.params) \in Nat /\ DOMAIN x.params = 1 .. Len(x.params)
    BY <1>1
  <2> QED
    BY <1>1, <1>2, <2>1, ListDone, InTables DEF sc
<1>7. Attributed(r["attributes"], as)
  <2>1. 7 \in 1 .. Len(Script(prog, o)) /\ Script(prog, o)[7] = Attrs(as)
    BY <1>1 DEF sc
  <2>2. PICK m \in 1 .. Len(Script(prog, o)) : Script(prog, o)[m] = Attrs(as)
    BY <2>1, Zenon
  <2> QED
    BY <1>1, <2>2, AttrsHeld
<1> QED
  BY <1>3, <1>4, <1>5, <1>6, <1>7 DEF StandsFor, as

LEMMA RowStands ==
    ASSUME Shape, Progress, ViewInv, Written, NEW o \in DOMAIN index
    PROVE  StandsFor(table[prog[o].kind][index[o] + 1], o)
<1> DEFINE r == table[prog[o].kind][index[o] + 1]
<1>1. Sound(prog, stack, index, table, pool) /\ stack = <<>>
  BY SoundState DEF Written
<1>2. prog \in Programs /\ PoolsOK(pool) /\ IndexOK(prog, index, table)
  BY <1>1, SoundFacts
<1>3. Decls(prog, <<>>, index, table) /\ RowsFull(prog, <<>>, index, table, pool)
  BY <1>1 DEF ViewInv, ViewState
<1>4. FullRow(prog, o, r, index, pool)
  BY <1>3, EmptySeqs DEF RowsFull, OnStack
<1>5. o \in DOMAIN prog
  BY <1>2 DEF IndexOK, Indexed
<1>6. prog[o].kind \in {"type", "typeLayout", "var", "varLayout", "func", "generic", "decl"}
  BY <1>2, ProgramFacts DEF IndexOK, Indexed, Kinds
<1>7. prog[o].kind = "decl" => r = table["decl"][index[o] + 1]
  OBVIOUS
<1> HIDE DEF r
<1>8. StandsFor(r, o)
  BY SMTT(60), <1>2, <1>3, <1>4, <1>5, <1>6, <1>7, TypeStands, TypeLayoutStands, VarStands, VarLayoutStands,
     FuncStands, GenericStands, DeclStands
<1> QED
  BY <1>8 DEF r

LEMMA RowsAre ==
    ASSUME Shape, Progress, ViewInv
    PROVE  RowsFaithful
<1> SUFFICES ASSUME Written PROVE RowsFaithful
  BY DEF RowsFaithful
<1> DEFINE root == prog["root"]
           es   == EntryPoints(prog, Len(root.entryPoints))
           eps  == table["entryPoint"]
<1>1. Sound(prog, stack, index, table, pool) /\ FileIs(prog, file, index, table, pool)
  BY SoundState DEF ViewInv
<1>2. prog \in Programs /\ PoolsOK(pool) /\ IndexOK(prog, index, table)
  BY <1>1, SoundFacts
<1>3. \A o \in DOMAIN index :
        /\ \A n \in DOMAIN index : n # o /\ prog[n].kind = prog[o].kind => index[n] # index[o]
        /\ StandsFor(table[prog[o].kind][index[o] + 1], o)
  BY <1>2, RowStands DEF IndexOK
<1>4. EntriesAdded = es
  BY DEF EntriesAdded, EntryPoints, NonNull
<1>5. es \in Seq(EntryPointsOf(prog))
  <2>1. Len(root.entryPoints) \in Nat
    BY <1>2, BaseFacts
  <2> QED
    BY <1>2, <2>1, EntryPointsAre
<1>6. EntryRows(prog, es, eps, index, pool)
  BY <1>1 DEF FileIs
<1> HIDE DEF es, eps
<1>7. Len(eps) = Len(es) /\ \A e \in DOMAIN es : StandsFor(eps[e], es[e])
  <2>1. DOMAIN es = 1 .. Len(es) /\ \A e \in 1 .. Len(es) : es[e] \in EntryPointsOf(prog)
    BY <1>5, SeqFacts, Zenon
  <2>2. Len(eps) = Len(es) /\ \A e \in 1 .. Len(es) : FullRow(prog, es[e], eps[e], index, pool)
    BY <1>6 DEF EntryRows
  <2> QED
    BY <1>2, <2>1, <2>2, EntryStands
<1>8. Names(file.global, root.global)
  BY <1>1, InTables DEF FileIs
<1>9. /\ Len(pool["hashedStr"]) = Len(root.hashed)
      /\ \A k \in DOMAIN root.hashed : Spells(pool["hashedStr"][k], root.hashed[k])
  <2>1. root.hashed \in Seq(Text \cup {Nil})
    BY <1>2, TypedRoot
  <2>2. DOMAIN root.hashed = 1 .. Len(root.hashed)
    BY <2>1, SeqFacts, Zenon
  <2>3. Hashes(prog, Len(root.hashed), pool)
    BY <1>1 DEF FileIs
  <2> QED
    BY <2>2, <2>3 DEF Hashes, HashIs, Spells
<1> QED
  BY <1>3, <1>4, <1>7, <1>8, <1>9 DEF RowsFaithful, eps

\* Every row of the file stands for its own object: whatever the order in
\* which the recursion met the objects, each row holds the indices of the
\* objects that Slang has at its object, and its slices of the pools hold
\* their lists, words, modifiers and attributes; no two objects share a row;
\* the rows of the entry points are those of the program, in its order.
THEOREM RowsStandForObjects == Spec => []RowsFaithful
<1>1. Shape /\ Progress /\ ViewInv => RowsFaithful
  BY RowsAre
<1> QED
  BY <1>1, ViewInvariant, PTL
=============================================================================
