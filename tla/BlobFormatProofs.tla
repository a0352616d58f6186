-------------------------- MODULE BlobFormatProofs --------------------------
(***************************************************************************)
(* BlobFormat for any entries, dependencies and sizes: types, alignment,   *)
(* that the reader returns what was queued, what is shared, and what a     *)
(* file that was cut short still shows.                                    *)
(***************************************************************************)
EXTENDS BlobFormat, FiniteSetTheorems, TLAPS

-----------------------------------------------------------------------------
(* The inductive invariant of RoundTrip.  Everything is about blobs that   *)
(* fit into Wrap bytes.  The layout pass leaves a chain of offsets, each   *)
(* of which follows from the one before; the second pass is at the place   *)
(* the chain says.                                                         *)

\* Where the pieces of an entry whose key is at p go.
CodeAt(p, k)    == Align8(p + Size(queued[k].key) + 1)
AfterCode(p, k) == IF Owns(Code, k) THEN CodeAt(p, k) + Size(Code[k])
                   ELSE p + Size(queued[k].key) + 1
ReflAt(p, k)    == Align8(AfterCode(p, k))
AfterEntry(p, k) == IF Owns(Refl, k) THEN ReflAt(p, k) + Size(Refl[k])
                    ELSE AfterCode(p, k)

\* Where entry, path and index list k start, by what is recorded about k - 1.
Pos(k) == IF k = 1 THEN DataStart ELSE AfterEntry(records[k - 1].keyOffset, k - 1)
PathPos(k) == IF k = 1 THEN hdr.depsStringsOffset
              ELSE slots[k - 1].off + Size(deps[k - 1].path)
IdxPos(k) == IF k = 1 THEN 0
             ELSE U32(records[k - 1].depsIdxOff + records[k - 1].depsIdxCount)

\* The loops of the two passes, in their order.
StageOf(p) ==
    CASE p = "layout" -> 1 [] p = "layoutPaths" -> 2 [] p = "layoutPool" -> 3
      [] p = "emit" -> 4 [] p = "emitPaths" -> 5 [] p = "emitRows" -> 6
      [] p = "emitPool" -> 7 [] OTHER -> 0
Stage == StageOf(pc)

\* A record says where the pieces of its entry are.
RecordRight(k) ==
    LET r == records[k]
    IN  /\ r.keyOffset = Pos(k) /\ r.keySize = Size(queued[k].key) + 1
        /\ r.codeSize = Size(Code[k]) /\ r.reflSize = Size(Refl[k])
        /\ r.codeOffset = IF Owns(Code, k) THEN CodeAt(Pos(k), k)
                          ELSE records[Canonical(Code, k)].codeOffset
        /\ r.reflOffset = IF Owns(Refl, k) THEN ReflAt(Pos(k), k)
                          ELSE records[Canonical(Refl, k)].reflOffset

SlotRight(k) == slots[k].off = PathPos(k) /\ slots[k].len = Size(deps[k].path)

PoolRight(k) == /\ records[k].depsIdxOff = IdxPos(k)
                /\ records[k].depsIdxCount = U32(Len(queued[k].deps))

\* What the layout pass has done.
LaidOut ==
    /\ Stage \in 1 .. 7 => hdr.entryCount = U32(Len(queued)) /\ cursor >= DataStart
    /\ Stage = 1 => Len(records) = i - 1 /\ i <= Len(queued) + 1
    /\ Stage \in 2 .. 7 => Len(records) = Len(queued)
    /\ Stage = 2 => Len(slots) = i - 1 /\ i <= Len(deps) + 1
    /\ Stage \in 3 .. 7 => Len(slots) = Len(deps)
    /\ Stage \in {3, 4, 7} => i <= Len(queued) + 1
    /\ Stage \in {5, 6} => i <= Len(deps) + 1
    /\ Stage \in 0 .. 1 => slots = <<>>
    /\ Stage = 0 => records = <<>>
    /\ Stage \in 0 .. 2 => running = 0
    /\ Stage = 3 => \A k \in 1 .. i - 1 : PoolRight(k)
    /\ Stage = 3 => running = IdxPos(i)
    /\ Stage \in 4 .. 7 => \A k \in DOMAIN records : PoolRight(k)

LayoutRight ==
    cursor < Wrap =>
        /\ \A k \in DOMAIN records : RecordRight(k)
        /\ \A k \in DOMAIN slots : SlotRight(k)
        /\ Stage = 1 => cursor = Pos(i)
        /\ Stage \in 2 .. 7 => hdr.depsStringsOffset = Align8(Pos(Len(queued) + 1))
        /\ Stage = 2 => cursor = PathPos(i)
        /\ Stage \in 3 .. 7 =>
              /\ hdr.depsOffset = Align8(PathPos(Len(deps) + 1))
              /\ hdr.depsCount = Len(deps)
              /\ hdr.entryDepsIdxOffset = Align4(hdr.depsOffset + Len(deps) * DepSize)
              /\ cursor >= hdr.entryDepsIdxOffset

\* Where the second pass is.
EmitRight ==
    cursor < Wrap /\ out.size < Wrap =>
        /\ Stage = 4 => out.size = Pos(i)
        /\ Stage = 5 => out.size = PathPos(i)
        /\ Stage = 6 => out.size = hdr.depsOffset + (i - 1) * DepSize
        /\ Stage = 7 => out.size = hdr.entryDepsIdxOffset + IdxPos(i) * WordSize

\* No two pieces overlap.
Unmixed(o) ==
    /\ \A c \in o.strings : c.off + c.len <= o.size
    /\ \A c, d \in o.strings : c.off = d.off /\ c.len = d.len /\ c.len > 0 => c = d
    /\ \A r \in o.rows : r.off + DepSize <= o.size
    /\ \A r, s \in o.rows : r.off = s.off => r = s
    /\ \A w \in o.words : w.off + WordSize <= o.size
    /\ \A v, w \in o.words : v.off = w.off => v = w

\* The bytes of o hold what the records and the header say.
EntryStored(recs, o, k) ==
    LET r == recs[k]
    IN  /\ r.keySize = Size(queued[k].key) + 1
        /\ Chunk(r.keyOffset, r.keySize, queued[k].key) \in o.strings
        /\ r.codeSize = Size(Code[k])
        /\ Code[k] # Empty => Chunk(r.codeOffset, r.codeSize, Code[k]) \in o.strings
        /\ r.reflSize = Size(Refl[k])
        /\ Refl[k] # Empty => Chunk(r.reflOffset, r.reflSize, Refl[k]) \in o.strings

PathStored(slot, o, d) ==
    /\ slot.len = Size(deps[d].path)
    /\ Chunk(slot.off, slot.len, deps[d].path) \in o.strings

RowStored(h, o, d) ==
    \E r \in o.rows : /\ r.off = h.depsOffset + (d - 1) * DepSize
                      /\ r.hash = deps[d].hash
                      /\ PathStored(r.path, o, d)

WordsStored(recs, h, o, k) ==
    LET at == h.entryDepsIdxOffset + recs[k].depsIdxOff * WordSize
    IN  /\ recs[k].depsIdxCount = Len(queued[k].deps)
        /\ at + Len(queued[k].deps) * WordSize <= o.size
        /\ \A j \in DOMAIN queued[k].deps :
              [off |-> at + (j - 1) * WordSize, idx |-> queued[k].deps[j]] \in o.words

Emitted ==
    /\ Stage \in 4 .. 7 => Unmixed(out)
    /\ cursor < Wrap /\ out.size < Wrap =>
        /\ Stage = 4 => \A k \in 1 .. i - 1 : EntryStored(records, out, k)
        /\ Stage \in 5 .. 7 => \A k \in DOMAIN queued : EntryStored(records, out, k)
        /\ Stage = 5 => \A k \in 1 .. i - 1 : PathStored(slots[k], out, k)
        /\ Stage \in 6 .. 7 => \A k \in DOMAIN deps : PathStored(slots[k], out, k)
        /\ Stage = 6 => \A k \in 1 .. i - 1 : RowStored(hdr, out, k)
        /\ Stage = 7 => \A k \in DOMAIN deps : RowStored(hdr, out, k)
        /\ Stage = 7 => \A k \in 1 .. i - 1 : WordsStored(records, hdr, out, k)

\* The finished file.
FileRight ==
    Finalized =>
        /\ file \in Files /\ file.codec = codec /\ file.optionsHash = optionsHash
        /\ file.payloadSize = U32(file.size - HeaderSize)
        /\ file.size >= HeaderSize + Len(queued) * RecordSize
        /\ file.length = IF codec = "none" THEN file.size
                         ELSE HeaderSize + (IF file.size = HeaderSize THEN 0 ELSE PackedSize)
        /\ Len(file.records) = Len(queued)
        /\ Unmixed(file.out) /\ file.out.size <= file.size
        /\ file.size < Wrap =>
            /\ file.hdr.entryCount = Len(queued) /\ file.hdr.depsCount = Len(deps)
            /\ \A k \in DOMAIN queued :
                  /\ EntryStored(file.records, file.out, k)
                  /\ WordsStored(file.records, file.hdr, file.out, k)
            /\ \A d \in DOMAIN deps : RowStored(file.hdr, file.out, d)

RInv == LaidOut /\ LayoutRight /\ EmitRight /\ Emitted /\ FileRight

-----------------------------------------------------------------------------
(* Arithmetic, and the data a blob is made of.                             *)

\* The stages by name.
LEMMA Stages ==
    /\ StageOf("queue") = 0 /\ StageOf("layout") = 1 /\ StageOf("layoutPaths") = 2
    /\ StageOf("layoutPool") = 3 /\ StageOf("emit") = 4 /\ StageOf("emitPaths") = 5
    /\ StageOf("emitRows") = 6 /\ StageOf("emitPool") = 7 /\ StageOf("write") = 0
    /\ StageOf("written") = 0
BY DEF StageOf

\* Rounding up never goes back.
LEMMA Aligns ==
    \A x \in Nat : /\ Align8(x) \in Nat /\ Align8(x) >= x /\ Align8(x) % 8 = 0
                   /\ Align4(x) \in Nat /\ Align4(x) >= x /\ Align4(x) % 4 = 0
BY DEF Align8, Align4

\* A cast gives an offset, the same number if that fits.
LEMMA Casts == \A x \in Nat : U32(x) \in Offsets /\ (x < Wrap => U32(x) = x)
BY BlobAssumption DEF U32, Offsets

LEMMA OffsetsAreNat == Offsets \subseteq Nat
BY BlobAssumption DEF Offsets

\* Types of what is queued.
LEMMA QueuedTypes ==
    ASSUME TypeOK
    PROVE  /\ queued \in Seq(Entries) /\ deps \in Seq(Deps)
           /\ Code \in [DOMAIN queued -> Strings] /\ Refl \in [DOMAIN queued -> Strings]
           /\ \A k \in DOMAIN queued :
                 /\ queued[k] \in Entries /\ queued[k].key \in Strings
                 /\ queued[k].deps \in Seq(Nat)
                 /\ Size(queued[k].key) \in Nat
                 /\ Code[k] = queued[k].code /\ Code[k] \in Strings /\ Size(Code[k]) \in Nat
                 /\ Refl[k] = queued[k].refl /\ Refl[k] \in Strings /\ Size(Refl[k]) \in Nat
           /\ \A d \in DOMAIN deps :
                 /\ deps[d] \in Deps
                 /\ deps[d].path \in Strings /\ Size(deps[d].path) \in Nat
                 /\ deps[d].hash \in Hashes
           /\ DataStart \in Nat /\ DataStart >= HeaderSize + Len(queued) * RecordSize
           /\ Len(queued) \in Nat /\ Len(deps) \in Nat
           /\ DOMAIN queued = 1 .. Len(queued) /\ DOMAIN deps = 1 .. Len(deps)
<1>1. queued \in Seq(Entries)
  <2>1. queued \in Seq(Queueable)
    BY DEF TypeOK
  <2>2. Queueable \subseteq Entries
    BY BlobAssumption
  <2> QED
    BY <2>1, <2>2
<1>2. deps \in Seq(Deps)
  <2>1. deps \in DepLists \cup {<<>>}
    BY DEF TypeOK
  <2>2. DepLists \subseteq Seq(Deps)
    BY BlobAssumption
  <2>3. <<>> \in Seq(Deps)
    OBVIOUS
  <2> QED
    BY <2>1, <2>2, <2>3
<1>3. \A k \in DOMAIN queued :
         queued[k] \in Entries /\ queued[k].key \in Strings /\ queued[k].deps \in Seq(Nat)
         /\ queued[k].code \in Strings /\ queued[k].refl \in Strings
  <2>1. \A k \in DOMAIN queued : queued[k] \in Entries
    BY <1>1
  <2> QED
    BY <2>1 DEF Entries
<1>4. \A d \in DOMAIN deps : deps[d] \in Deps /\ deps[d].path \in Strings /\ deps[d].hash \in Hashes
  <2>1. \A d \in DOMAIN deps : deps[d] \in Deps
    BY <1>2
  <2> QED
    BY <2>1 DEF Deps
<1>5. \A s \in Strings : Size(s) \in Nat
  BY BlobAssumption
<1>6. /\ Code \in [DOMAIN queued -> Strings] /\ Refl \in [DOMAIN queued -> Strings]
      /\ \A k \in DOMAIN queued : Code[k] = queued[k].code /\ Refl[k] = queued[k].refl
  BY <1>3 DEF Code, Refl
<1>7. /\ Len(queued) \in Nat /\ Len(deps) \in Nat
      /\ DOMAIN queued = 1 .. Len(queued) /\ DOMAIN deps = 1 .. Len(deps)
  BY <1>1, <1>2
<1>8. DataStart \in Nat /\ DataStart >= HeaderSize + Len(queued) * RecordSize
  <2>1. HeaderSize + (Len(queued) * RecordSize) \in Nat
    BY <1>7 DEF HeaderSize, RecordSize
  <2> QED
    BY <2>1, Aligns DEF DataStart
<1> QED
  BY <1>1, <1>2, <1>3, <1>4, <1>5, <1>6, <1>7, <1>8

\* An entry that does not own its payload uses an equal one of an earlier
\* entry.
LEMMA CanonicalEarlier ==
    ASSUME NEW s, NEW k \in Nat, ~Owns(s, k)
    PROVE  Canonical(s, k) \in 1 .. k - 1 /\ s[Canonical(s, k)] = s[k]
<1>1. \E h \in 1 .. k - 1 : Shares(s, k, h)
  BY DEF Owns
<1>2. Canonical(s, k) = CHOOSE h \in 1 .. k - 1 : Shares(s, k, h)
  BY DEF Canonical
<1>3. Canonical(s, k) \in 1 .. k - 1 /\ Shares(s, k, Canonical(s, k))
  BY <1>1, <1>2
<1> QED
  BY <1>3 DEF Shares

LEMMA CanonicalOwn == ASSUME NEW s, NEW k, Owns(s, k) PROVE Canonical(s, k) = k
BY DEF Canonical

-----------------------------------------------------------------------------
(* Types.  They need to know where the loops are: the record of an earlier *)
(* entry must exist when a later one refers to it.                         *)

TInv == TypeOK /\ LaidOut

\* Where the pieces of entry k go, if its key is at p.
LEMMA PieceTypes ==
    ASSUME TypeOK, NEW p \in Nat, NEW k \in DOMAIN queued
    PROVE  /\ CodeAt(p, k) \in Nat /\ AfterCode(p, k) \in Nat
           /\ ReflAt(p, k) \in Nat /\ AfterEntry(p, k) \in Nat
           /\ p + Size(queued[k].key) + 1 <= CodeAt(p, k)
           /\ p + Size(queued[k].key) + 1 <= AfterCode(p, k)
           /\ Owns(Code, k) => CodeAt(p, k) + Size(Code[k]) = AfterCode(p, k)
           /\ AfterCode(p, k) <= ReflAt(p, k)
           /\ AfterCode(p, k) <= AfterEntry(p, k)
           /\ Owns(Refl, k) => ReflAt(p, k) + Size(Refl[k]) = AfterEntry(p, k)
           /\ p < AfterEntry(p, k)
<1>1. Size(queued[k].key) \in Nat /\ Size(Code[k]) \in Nat /\ Size(Refl[k]) \in Nat
  BY QueuedTypes
<1>2. CodeAt(p, k) \in Nat /\ p + Size(queued[k].key) + 1 <= CodeAt(p, k)
  BY SMTT(60), <1>1, Aligns DEF CodeAt
<1>3. /\ AfterCode(p, k) \in Nat /\ p + Size(queued[k].key) + 1 <= AfterCode(p, k)
      /\ Owns(Code, k) => CodeAt(p, k) + Size(Code[k]) = AfterCode(p, k)
  BY <1>1, <1>2 DEF AfterCode
<1>4. ReflAt(p, k) \in Nat /\ AfterCode(p, k) <= ReflAt(p, k)
  BY <1>3, Aligns DEF ReflAt
<1>5. /\ AfterEntry(p, k) \in Nat /\ AfterCode(p, k) <= AfterEntry(p, k)
      /\ Owns(Refl, k) => ReflAt(p, k) + Size(Refl[k]) = AfterEntry(p, k)
  BY <1>1, <1>3, <1>4 DEF AfterEntry
<1> QED
  BY <1>1, <1>2, <1>3, <1>4, <1>5

\* The record that the layout pass makes for entry k, at p.
NewRecord(p, k) ==
    [keyOffset    |-> U32(p),
     keySize      |-> U32(Size(queued[k].key) + 1),
     codeOffset   |-> IF Owns(Code, k) THEN U32(CodeAt(p, k))
                      ELSE records[Canonical(Code, k)].codeOffset,
     codeSize     |-> IF Owns(Code, k) THEN U32(Size(Code[k]))
                      ELSE records[Canonical(Code, k)].codeSize,
     reflOffset   |-> IF Owns(Refl, k) THEN U32(ReflAt(p, k))
                      ELSE records[Canonical(Refl, k)].reflOffset,
     reflSize     |-> IF Owns(Refl, k) THEN U32(Size(Refl[k]))
                      ELSE records[Canonical(Refl, k)].reflSize,
     depsIdxOff   |-> 0,
     depsIdxCount |-> 0]

LEMMA LayoutEntryStep ==
    ASSUME TInv, LayoutEntry
    PROVE  /\ i \in DOMAIN queued /\ Len(records) = i - 1
           /\ NewRecord(cursor, i) \in Records
           /\ records' = Append(records, NewRecord(cursor, i))
           /\ cursor' = AfterEntry(cursor, i)
<1>1. i \in DOMAIN queued /\ pc = "layout"
  BY DEF LayoutEntry
<1>2. records' = Append(records, NewRecord(cursor, i)) /\ cursor' = AfterEntry(cursor, i)
  BY DEF LayoutEntry, NewRecord, CodeAt, AfterCode, ReflAt, AfterEntry
<1>3. Len(records) = i - 1
  BY <1>1, Stages DEF TInv, LaidOut, Stage
<1>4. i \in Nat /\ records \in Seq(Records) /\ cursor \in Nat
  BY DEF TInv, TypeOK
<1>5. \A k \in 1 .. i - 1 : records[k] \in Records
  BY <1>3, <1>4
<1>6. ~Owns(Code, i) => records[Canonical(Code, i)] \in Records
  BY <1>4, <1>5, CanonicalEarlier
<1>7. ~Owns(Refl, i) => records[Canonical(Refl, i)] \in Records
  BY <1>4, <1>5, CanonicalEarlier
<1>8. /\ CodeAt(cursor, i) \in Nat /\ ReflAt(cursor, i) \in Nat
      /\ Size(queued[i].key) + 1 \in Nat
      /\ Size(Code[i]) \in Nat /\ Size(Refl[i]) \in Nat
  <2>1. TypeOK
    BY DEF TInv
  <2>2. CodeAt(cursor, i) \in Nat /\ ReflAt(cursor, i) \in Nat
    BY <1>1, <1>4, <2>1, PieceTypes
  <2>3. Size(queued[i].key) \in Nat /\ Size(Code[i]) \in Nat /\ Size(Refl[i]) \in Nat
    BY <1>1, <2>1, QueuedTypes
  <2> QED
    BY <2>2, <2>3
<1>9. 0 \in Offsets
  BY BlobAssumption DEF Offsets
<1>10. NewRecord(cursor, i) \in Records
  BY <1>4, <1>6, <1>7, <1>8, <1>9, Casts DEF NewRecord, Records
<1> QED
  BY <1>1, <1>2, <1>3, <1>10

\* What the pool loop does to one record.
Updated(s, k, a, b) == [s EXCEPT ![k] = [@ EXCEPT !.depsIdxOff = a, !.depsIdxCount = b]]

LEMMA PoolUpdate ==
    ASSUME NEW s \in Seq(Records), NEW k \in DOMAIN s, NEW a \in Offsets, NEW b \in Offsets,
           NEW t, t = Updated(s, k, a, b)
    PROVE  /\ t \in Seq(Records) /\ Len(t) = Len(s) /\ DOMAIN t = DOMAIN s
           /\ \A h \in DOMAIN s : h # k => t[h] = s[h]
           /\ t[k].depsIdxOff = a /\ t[k].depsIdxCount = b
           /\ \A h \in DOMAIN s :
                 /\ t[h].keyOffset = s[h].keyOffset /\ t[h].keySize = s[h].keySize
                 /\ t[h].codeOffset = s[h].codeOffset /\ t[h].codeSize = s[h].codeSize
                 /\ t[h].reflOffset = s[h].reflOffset /\ t[h].reflSize = s[h].reflSize
<1> DEFINE r == [s[k] EXCEPT !.depsIdxOff = a, !.depsIdxCount = b]
<1>1. s[k] \in Records
  OBVIOUS
<1>2. /\ r \in Records /\ r.depsIdxOff = a /\ r.depsIdxCount = b
      /\ r.keyOffset = s[k].keyOffset /\ r.keySize = s[k].keySize
      /\ r.codeOffset = s[k].codeOffset /\ r.codeSize = s[k].codeSize
      /\ r.reflOffset = s[k].reflOffset /\ r.reflSize = s[k].reflSize
  <2> HIDE DEF r
  <2>1. \A x \in Records : LET y == [x EXCEPT !.depsIdxOff = a, !.depsIdxCount = b]
           IN  /\ y \in Records /\ y.depsIdxOff = a /\ y.depsIdxCount = b
               /\ y.keyOffset = x.keyOffset /\ y.keySize = x.keySize
               /\ y.codeOffset = x.codeOffset /\ y.codeSize = x.codeSize
               /\ y.reflOffset = x.reflOffset /\ y.reflSize = x.reflSize
    BY DEF Records
  <2> QED
    BY <1>1, <2>1 DEF r
<1>3. t = [s EXCEPT ![k] = r]
  BY DEF Updated
<1> HIDE DEF r
<1>4. Len(t) = Len(s) /\ DOMAIN t = DOMAIN s /\ t \in Seq(Records)
  BY <1>2, <1>3
<1>5. t[k] = r /\ \A h \in DOMAIN s : h # k => t[h] = s[h]
  BY <1>3
<1> QED
  BY <1>2, <1>4, <1>5

LEMMA TypeInit == Init => TInv
<1> SUFFICES ASSUME Init PROVE TInv
  OBVIOUS
<1>1. 0 \in Offsets
  BY BlobAssumption DEF Offsets
<1>2. NoHeader \in Headers /\ NoBytes \in Bytes
  BY <1>1 DEF NoHeader, Headers, NoBytes, Bytes
<1>3. <<>> \in Seq(Queueable) /\ <<>> \in Seq(Records) /\ <<>> \in Seq(Slots)
  OBVIOUS
<1>4. TypeOK
  BY <1>1, <1>2, <1>3, BlobAssumption DEF Init, TypeOK, Codecs
<1>5. Stage = 0
  BY Stages DEF Init, Stage
<1>6. LaidOut
  BY <1>5 DEF Init, LaidOut
<1> QED
  BY <1>4, <1>6 DEF TInv

\* The setters and the end of a writer.
LEMMA TypeSetters ==
    ASSUME TypeOK,
           \/ \E e \in Queueable : AddEntry(e)
           \/ \E ds \in DepLists : SetDependencies(ds)
           \/ \E h \in Hashes : SetOptionsHash(h)
           \/ \E c \in Codecs : SetCompression(c)
           \/ Destroy
    PROVE  TypeOK'
<1> USE DEF TypeOK, layout, writer
<1>1. ASSUME NEW e \in Queueable, AddEntry(e) PROVE TypeOK'
  BY <1>1 DEF AddEntry
<1>2. ASSUME NEW ds \in DepLists, SetDependencies(ds) PROVE TypeOK'
  BY <1>2 DEF SetDependencies
<1>3. ASSUME NEW h \in Hashes, SetOptionsHash(h) PROVE TypeOK'
  BY <1>3 DEF SetOptionsHash
<1>4. ASSUME NEW c \in Codecs, SetCompression(c) PROVE TypeOK'
  BY <1>4 DEF SetCompression
<1>5. CASE Destroy
  BY <1>5, BlobAssumption DEF Destroy, Codecs
<1> QED
  BY <1>1, <1>2, <1>3, <1>4, <1>5

\* The layout pass.
LEMMA TypeLayout ==
    ASSUME TInv,
           \/ Finalize \/ LayoutEntry \/ LayoutEntriesDone \/ LayoutPath
           \/ LayoutPathsDone \/ LayoutIndices \/ LayoutDone
    PROVE  TypeOK'
<1> USE DEF TypeOK, layout, writer
<1>0. TypeOK
  BY DEF TInv
<1>1. /\ DataStart \in Nat /\ Len(queued) \in Nat /\ Len(deps) \in Nat
      /\ \A d \in DOMAIN deps : Size(deps[d].path) \in Nat
      /\ \A k \in DOMAIN queued : Len(queued[k].deps) \in Nat
  BY <1>0, QueuedTypes
<1>2. CASE Finalize
  <2>1. hdr' \in Headers
    BY <1>0, <1>1, <1>2, Casts DEF Finalize, Headers
  <2> QED
    BY <1>0, <1>1, <1>2, <2>1 DEF Finalize
<1>3. CASE LayoutEntry
  <2>1. records' \in Seq(Records)
    BY SMTT(60), <1>0, <1>3, LayoutEntryStep
  <2>2. cursor' \in Nat
    BY <1>0, <1>3, LayoutEntryStep, PieceTypes
  <2> QED
    BY <1>0, <1>3, <2>1, <2>2 DEF LayoutEntry
<1>4. CASE LayoutEntriesDone
  <2>1. cursor' \in Nat
    BY <1>0, <1>4, Aligns DEF LayoutEntriesDone
  <2>2. hdr' \in Headers
    BY <1>0, <1>4, <2>1, Casts DEF LayoutEntriesDone, Headers
  <2> QED
    BY <1>0, <1>4, <2>1, <2>2 DEF LayoutEntriesDone
<1>5. CASE LayoutPath
  <2>1. Size(deps[i].path) \in Nat
    BY <1>1, <1>5 DEF LayoutPath
  <2>2. [off |-> U32(cursor), len |-> U32(Size(deps[i].path))] \in Slots
    BY <1>0, <2>1, Casts DEF Slots
  <2>3. slots' \in Seq(Slots) /\ cursor' \in Nat
    BY <1>0, <1>5, <2>1, <2>2 DEF LayoutPath
  <2> QED
    BY <1>0, <1>5, <2>3 DEF LayoutPath
<1>6. CASE LayoutPathsDone
  <2>1. Align8(cursor) \in Nat /\ Align8(cursor) + (Len(deps) * DepSize) \in Nat
    <3>1. Align8(cursor) \in Nat
      BY <1>0, Aligns
    <3> QED
      BY <1>1, <3>1 DEF DepSize
  <2>2. cursor' \in Nat
    <3>1. cursor' = Align4(Align8(cursor) + (Len(deps) * DepSize))
      BY <1>6 DEF LayoutPathsDone
    <3> QED
      BY <2>1, <3>1, Aligns
  <2>3. hdr' \in Headers
    BY ZenonT(60), <1>0, <1>1, <1>6, <2>1, <2>2, Casts DEF LayoutPathsDone, Headers
  <2> QED
    BY <1>0, <1>6, <2>2, <2>3 DEF LayoutPathsDone
<1>7. CASE LayoutIndices
  <2>1. Len(queued[i].deps) \in Nat
    BY <1>1, <1>7 DEF LayoutIndices
  <2>2. U32(Len(queued[i].deps)) \in Offsets
    BY <2>1, Casts
  <2>3. running' \in Offsets /\ running \in Offsets
    <3>1. running \in Nat /\ U32(Len(queued[i].deps)) \in Nat
      BY <1>0, <2>2, OffsetsAreNat
    <3>2. running + U32(Len(queued[i].deps)) \in Nat
      BY <3>1
    <3> QED
      BY <1>0, <1>7, <3>2, Casts DEF LayoutIndices
  <2>4. records' \in Seq(Records)
    <3> DEFINE b == U32(Len(queued[i].deps))
    <3>1. i \in DOMAIN records
      BY SMTT(60), <1>7, <1>0, <1>1, Stages DEF TInv, LaidOut, LayoutIndices, Stage
    <3>2. records' = Updated(records, i, running, b)
      BY <1>7 DEF LayoutIndices, Updated
    <3> HIDE DEF b
    <3>3. records \in Seq(Records) /\ b \in Offsets
      BY <1>0, <2>2 DEF b
    <3> QED
      BY <2>3, <3>1, <3>2, <3>3, PoolUpdate
  <2> QED
    BY <1>0, <1>7, <2>3, <2>4 DEF LayoutIndices
<1>8. CASE LayoutDone
  <2>1. out' = [size |-> DataStart, strings |-> {}, rows |-> {}, words |-> {}]
    BY <1>8 DEF LayoutDone, NoBytes
  <2>2. out' \in Bytes
    BY <1>1, <2>1 DEF Bytes
  <2>3. cursor' \in Nat
    BY <1>0, <1>8, OffsetsAreNat DEF LayoutDone, WordSize
  <2> QED
    BY <1>0, <1>8, <2>2, <2>3 DEF LayoutDone
<1> QED
  BY <1>2, <1>3, <1>4, <1>5, <1>6, <1>7, <1>8

\* The pieces that the second pass appends for entry i.
NewChunks ==
    {Chunk(out.size, Size(queued[i].key) + 1, queued[i].key)}
    \cup (IF Owns(Code, i) THEN {Chunk(CodeAt(out.size, i), Size(Code[i]), Code[i])} ELSE {})
    \cup (IF Owns(Refl, i) THEN {Chunk(ReflAt(out.size, i), Size(Refl[i]), Refl[i])} ELSE {})

LEMMA EmitEntryStep ==
    ASSUME TypeOK, EmitEntry
    PROVE  /\ i \in DOMAIN queued
           /\ out' = [out EXCEPT !.strings = @ \cup NewChunks,
                                 !.size = AfterEntry(out.size, i)]
           /\ \A c \in NewChunks : /\ c \in Chunks
                                   /\ out.size <= c.off
                                   /\ c.off + c.len <= AfterEntry(out.size, i)
           /\ \A c, d \in NewChunks : c.off = d.off /\ c.len = d.len /\ c.len > 0 => c = d
<1> DEFINE p == out.size
           key == Chunk(p, Size(queued[i].key) + 1, queued[i].key)
           code == Chunk(CodeAt(p, i), Size(Code[i]), Code[i])
           refl == Chunk(ReflAt(p, i), Size(Refl[i]), Refl[i])
<1>1. i \in DOMAIN queued /\ p \in Nat
  BY DEF EmitEntry, TypeOK, Bytes
<1>2. out' = [out EXCEPT !.strings = @ \cup NewChunks, !.size = AfterEntry(out.size, i)]
  <2>1. out' = [out EXCEPT
                 !.strings = @ \cup {key}
                     \cup (IF Owns(Code, i) THEN {code} ELSE {})
                     \cup (IF Owns(Refl, i) THEN {refl} ELSE {}),
                 !.size = AfterEntry(out.size, i)]
    BY DEF EmitEntry, CodeAt, AfterCode, ReflAt, AfterEntry
  <2> HIDE DEF key, code, refl
  <2>2. \A S : S \cup {key} \cup (IF Owns(Code, i) THEN {code} ELSE {})
                    \cup (IF Owns(Refl, i) THEN {refl} ELSE {})
               = S \cup NewChunks
    BY DEF NewChunks, key, code, refl
  <2> QED
    BY <2>1, <2>2
<1>3. /\ queued[i].key \in Strings /\ Code[i] \in Strings /\ Refl[i] \in Strings
      /\ Size(queued[i].key) \in Nat /\ Size(Code[i]) \in Nat /\ Size(Refl[i]) \in Nat
  BY <1>1, QueuedTypes
<1>4. /\ CodeAt(p, i) \in Nat /\ AfterCode(p, i) \in Nat
      /\ ReflAt(p, i) \in Nat /\ AfterEntry(p, i) \in Nat
      /\ p + Size(queued[i].key) + 1 <= CodeAt(p, i)
      /\ p + Size(queued[i].key) + 1 <= AfterCode(p, i)
      /\ Owns(Code, i) => CodeAt(p, i) + Size(Code[i]) = AfterCode(p, i)
      /\ AfterCode(p, i) <= ReflAt(p, i)
      /\ AfterCode(p, i) <= AfterEntry(p, i)
      /\ Owns(Refl, i) => ReflAt(p, i) + Size(Refl[i]) = AfterEntry(p, i)
  BY <1>1, PieceTypes
<1> HIDE DEF p
<1>5. \A c \in NewChunks :
         c = key \/ (c = code /\ Owns(Code, i)) \/ (c = refl /\ Owns(Refl, i))
  BY DEF NewChunks, p
<1>6. /\ key \in Chunks /\ key.off = p /\ key.len = Size(queued[i].key) + 1
      /\ code \in Chunks /\ code.off = CodeAt(p, i) /\ code.len = Size(Code[i])
      /\ refl \in Chunks /\ refl.off = ReflAt(p, i) /\ refl.len = Size(Refl[i])
  BY <1>1, <1>3, <1>4 DEF Chunk, Chunks
<1> HIDE DEF key, code, refl
<1>7. \A c \in NewChunks : c \in Chunks /\ p <= c.off /\ c.off + c.len <= AfterEntry(p, i)
  BY <1>1, <1>3, <1>4, <1>5, <1>6
<1>8. \A c, d \in NewChunks : c.off = d.off /\ c.len = d.len /\ c.len > 0 => c = d
  BY <1>1, <1>3, <1>4, <1>5, <1>6
<1> QED
  BY <1>1, <1>2, <1>7, <1>8 DEF p

\* The second pass, and the file.
LEMMA TypeEmit ==
    ASSUME TInv,
           \/ EmitEntry \/ EmitEntriesDone \/ EmitPath \/ EmitPathsDone
           \/ EmitRow \/ EmitRowsDone \/ EmitIndices
    PROVE  TypeOK'
<1>0. TypeOK
  BY DEF TInv
<1>1. /\ i \in Nat \ {0} /\ i + 1 \in Nat \ {0} /\ 1 \in Nat \ {0}
      /\ out \in Bytes /\ out.size \in Nat /\ out.strings \subseteq Chunks
      /\ out.rows \subseteq [off : Nat, path : Slots, hash : Hashes]
      /\ out.words \subseteq [off : Nat, idx : Nat]
  <2>1. i \in Nat \ {0} /\ out \in Bytes
    BY <1>0 DEF TypeOK
  <2> QED
    BY <2>1 DEF Bytes
<1>2. SUFFICES /\ out' \in Bytes /\ i' \in Nat \ {0}
               /\ pc' \in {"emit", "emitPaths", "emitRows", "emitPool"}
               /\ UNCHANGED <<writer, layout, file, onDisk>>
  BY <1>0 DEF TypeOK, writer, layout
<1>3. CASE EmitEntry
  <2>1. /\ out' = [out EXCEPT !.strings = @ \cup NewChunks,
                              !.size = AfterEntry(out.size, i)]
        /\ NewChunks \subseteq Chunks /\ i \in DOMAIN queued
    BY <1>0, <1>3, EmitEntryStep
  <2>2. AfterEntry(out.size, i) \in Nat
    BY <1>0, <1>1, <2>1, PieceTypes
  <2>3. out' \in Bytes
    BY <1>1, <2>1, <2>2 DEF Bytes
  <2> QED
    BY <1>1, <1>3, <2>3 DEF EmitEntry
<1>4. CASE EmitEntriesDone
  <2>1. out' \in Bytes
    BY <1>1, <1>4, Aligns DEF EmitEntriesDone, Bytes
  <2> QED
    BY <1>1, <1>4, <2>1 DEF EmitEntriesDone
<1>5. CASE EmitPath
  <2> DEFINE path == deps[i].path
             c == Chunk(out.size, Size(path), path)
  <2>1. path \in Strings /\ Size(path) \in Nat
    BY <1>0, <1>5, QueuedTypes DEF EmitPath
  <2>2. c \in Chunks /\ out.size + Size(path) \in Nat
    BY <1>1, <2>1 DEF Chunk, Chunks
  <2>3. out' = [out EXCEPT !.strings = @ \cup {c}, !.size = @ + Size(path)]
    BY <1>5 DEF EmitPath
  <2> HIDE DEF path, c
  <2>4. out' \in Bytes
    BY <1>1, <2>2, <2>3 DEF Bytes
  <2> QED
    BY <1>1, <1>5, <2>4 DEF EmitPath
<1>6. CASE EmitPathsDone
  <2>1. out' \in Bytes
    BY <1>1, <1>6, Aligns DEF EmitPathsDone, Bytes
  <2> QED
    BY <1>1, <1>6, <2>1 DEF EmitPathsDone
<1>7. CASE EmitRow
  <2> DEFINE row == [off |-> out.size, path |-> slots[i], hash |-> deps[i].hash]
  <2>1. i \in DOMAIN deps /\ deps[i].hash \in Hashes
    BY <1>0, <1>7, QueuedTypes DEF EmitRow
  <2>2. slots[i] \in Slots
    <3>1. Len(slots) = Len(deps)
      BY <1>7, Stages DEF TInv, LaidOut, EmitRow, Stage
    <3>2. slots \in Seq(Slots) /\ deps \in Seq(Deps)
      BY <1>0, QueuedTypes DEF TypeOK
    <3> QED
      BY <2>1, <3>1, <3>2
  <2>3. row \in [off : Nat, path : Slots, hash : Hashes]
    BY <1>1, <2>1, <2>2
  <2>4. out' = [out EXCEPT !.rows = @ \cup {row}, !.size = @ + DepSize]
    BY <1>7 DEF EmitRow
  <2> HIDE DEF row
  <2>5. out.size + DepSize \in Nat
    BY <1>1 DEF DepSize
  <2>6. out' \in Bytes
    BY <1>1, <2>3, <2>4, <2>5 DEF Bytes
  <2> QED
    BY <1>1, <1>7, <2>6 DEF EmitRow
<1>8. CASE EmitRowsDone
  <2>1. out' \in Bytes
    BY <1>1, <1>8, Aligns DEF EmitRowsDone, Bytes
  <2> QED
    BY <1>1, <1>8, <2>1 DEF EmitRowsDone
<1>9. CASE EmitIndices
  <2> DEFINE idx == queued[i].deps
             words == {[off |-> out.size + (j - 1) * WordSize, idx |-> idx[j]] : j \in DOMAIN idx}
  <2>1. idx \in Seq(Nat)
    BY <1>0, <1>9, QueuedTypes DEF EmitIndices
  <2>2. \A j \in DOMAIN idx : idx[j] \in Nat /\ out.size + ((j - 1) * WordSize) \in Nat
    <3> HIDE DEF idx, words
    <3>1. \A j \in DOMAIN idx : idx[j] \in Nat /\ j - 1 \in Nat
      BY <2>1
    <3>2. \A n \in Nat : out.size + (n * WordSize) \in Nat
      BY <1>1 DEF WordSize
    <3> QED
      BY <3>1, <3>2
  <2>3. words \subseteq [off : Nat, idx : Nat]
    BY <2>2
  <2>4. out.size + (Len(idx) * WordSize) \in Nat
    BY <1>1, <2>1 DEF WordSize
  <2>5. out' = [out EXCEPT !.words = @ \cup words, !.size = @ + Len(idx) * WordSize]
    BY <1>9 DEF EmitIndices
  <2> HIDE DEF words, idx
  <2>6. out' \in Bytes
    BY <1>1, <2>3, <2>4, <2>5 DEF Bytes
  <2> QED
    BY <1>1, <1>9, <2>6 DEF EmitIndices
<1> QED
  BY <1>3, <1>4, <1>5, <1>6, <1>7, <1>8, <1>9

\* Return makes a file, which is written and closed.  The blob has at least
\* the size of its header.
LEMMA TypeFile ==
    ASSUME TInv, Return \/ (\E n \in CutPoints(file) : Grow(n)) \/ Close
    PROVE  TypeOK'
<1>0. TypeOK
  BY DEF TInv
<1>1. CASE Return
  <2> DEFINE size == IF out.size < cursor THEN cursor ELSE out.size
             packed == IF size = HeaderSize THEN 0 ELSE PackedSize
  <2>1. /\ file' = [length      |-> IF codec = "none" THEN size ELSE HeaderSize + packed,
                    codec       |-> codec,
                    size        |-> size,
                    payloadSize |-> U32(size - HeaderSize),
                    optionsHash |-> optionsHash,
                    hdr         |-> hdr,
                    records     |-> records,
                    out         |-> out]
        /\ pc = "emitPool" /\ pc' = "write" /\ i' = 1
        /\ cursor' = 0 /\ records' = <<>> /\ slots' = <<>> /\ running' = 0
        /\ hdr' = NoHeader /\ out' = NoBytes
        /\ UNCHANGED <<writer, onDisk>>
    BY <1>1 DEF Return
  <2>2. /\ out.size \in Nat /\ cursor \in Nat /\ out \in Bytes /\ codec \in Codecs
        /\ optionsHash \in Hashes /\ hdr \in Headers /\ records \in Seq(Records)
    BY <1>0 DEF TypeOK, Bytes
  <2>3. size \in Nat /\ size - HeaderSize \in Nat
    <3>1. cursor >= DataStart
      BY <2>1, Stages DEF TInv, LaidOut, Stage
    <3>2. DataStart \in Nat /\ DataStart >= HeaderSize
      BY <1>0, QueuedTypes DEF HeaderSize, RecordSize
    <3> QED
      BY <2>2, <3>1, <3>2 DEF HeaderSize
  <2>4. HeaderSize + packed \in Nat
    BY BlobAssumption DEF HeaderSize
  <2> HIDE DEF size, packed
  <2>5. U32(size - HeaderSize) \in Offsets
    BY <2>3, Casts
  <2>6. file' \in Files
    BY <2>1, <2>2, <2>3, <2>4, <2>5 DEF Files
  <2>7. 0 \in Offsets
    BY BlobAssumption DEF Offsets
  <2>8. NoHeader \in Headers /\ NoBytes \in Bytes
    BY <2>7 DEF NoHeader, Headers, NoBytes, Bytes
  <2>9. <<>> \in Seq(Records) /\ <<>> \in Seq(Slots)
    OBVIOUS
  <2> QED
    BY <1>0, <2>1, <2>6, <2>7, <2>8, <2>9 DEF TypeOK, writer
<1>2. CASE \E n \in CutPoints(file) : Grow(n)
  <2>1. PICK n \in CutPoints(file) : Grow(n)
    BY <1>2
  <2>2. n \in 0 .. file.length
    BY DEF CutPoints
  <2>3. n \in Nat
    BY <2>2
  <2> QED
    BY <1>0, <2>1, <2>3 DEF Grow, TypeOK, writer, layout
<1>3. CASE Close
  BY <1>0, <1>3 DEF Close, TypeOK, writer, layout
<1> QED
  BY <1>1, <1>2, <1>3

-----------------------------------------------------------------------------
(* Where the loops are.                                                    *)

\* Outside finalize its locals do not exist.
LEMMA LaidOutIdle ==
    ASSUME TInv,
           \/ \E e \in Queueable : AddEntry(e)
           \/ \E ds \in DepLists : SetDependencies(ds)
           \/ \E h \in Hashes : SetOptionsHash(h)
           \/ \E c \in Codecs : SetCompression(c)
           \/ Return \/ (\E n \in CutPoints(file) : Grow(n)) \/ Close \/ Destroy
    PROVE  LaidOut'
<1>1. /\ StageOf(pc') = 0
      /\ \/ Return
         \/ StageOf(pc) = 0 /\ UNCHANGED <<slots, records, running>>
  BY Stages DEF AddEntry, SetDependencies, SetOptionsHash, SetCompression, Return, Grow,
                Close, Destroy, layout
<1>2. slots' = <<>> /\ records' = <<>> /\ running' = 0
  <2>1. CASE Return
    BY <2>1 DEF Return
  <2>2. CASE ~Return
    BY <1>1, <2>2 DEF TInv, LaidOut, Stage
  <2> QED
    BY <2>1, <2>2
<1> QED
  BY <1>1, <1>2 DEF LaidOut, Stage

\* finalize.
LEMMA LaidOutStep ==
    ASSUME TInv, TypeOK',
           \/ Finalize \/ LayoutEntry \/ LayoutEntriesDone \/ LayoutPath
           \/ LayoutPathsDone \/ LayoutIndices \/ LayoutDone
           \/ EmitEntry \/ EmitEntriesDone \/ EmitPath \/ EmitPathsDone
           \/ EmitRow \/ EmitRowsDone \/ EmitIndices
    PROVE  LaidOut'
<1>0. TypeOK /\ LaidOut
  BY DEF TInv
<1>1. /\ i \in Nat \ {0} /\ cursor \in Nat /\ hdr \in Headers
      /\ records \in Seq(Records) /\ slots \in Seq(Slots) /\ running \in Offsets
      /\ records' \in Seq(Records) /\ slots' \in Seq(Slots)
      /\ DataStart \in Nat /\ Len(queued) \in Nat /\ Len(deps) \in Nat
      /\ DOMAIN queued = 1 .. Len(queued) /\ DOMAIN deps = 1 .. Len(deps)
  BY <1>0, QueuedTypes DEF TypeOK
<1>2. DataStart' = DataStart /\ queued' = queued /\ deps' = deps
  BY DEF DataStart, Finalize, LayoutEntry, LayoutEntriesDone, LayoutPath, LayoutPathsDone,
         LayoutIndices, LayoutDone, EmitEntry, EmitEntriesDone, EmitPath, EmitPathsDone,
         EmitRow, EmitRowsDone, EmitIndices, writer
<1>3. CASE Finalize
  <2>1. StageOf(pc) = 0 /\ StageOf(pc') = 1
    BY <1>3, Stages DEF Finalize
  <2>2. records' = <<>> /\ slots' = <<>> /\ running' = 0 /\ i' = 1
    BY <1>0, <1>3, <2>1 DEF LaidOut, Stage, Finalize
  <2>3. hdr'.entryCount = U32(Len(queued)) /\ cursor' = DataStart
    BY <1>1, <1>3 DEF Finalize, Headers
  <2> QED
    BY <1>1, <1>2, <2>1, <2>2, <2>3 DEF LaidOut, Stage
<1>4. CASE LayoutEntry
  <2>1. StageOf(pc) = 1 /\ StageOf(pc') = 1
    BY <1>4, Stages DEF LayoutEntry
  <2>2. Len(records') = i /\ i' = i + 1 /\ i <= Len(queued)
    BY <1>1, <1>4, LayoutEntryStep DEF LayoutEntry
  <2>3. cursor' >= cursor /\ cursor' \in Nat
    <3>1. cursor' = AfterEntry(cursor, i) /\ i \in DOMAIN queued
      BY <1>4, LayoutEntryStep
    <3>2. AfterEntry(cursor, i) \in Nat /\ cursor < AfterEntry(cursor, i)
      BY <1>0, <1>1, <3>1, PieceTypes
    <3> QED
      BY <1>1, <3>1, <3>2
  <2>4. cursor >= DataStart /\ hdr.entryCount = U32(Len(queued)) /\ slots = <<>> /\ running = 0
    BY <1>0, <2>1 DEF LaidOut, Stage
  <2>5. hdr' = hdr /\ slots' = slots /\ running' = running
    BY <1>4 DEF LayoutEntry
  <2> QED
    BY <1>1, <1>2, <2>1, <2>2, <2>3, <2>4, <2>5 DEF LaidOut, Stage
<1>5. CASE LayoutEntriesDone
  <2>1. StageOf(pc) = 1 /\ StageOf(pc') = 2
    BY <1>5, Stages DEF LayoutEntriesDone
  <2>2. /\ cursor >= DataStart /\ hdr.entryCount = U32(Len(queued)) /\ slots = <<>>
        /\ running = 0 /\ Len(records) = i - 1 /\ i <= Len(queued) + 1
    BY <1>0, <2>1 DEF LaidOut, Stage
  <2>3. /\ slots' = slots /\ running' = running /\ records' = records /\ i' = 1
        /\ i > Len(queued) /\ hdr'.entryCount = hdr.entryCount
    BY <1>1, <1>5 DEF LayoutEntriesDone, Headers
  <2>4. cursor' = Align8(cursor) /\ Align8(cursor) \in Nat /\ Align8(cursor) >= cursor
    BY <1>1, <1>5, Aligns DEF LayoutEntriesDone
  <2>5. cursor' >= DataStart
    BY <1>1, <2>2, <2>4
  <2>6. Len(records') = Len(queued) /\ Len(slots') = 0
    BY <1>1, <2>2, <2>3
  <2> QED
    BY <1>1, <1>2, <2>1, <2>2, <2>3, <2>5, <2>6 DEF LaidOut, Stage
<1>6. CASE LayoutPath
  <2>1. StageOf(pc) = 2 /\ StageOf(pc') = 2
    BY <1>6, Stages DEF LayoutPath
  <2>2. /\ cursor >= DataStart /\ hdr.entryCount = U32(Len(queued))
        /\ running = 0 /\ Len(records) = Len(queued) /\ Len(slots) = i - 1
    BY <1>0, <2>1 DEF LaidOut, Stage
  <2>3. /\ running' = running /\ records' = records /\ i' = i + 1 /\ hdr' = hdr
        /\ i <= Len(deps) /\ Len(slots') = Len(slots) + 1
    BY <1>1, <1>6 DEF LayoutPath
  <2>4. cursor' >= cursor /\ cursor' \in Nat
    <3>1. cursor' = cursor + Size(deps[i].path) /\ i \in DOMAIN deps
      BY <1>6 DEF LayoutPath
    <3>2. Size(deps[i].path) \in Nat
      BY <1>0, <3>1, QueuedTypes
    <3> QED
      BY SMTT(60), <1>1, <3>1, <3>2
  <2> QED
    BY <1>1, <1>2, <2>1, <2>2, <2>3, <2>4 DEF LaidOut, Stage
<1>7. CASE LayoutPathsDone
  <2>1. StageOf(pc) = 2 /\ StageOf(pc') = 3
    BY <1>7, Stages DEF LayoutPathsDone
  <2>2. /\ cursor >= DataStart /\ hdr.entryCount = U32(Len(queued))
        /\ running = 0 /\ Len(records) = Len(queued)
        /\ Len(slots) = i - 1 /\ i <= Len(deps) + 1
    BY <1>0, <2>1 DEF LaidOut, Stage
  <2>3. /\ running' = running /\ records' = records /\ i' = 1 /\ slots' = slots
        /\ i > Len(deps) /\ hdr'.entryCount = hdr.entryCount
    BY <1>1, <1>7 DEF LayoutPathsDone, Headers
  <2>4. cursor' >= cursor /\ cursor' \in Nat
    <3>1. Align8(cursor) \in Nat /\ Align8(cursor) >= cursor
      BY <1>1, Aligns
    <3>2. /\ Align8(cursor) + (Len(deps) * DepSize) \in Nat
          /\ Align8(cursor) + (Len(deps) * DepSize) >= cursor
      BY <1>1, <3>1 DEF DepSize
    <3>3. cursor' = Align4(Align8(cursor) + (Len(deps) * DepSize))
      BY <1>7 DEF LayoutPathsDone
    <3>4. cursor' \in Nat /\ cursor' >= Align8(cursor) + (Len(deps) * DepSize)
      BY <3>2, <3>3, Aligns
    <3> QED
      BY <1>1, <3>2, <3>4
  <2>5. IdxPos(1)' = 0
    BY DEF IdxPos
  <2> QED
    BY <1>1, <1>2, <2>1, <2>2, <2>3, <2>4, <2>5 DEF LaidOut, Stage, IdxPos
<1>8. CASE LayoutIndices
  <2> DEFINE b == U32(Len(queued[i].deps))
  <2>1. StageOf(pc) = 3 /\ StageOf(pc') = 3
    BY <1>8, Stages DEF LayoutIndices
  <2>2. /\ cursor >= DataStart /\ hdr.entryCount = U32(Len(queued))
        /\ running = IdxPos(i) /\ Len(records) = Len(queued) /\ Len(slots) = Len(deps)
        /\ \A k \in 1 .. i - 1 : PoolRight(k)
    BY <1>0, <2>1 DEF LaidOut, Stage
  <2>3. /\ i' = i + 1 /\ i \in DOMAIN queued
        /\ UNCHANGED <<cursor, slots, hdr>>
        /\ records' = [records EXCEPT ![i] = [@ EXCEPT !.depsIdxOff = running, !.depsIdxCount = b]]
        /\ running' = U32(running + b)
    BY <1>8 DEF LayoutIndices
  <2>4. b \in Offsets
    BY SMTT(60), <1>0, <2>3, QueuedTypes, Casts
  <2>5. i \in DOMAIN records
    BY <1>1, <2>2, <2>3
  <2> HIDE DEF b
  <2>6. /\ Len(records') = Len(records) /\ DOMAIN records' = DOMAIN records
        /\ \A h \in DOMAIN records : h # i => records'[h] = records[h]
        /\ records'[i].depsIdxOff = running /\ records'[i].depsIdxCount = b
    <3>1. records \in Seq(Records) /\ running \in Offsets
      BY <1>1
    <3>2. records' = Updated(records, i, running, b)
      BY <2>3 DEF Updated
    <3> QED
      BY <2>4, <2>5, <3>1, <3>2, PoolUpdate
  <2>7. \A k \in 1 .. i : IdxPos(k)' = IdxPos(k)
    <3>1. \A k \in 1 .. i : k # 1 => k - 1 \in DOMAIN records /\ k - 1 # i
      BY <1>1, <2>5
    <3>2. \A k \in 1 .. i : k # 1 => records'[k - 1] = records[k - 1]
      BY <2>6, <3>1
    <3> QED
      BY <3>2 DEF IdxPos
  <2>8. \A k \in 1 .. i : PoolRight(k)'
    <3>1. ASSUME NEW k \in 1 .. i PROVE PoolRight(k)'
      <4>1. CASE k = i
        BY <1>1, <1>2, <2>2, <2>6, <2>7, <4>1 DEF PoolRight, b
      <4>2. CASE k # i
        <5>1. k \in 1 .. i - 1 /\ k \in DOMAIN records
          BY <1>1, <2>5, <3>1, <4>2
        <5>2. PoolRight(k) /\ records'[k] = records[k]
          BY <2>2, <2>6, <4>2, <5>1
        <5> QED
          BY <1>2, <2>7, <3>1, <5>2 DEF PoolRight
      <4> QED
        BY <4>1, <4>2
    <3> QED
      BY <3>1
  <2>9. running' = IdxPos(i)'
    <3>1. i' # 1 /\ i' - 1 = i
      BY <1>1, <2>3
    <3> QED
      BY <2>3, <2>6, <3>1 DEF IdxPos
  <2>10. i' <= Len(queued) + 1 /\ i' - 1 = i
    BY SMTT(60), <1>1, <2>3
  <2> QED
    BY <1>1, <1>2, <2>1, <2>2, <2>3, <2>6, <2>8, <2>9, <2>10 DEF LaidOut, Stage
<1>9. CASE LayoutDone
  <2>1. StageOf(pc) = 3 /\ StageOf(pc') = 4
    BY <1>9, Stages DEF LayoutDone
  <2>2. /\ cursor >= DataStart /\ hdr.entryCount = U32(Len(queued))
        /\ Len(records) = Len(queued) /\ Len(slots) = Len(deps)
        /\ i <= Len(queued) + 1
        /\ \A k \in 1 .. i - 1 : PoolRight(k)
    BY <1>0, <2>1 DEF LaidOut, Stage
  <2>3. /\ i' = 1 /\ i \notin DOMAIN queued /\ UNCHANGED <<records, slots, running, hdr>>
        /\ cursor' = cursor + running * WordSize
    BY <1>9 DEF LayoutDone
  <2>4. cursor' >= DataStart
    BY <1>1, <2>2, <2>3, OffsetsAreNat DEF WordSize
  <2>5. \A k \in DOMAIN records : PoolRight(k)'
    <3>1. \A k \in DOMAIN records : PoolRight(k)
      BY <1>1, <2>2, <2>3
    <3> QED
      BY <1>2, <2>3, <3>1 DEF PoolRight, IdxPos
  <2> QED
    BY <1>1, <1>2, <2>1, <2>2, <2>3, <2>4, <2>5 DEF LaidOut, Stage
<1>10. CASE \/ EmitEntry \/ EmitEntriesDone \/ EmitPath \/ EmitPathsDone
            \/ EmitRow \/ EmitRowsDone \/ EmitIndices
  <2>1. UNCHANGED <<records, slots, running, hdr, cursor>>
    BY <1>10 DEF EmitEntry, EmitEntriesDone, EmitPath, EmitPathsDone, EmitRow, EmitRowsDone,
                 EmitIndices, layout
  <2>2. StageOf(pc) \in 4 .. 7 /\ StageOf(pc') \in 4 .. 7
    BY <1>10, Stages DEF EmitEntry, EmitEntriesDone, EmitPath, EmitPathsDone, EmitRow,
                         EmitRowsDone, EmitIndices
  <2>3. /\ StageOf(pc') \in {4, 7} => i' <= Len(queued) + 1
        /\ StageOf(pc') \in {5, 6} => i' <= Len(deps) + 1
    BY SMTT(60), <1>1, <1>10, Stages DEF EmitEntry, EmitEntriesDone, EmitPath, EmitPathsDone, EmitRow,
                               EmitRowsDone, EmitIndices
  <2>4. \A k : PoolRight(k)' <=> PoolRight(k)
    BY <1>2, <2>1 DEF PoolRight, IdxPos
  <2>5. /\ hdr.entryCount = U32(Len(queued)) /\ cursor >= DataStart
        /\ Len(records) = Len(queued) /\ Len(slots) = Len(deps)
        /\ \A k \in DOMAIN records : PoolRight(k)
    BY <1>0, <2>2 DEF LaidOut, Stage
  <2> QED
    BY <1>2, <2>1, <2>2, <2>3, <2>4, <2>5 DEF LaidOut, Stage
<1> QED
  BY <1>3, <1>4, <1>5, <1>6, <1>7, <1>8, <1>9, <1>10

LEMMA TypeStep == ASSUME TInv, [Next]_vars PROVE TInv'
<1>1. CASE \/ \E e \in Queueable : AddEntry(e)
           \/ \E ds \in DepLists : SetDependencies(ds)
           \/ \E h \in Hashes : SetOptionsHash(h)
           \/ \E c \in Codecs : SetCompression(c)
           \/ Destroy
  BY <1>1, TypeSetters, LaidOutIdle DEF TInv
<1>2. CASE Return \/ (\E n \in CutPoints(file) : Grow(n)) \/ Close
  BY <1>2, TypeFile, LaidOutIdle DEF TInv
<1>3. CASE \/ Finalize \/ LayoutEntry \/ LayoutEntriesDone \/ LayoutPath
           \/ LayoutPathsDone \/ LayoutIndices \/ LayoutDone
  <2>1. TypeOK'
    BY <1>3, TypeLayout
  <2> QED
    BY <1>3, <2>1, LaidOutStep DEF TInv
<1>4. CASE \/ EmitEntry \/ EmitEntriesDone \/ EmitPath \/ EmitPathsDone
           \/ EmitRow \/ EmitRowsDone \/ EmitIndices
  <2>1. TypeOK'
    BY <1>4, TypeEmit
  <2> QED
    BY <1>4, <2>1, LaidOutStep DEF TInv
<1>5. CASE UNCHANGED vars
  BY <1>5 DEF vars, writer, layout, TInv, TypeOK, LaidOut, Stage, PoolRight, IdxPos, DataStart
<1> QED
  BY <1>1, <1>2, <1>3, <1>4, <1>5 DEF Next

\* The types hold in every state (slangmake_blob.cpp:161-189: what is stored
\* in a record or in the header fits into 32 bits).
THEOREM TypeCorrect == Spec => []TypeOK
<1>1. Init => TInv
  BY TypeInit
<1>2. TInv /\ [Next]_vars => TInv'
  BY TypeStep
<1>3. TInv => TypeOK
  BY DEF TInv
<1> QED
  BY <1>1, <1>2, <1>3, PTL DEF Spec

-----------------------------------------------------------------------------
(* The layout pass.                                                        *)

\* What only depends on the entries.
LEMMA EntriesFrame ==
    ASSUME queued' = queued
    PROVE  /\ DataStart' = DataStart /\ Code' = Code /\ Refl' = Refl
           /\ \A k : /\ Owns(Code, k)' <=> Owns(Code, k)
                     /\ Owns(Refl, k)' <=> Owns(Refl, k)
                     /\ Canonical(Code, k)' = Canonical(Code, k)
                     /\ Canonical(Refl, k)' = Canonical(Refl, k)
           /\ \A p, k : /\ CodeAt(p, k)' = CodeAt(p, k)
                        /\ ReflAt(p, k)' = ReflAt(p, k)
                        /\ AfterEntry(p, k)' = AfterEntry(p, k)
<1>1. DataStart' = DataStart /\ Code' = Code /\ Refl' = Refl
  BY DEF DataStart, Code, Refl
<1>2. \A k : /\ Owns(Code, k)' <=> Owns(Code, k)
             /\ Owns(Refl, k)' <=> Owns(Refl, k)
             /\ Canonical(Code, k)' = Canonical(Code, k)
             /\ Canonical(Refl, k)' = Canonical(Refl, k)
  BY <1>1
<1>3. \A p, k : CodeAt(p, k)' = CodeAt(p, k)
  BY DEF CodeAt
<1>4. \A p, k : AfterCode(p, k)' = AfterCode(p, k)
  BY <1>1, <1>2, <1>3 DEF AfterCode
<1>5. \A p, k : ReflAt(p, k)' = ReflAt(p, k)
  BY <1>4 DEF ReflAt
<1>6. \A p, k : AfterEntry(p, k)' = AfterEntry(p, k)
  BY <1>1, <1>2, <1>4, <1>5 DEF AfterEntry
<1> QED
  BY <1>1, <1>2, <1>3, <1>5, <1>6

\* A record is right as long as it, those before it and the entries stay as
\* they are, whatever happens to its indices.
LEMMA RecordFrame ==
    ASSUME queued' = queued, NEW k \in Nat \ {0}, RecordRight(k),
           \A h \in 1 .. k :
              /\ records'[h].keyOffset = records[h].keyOffset
              /\ records'[h].keySize = records[h].keySize
              /\ records'[h].codeOffset = records[h].codeOffset
              /\ records'[h].codeSize = records[h].codeSize
              /\ records'[h].reflOffset = records[h].reflOffset
              /\ records'[h].reflSize = records[h].reflSize
    PROVE  RecordRight(k)' /\ Pos(k)' = Pos(k)
<1>1. Pos(k)' = Pos(k)
  <2>1. k # 1 => k - 1 \in 1 .. k
    OBVIOUS
  <2>2. k # 1 => records'[k - 1].keyOffset = records[k - 1].keyOffset
    BY <2>1
  <2> QED
    BY <2>2, EntriesFrame DEF Pos
<1>2. ~Owns(Code, k) => Canonical(Code, k) \in 1 .. k
  BY CanonicalEarlier
<1>3. ~Owns(Refl, k) => Canonical(Refl, k) \in 1 .. k
  BY CanonicalEarlier
<1>4. k \in 1 .. k
  OBVIOUS
<1>5. RecordRight(k)'
  BY <1>1, <1>2, <1>3, <1>4, EntriesFrame DEF RecordRight
<1> QED
  BY <1>1, <1>5

\* The slots and the header likewise.
LEMMA SlotFrame ==
    ASSUME deps' = deps, hdr'.depsStringsOffset = hdr.depsStringsOffset,
           NEW k \in Nat \ {0}, \A h \in 1 .. k - 1 : slots'[h] = slots[h]
    PROVE  PathPos(k)' = PathPos(k)
<1>1. k # 1 => k - 1 \in 1 .. k - 1
  OBVIOUS
<1> QED
  BY <1>1 DEF PathPos

\* The record of entry i, at p, says where its pieces go, if they fit.
LEMMA NewRecordRight ==
    ASSUME TInv, LayoutEntry, NEW k, NEW p, k = i, p = cursor, p = Pos(k), cursor' < Wrap,
           \A h \in DOMAIN records : RecordRight(h)
    PROVE  RecordRight(k)' /\ Pos(k + 1)' = cursor'
<1>1. /\ k \in DOMAIN queued /\ k \in Nat \ {0} /\ p \in Nat /\ Len(records) = k - 1
      /\ records \in Seq(Records) /\ records' = Append(records, NewRecord(p, k))
      /\ cursor' = AfterEntry(p, k) /\ NewRecord(p, k) \in Records /\ TypeOK
      /\ queued' = queued
  BY LayoutEntryStep DEF TInv, TypeOK, LayoutEntry, writer
<1>2. \A h \in 1 .. k - 1 : records'[h] = records[h] /\ h \in DOMAIN records
  BY <1>1
<1>3. records'[k] = NewRecord(p, k)
  BY <1>1
<1>4. Pos(k)' = p
  <2>1. k # 1 => k - 1 \in 1 .. k - 1
    BY <1>1
  <2>2. k # 1 => records'[k - 1] = records[k - 1]
    BY <1>2, <2>1
  <2> QED
    BY <1>1, <2>2, EntriesFrame DEF Pos
<1> DEFINE key == Size(queued[k].key) + 1
<1>5. /\ key \in Nat /\ Size(Code[k]) \in Nat /\ Size(Refl[k]) \in Nat
      /\ CodeAt(p, k) \in Nat /\ ReflAt(p, k) \in Nat /\ AfterEntry(p, k) \in Nat
      /\ AfterCode(p, k) \in Nat
  <2>1. Size(queued[k].key) \in Nat /\ Size(Code[k]) \in Nat /\ Size(Refl[k]) \in Nat
    BY <1>1, QueuedTypes
  <2>2. /\ CodeAt(p, k) \in Nat /\ ReflAt(p, k) \in Nat /\ AfterEntry(p, k) \in Nat
        /\ AfterCode(p, k) \in Nat
    BY <1>1, PieceTypes
  <2> QED
    BY <2>1, <2>2
<1>6. U32(p) = p /\ U32(key) = key
  <2>1. p + key <= AfterCode(p, k) /\ AfterCode(p, k) <= AfterEntry(p, k)
    <3>1. /\ p + Size(queued[k].key) + 1 <= AfterCode(p, k)
          /\ AfterCode(p, k) <= AfterEntry(p, k)
          /\ Size(queued[k].key) \in Nat
      BY <1>1, PieceTypes, QueuedTypes
    <3> QED
      BY SMTT(60), <1>1, <1>5, <3>1
  <2> HIDE DEF key
  <2>2. p < Wrap /\ key < Wrap
    BY SMTT(60), <1>1, <1>5, <2>1, BlobAssumption
  <2> QED
    BY <1>1, <1>5, <2>2, Casts
<1>7. Owns(Code, k) => /\ U32(CodeAt(p, k)) = CodeAt(p, k)
                       /\ U32(Size(Code[k])) = Size(Code[k])
  <2> SUFFICES ASSUME Owns(Code, k) PROVE /\ U32(CodeAt(p, k)) = CodeAt(p, k)
                                          /\ U32(Size(Code[k])) = Size(Code[k])
    OBVIOUS
  <2>1. CodeAt(p, k) + Size(Code[k]) = AfterCode(p, k) /\ AfterCode(p, k) <= AfterEntry(p, k)
    BY <1>1, PieceTypes
  <2>2. CodeAt(p, k) < Wrap /\ Size(Code[k]) < Wrap
    BY SMTT(60), <1>1, <1>5, <2>1, BlobAssumption
  <2> QED
    BY <1>5, <2>2, Casts
<1>8. Owns(Refl, k) => /\ U32(ReflAt(p, k)) = ReflAt(p, k)
                       /\ U32(Size(Refl[k])) = Size(Refl[k])
  <2> SUFFICES ASSUME Owns(Refl, k) PROVE /\ U32(ReflAt(p, k)) = ReflAt(p, k)
                                          /\ U32(Size(Refl[k])) = Size(Refl[k])
    OBVIOUS
  <2>1. ReflAt(p, k) + Size(Refl[k]) = AfterEntry(p, k)
    BY <1>1, PieceTypes
  <2>2. ReflAt(p, k) < Wrap /\ Size(Refl[k]) < Wrap
    BY SMTT(60), <1>1, <1>5, <2>1, BlobAssumption
  <2> QED
    BY <1>5, <2>2, Casts
<1>9. ~Owns(Code, k) => /\ Canonical(Code, k) \in 1 .. k - 1
                        /\ records'[Canonical(Code, k)] = records[Canonical(Code, k)]
                        /\ records[Canonical(Code, k)].codeSize = Size(Code[k])
  <2> SUFFICES ASSUME ~Owns(Code, k)
               PROVE  /\ Canonical(Code, k) \in 1 .. k - 1
                      /\ records'[Canonical(Code, k)] = records[Canonical(Code, k)]
                      /\ records[Canonical(Code, k)].codeSize = Size(Code[k])
    OBVIOUS
  <2>1. Canonical(Code, k) \in 1 .. k - 1 /\ Code[Canonical(Code, k)] = Code[k]
    BY <1>1, CanonicalEarlier
  <2>2. RecordRight(Canonical(Code, k))
    BY <1>2, <2>1
  <2> QED
    BY <1>2, <2>1, <2>2 DEF RecordRight
<1>10. ~Owns(Refl, k) => /\ Canonical(Refl, k) \in 1 .. k - 1
                         /\ records'[Canonical(Refl, k)] = records[Canonical(Refl, k)]
                         /\ records[Canonical(Refl, k)].reflSize = Size(Refl[k])
  <2> SUFFICES ASSUME ~Owns(Refl, k)
               PROVE  /\ Canonical(Refl, k) \in 1 .. k - 1
                      /\ records'[Canonical(Refl, k)] = records[Canonical(Refl, k)]
                      /\ records[Canonical(Refl, k)].reflSize = Size(Refl[k])
    OBVIOUS
  <2>1. Canonical(Refl, k) \in 1 .. k - 1 /\ Refl[Canonical(Refl, k)] = Refl[k]
    BY <1>1, CanonicalEarlier
  <2>2. RecordRight(Canonical(Refl, k))
    BY <1>2, <2>1
  <2> QED
    BY <1>2, <2>1, <2>2 DEF RecordRight
<1> DEFINE r == records'[k]
<1>11. /\ r.keyOffset = U32(p) /\ r.keySize = U32(key)
       /\ r.codeOffset = IF Owns(Code, k) THEN U32(CodeAt(p, k))
                         ELSE records[Canonical(Code, k)].codeOffset
       /\ r.codeSize = IF Owns(Code, k) THEN U32(Size(Code[k]))
                       ELSE records[Canonical(Code, k)].codeSize
       /\ r.reflOffset = IF Owns(Refl, k) THEN U32(ReflAt(p, k))
                         ELSE records[Canonical(Refl, k)].reflOffset
       /\ r.reflSize = IF Owns(Refl, k) THEN U32(Size(Refl[k]))
                       ELSE records[Canonical(Refl, k)].reflSize
  BY <1>3 DEF NewRecord
<1> HIDE DEF r, key
<1>12. r.keyOffset = p /\ r.keySize = key
  BY <1>6, <1>11
<1>13. /\ r.codeSize = Size(Code[k])
       /\ r.codeOffset = IF Owns(Code, k) THEN CodeAt(p, k)
                         ELSE records'[Canonical(Code, k)].codeOffset
  BY <1>7, <1>9, <1>11
<1>14. /\ r.reflSize = Size(Refl[k])
       /\ r.reflOffset = IF Owns(Refl, k) THEN ReflAt(p, k)
                         ELSE records'[Canonical(Refl, k)].reflOffset
  BY <1>8, <1>10, <1>11
<1>15. RecordRight(k)'
  <2>1. /\ Owns(Code, k)' <=> Owns(Code, k)
        /\ Owns(Refl, k)' <=> Owns(Refl, k)
        /\ Canonical(Code, k)' = Canonical(Code, k) /\ Canonical(Refl, k)' = Canonical(Refl, k)
        /\ Code' = Code /\ Refl' = Refl
    BY <1>1, EntriesFrame
  <2>2. CodeAt(Pos(k), k)' = CodeAt(p, k) /\ ReflAt(Pos(k), k)' = ReflAt(p, k)
    BY <1>1, <1>4, EntriesFrame
  <2> QED
    BY <1>1, <1>4, <1>12, <1>13, <1>14, <2>1, <2>2 DEF RecordRight, r, key
<1>16. Pos(k + 1)' = cursor'
  <2>1. k + 1 # 1 /\ k + 1 - 1 = k
    BY <1>1
  <2> QED
    BY <1>1, <1>12, <2>1, EntriesFrame DEF Pos, r
<1> QED
  BY <1>15, <1>16

LEMMA SameRecords ==
    ASSUME queued' = queued, records' = records, records \in Seq(Records)
    PROVE  /\ \A k : Pos(k)' = Pos(k)
           /\ \A k \in DOMAIN records : RecordRight(k) => RecordRight(k)'
<1>1. \A k : Pos(k)' = Pos(k)
  BY EntriesFrame DEF Pos
<1>2. ASSUME NEW k \in DOMAIN records, RecordRight(k) PROVE RecordRight(k)'
  BY <1>2, RecordFrame
<1> QED
  BY <1>1, <1>2

LEMMA SameSlots ==
    ASSUME deps' = deps, slots' = slots, hdr'.depsStringsOffset = hdr.depsStringsOffset
    PROVE  /\ \A k : PathPos(k)' = PathPos(k)
           /\ \A k : SlotRight(k) => SlotRight(k)'
<1>1. \A k : PathPos(k)' = PathPos(k)
  BY DEF PathPos
<1> QED
  BY <1>1 DEF SlotRight

LEMMA LayoutRightStep ==
    ASSUME TInv, TInv', LayoutRight, [Next]_vars
    PROVE  LayoutRight'
<1>1. /\ i \in Nat \ {0} /\ cursor \in Nat /\ hdr \in Headers /\ cursor' \in Nat
      /\ hdr' \in Headers
      /\ records \in Seq(Records) /\ slots \in Seq(Slots) /\ running \in Offsets
      /\ records' \in Seq(Records) /\ slots' \in Seq(Slots)
      /\ DataStart \in Nat /\ Len(queued) \in Nat /\ Len(deps) \in Nat
      /\ DOMAIN queued = 1 .. Len(queued) /\ DOMAIN deps = 1 .. Len(deps)
      /\ DOMAIN records = 1 .. Len(records) /\ DOMAIN slots = 1 .. Len(slots)
  BY QueuedTypes DEF TInv, TypeOK
<1>2. SUFFICES ASSUME cursor' < Wrap
               PROVE  /\ \A k \in DOMAIN records' : RecordRight(k)'
                      /\ \A k \in DOMAIN slots' : SlotRight(k)'
                      /\ Stage' = 1 => cursor' = Pos(i)'
                      /\ Stage' \in 2 .. 7 =>
                            hdr'.depsStringsOffset = Align8(Pos(Len(queued) + 1)')
                      /\ Stage' = 2 => cursor' = PathPos(i)'
                      /\ Stage' \in 3 .. 7 =>
                            /\ hdr'.depsOffset = Align8(PathPos(Len(deps) + 1)')
                            /\ hdr'.depsCount = Len(deps')
                            /\ hdr'.entryDepsIdxOffset = Align4(hdr'.depsOffset + Len(deps') * DepSize)
                            /\ cursor' >= hdr'.entryDepsIdxOffset
  BY DEF LayoutRight
<1>3. CASE Stage' = 0
  <2>1. records' = <<>> /\ slots' = <<>>
    BY <1>3 DEF TInv, LaidOut
  <2> QED
    BY <1>3, <2>1
<1>4. CASE Finalize
  <2>1. Stage = 0 /\ Stage' = 1
    BY <1>4, Stages DEF Finalize, Stage
  <2>2. records = <<>> /\ slots = <<>>
    BY <2>1 DEF TInv, LaidOut
  <2>3. /\ records' = records /\ slots' = slots /\ i' = 1 /\ cursor' = DataStart
        /\ queued' = queued
    BY <1>4 DEF Finalize, writer
  <2>4. Pos(i)' = DataStart
    BY <2>3, EntriesFrame DEF Pos
  <2> QED
    BY <2>1, <2>2, <2>3, <2>4
<1>5. CASE LayoutEntry
  <2>1. Stage = 1 /\ Stage' = 1
    BY <1>5, Stages DEF LayoutEntry, Stage
  <2>2. /\ i \in DOMAIN queued /\ Len(records) = i - 1
        /\ records' = Append(records, NewRecord(cursor, i))
        /\ cursor' = AfterEntry(cursor, i)
        /\ i' = i + 1 /\ queued' = queued /\ slots' = slots
    BY <1>5, LayoutEntryStep DEF LayoutEntry, writer
  <2>3. cursor < Wrap
    <3>1. cursor < AfterEntry(cursor, i) /\ AfterEntry(cursor, i) \in Nat
      BY <1>1, <2>2, PieceTypes DEF TInv
    <3> QED
      BY <1>1, <1>2, <2>2, <3>1, BlobAssumption
  <2>4. cursor = Pos(i) /\ \A k \in DOMAIN records : RecordRight(k)
    BY <2>1, <2>3 DEF LayoutRight
  <2>5. \A k : k = i => RecordRight(k)' /\ Pos(k + 1)' = cursor'
    BY <1>2, <1>5, <2>4, NewRecordRight
  <2>6. \A k \in DOMAIN records : RecordRight(k)'
    <3> SUFFICES ASSUME NEW k \in DOMAIN records PROVE RecordRight(k)'
      OBVIOUS
    <3>1. \A h \in 1 .. k : records'[h] = records[h]
      BY SMTT(60), <1>1, <2>2
    <3>2. RecordRight(k) /\ k \in Nat \ {0}
      BY SMTT(60), <1>1, <2>4
    <3> QED
      BY <2>2, <3>1, <3>2, RecordFrame
  <2>7. DOMAIN records' = (DOMAIN records) \cup {i}
    BY <1>1, <2>2
  <2>8. Pos(i)' = cursor'
    <3>1. \A k : k = i' => Pos(k)' = cursor'
      <4>1. \A k : k = i + 1 => Pos(k)' = cursor'
        BY <2>5
      <4> QED
        BY <2>2, <4>1
    <3> QED
      BY <3>1
  <2>9. slots = <<>>
    BY <2>1 DEF TInv, LaidOut
  <2> QED
    BY <2>1, <2>2, <2>5, <2>6, <2>7, <2>8, <2>9
<1>6. CASE LayoutEntriesDone
  <2>1. Stage = 1 /\ Stage' = 2
    BY <1>6, Stages DEF LayoutEntriesDone, Stage
  <2>2. /\ i' = 1 /\ queued' = queued /\ slots' = slots /\ records' = records
        /\ cursor' = Align8(cursor) /\ i \notin DOMAIN queued
        /\ hdr'.depsStringsOffset = U32(cursor')
    BY <1>1, <1>6 DEF LayoutEntriesDone, writer, Headers
  <2>3. cursor < Wrap /\ cursor' \in Nat
    <3>1. cursor <= Align8(cursor) /\ Align8(cursor) \in Nat
      BY <1>1, Aligns
    <3> QED
      BY <1>1, <1>2, <2>2, <3>1, BlobAssumption
  <2>4. cursor = Pos(i) /\ \A k \in DOMAIN records : RecordRight(k)
    BY <2>1, <2>3 DEF LayoutRight
  <2>5. i = Len(queued) + 1
    BY <1>1, <2>1, <2>2 DEF TInv, LaidOut
  <2>6. hdr'.depsStringsOffset = cursor'
    BY <1>2, <2>2, <2>3, Casts
  <2>7. PathPos(i)' = cursor'
    BY <2>2, <2>6 DEF PathPos
  <2>8. \A k \in DOMAIN records' : RecordRight(k)'
    BY <1>1, <2>2, <2>4, SameRecords
  <2>9. Pos(Len(queued) + 1)' = cursor
    <3>1. \A k : Pos(k)' = Pos(k)
      BY <1>1, <2>2, SameRecords
    <3> QED
      BY <2>2, <2>4, <2>5, <3>1
  <2>10. slots' = <<>>
    BY <2>1, <2>2 DEF TInv, LaidOut
  <2> QED
    BY <2>1, <2>2, <2>6, <2>7, <2>8, <2>9, <2>10
<1>7. CASE LayoutPath
  <2>1. Stage = 2 /\ Stage' = 2
    BY <1>7, Stages DEF LayoutPath, Stage
  <2> DEFINE len == Size(deps[i].path)
             slot == [off |-> U32(cursor), len |-> U32(len)]
  <2>2. /\ i' = i + 1 /\ queued' = queued /\ records' = records /\ deps' = deps /\ hdr' = hdr
        /\ slots' = Append(slots, slot) /\ cursor' = cursor + len /\ i \in DOMAIN deps
    BY <1>7 DEF LayoutPath, writer
  <2>3. len \in Nat
    BY <2>2, QueuedTypes DEF TInv
  <2>4. cursor < Wrap /\ len < Wrap
    BY SMTT(60), <1>1, <1>2, <2>2, <2>3, BlobAssumption
  <2>5. /\ cursor = PathPos(i) /\ \A k \in DOMAIN records : RecordRight(k)
        /\ \A k \in DOMAIN slots : SlotRight(k)
        /\ hdr.depsStringsOffset = Align8(Pos(Len(queued) + 1))
    BY <2>1, <2>4 DEF LayoutRight
  <2>6. slot.off = cursor /\ slot.len = len
    BY <1>1, <2>3, <2>4, Casts
  <2>7. Len(slots) = i - 1
    BY <2>1 DEF TInv, LaidOut
  <2> HIDE DEF slot
  <2>8. /\ \A k \in 1 .. i - 1 : slots'[k] = slots[k] /\ k \in DOMAIN slots
        /\ slots'[i] = slot /\ DOMAIN slots' = 1 .. i
    BY <1>1, <2>2, <2>7
  <2>9. \A k \in 1 .. i : PathPos(k)' = PathPos(k)
    <3> SUFFICES ASSUME NEW k \in 1 .. i PROVE PathPos(k)' = PathPos(k)
      OBVIOUS
    <3>1. k \in Nat \ {0} /\ \A h \in 1 .. k - 1 : slots'[h] = slots[h]
      BY <1>1, <2>8
    <3> QED
      BY <2>2, <3>1, SlotFrame
  <2>10. \A k \in 1 .. i : SlotRight(k)'
    <3> SUFFICES ASSUME NEW k \in 1 .. i PROVE SlotRight(k)'
      OBVIOUS
    <3>1. CASE k = i
      BY <1>1, <2>2, <2>5, <2>6, <2>8, <2>9, <3>1 DEF SlotRight
    <3>2. CASE k # i
      <4>1. k \in 1 .. i - 1
        BY <1>1, <3>2
      <4>2. SlotRight(k) /\ slots'[k] = slots[k]
        BY <2>5, <2>8, <4>1
      <4> QED
        BY <2>2, <2>9, <4>2 DEF SlotRight
    <3> QED
      BY <3>1, <3>2
  <2>11. PathPos(i)' = cursor'
    <3>1. i' # 1 /\ i' - 1 = i
      BY <1>1, <2>2
    <3> QED
      BY <2>2, <2>6, <2>8, <3>1 DEF PathPos
  <2>12. \A k \in DOMAIN records' : RecordRight(k)'
    BY <1>1, <2>2, <2>5, SameRecords
  <2>13. Pos(Len(queued) + 1)' = Pos(Len(queued) + 1)
    <3>1. \A k : Pos(k)' = Pos(k)
      BY <1>1, <2>2, SameRecords
    <3> QED
      BY <2>2, <3>1
  <2> QED
    BY <2>1, <2>2, <2>5, <2>8, <2>10, <2>11, <2>12, <2>13
<1>8. CASE LayoutPathsDone
  <2>1. Stage = 2 /\ Stage' = 3
    BY <1>8, Stages DEF LayoutPathsDone, Stage
  <2> DEFINE table == Align8(cursor)
             pool == Align4(table + Len(deps) * DepSize)
  <2>2. /\ queued' = queued /\ records' = records /\ deps' = deps /\ slots' = slots
        /\ cursor' = pool /\ i \notin DOMAIN deps
        /\ hdr'.depsOffset = U32(table) /\ hdr'.depsCount = U32(Len(deps))
        /\ hdr'.entryDepsIdxOffset = U32(pool)
        /\ hdr'.depsStringsOffset = hdr.depsStringsOffset
    BY <1>1, <1>8 DEF LayoutPathsDone, writer, Headers
  <2>3. table \in Nat /\ cursor <= table
    BY <1>1, Aligns
  <2>4. /\ table + Len(deps) * DepSize \in Nat /\ table <= table + Len(deps) * DepSize
        /\ Len(deps) <= table + Len(deps) * DepSize
    <3> HIDE DEF table
    <3> QED
      BY <1>1, <2>3 DEF DepSize
  <2>5. pool \in Nat /\ table + Len(deps) * DepSize <= pool
    BY <2>4, Aligns
  <2> HIDE DEF pool
  <2>6. cursor < Wrap /\ table < Wrap /\ Len(deps) < Wrap /\ pool < Wrap
    <3> HIDE DEF table
    <3>1. \A a, b, c : /\ a \in Nat /\ b \in Nat /\ c \in Nat /\ a <= b /\ b <= c /\ c < Wrap
                       => a < Wrap
      BY BlobAssumption
    <3>2. table + Len(deps) * DepSize < Wrap
      BY <1>2, <2>2, <2>4, <2>5, BlobAssumption
    <3> QED
      BY <1>1, <1>2, <2>2, <2>3, <2>4, <2>5, <3>1, <3>2
  <2> HIDE DEF table
  <2>7. /\ hdr'.depsOffset = table /\ hdr'.depsCount = Len(deps)
        /\ hdr'.entryDepsIdxOffset = pool
    BY <1>1, <2>2, <2>3, <2>5, <2>6, Casts
  <2>8. /\ cursor = PathPos(i) /\ \A k \in DOMAIN records : RecordRight(k)
        /\ \A k \in DOMAIN slots : SlotRight(k)
        /\ hdr.depsStringsOffset = Align8(Pos(Len(queued) + 1))
    BY <2>1, <2>6 DEF LayoutRight
  <2>9. i = Len(deps) + 1
    BY SMTT(60), <1>1, <2>1, <2>2 DEF TInv, LaidOut
  <2>10. PathPos(Len(deps) + 1)' = cursor
    <3>1. \A k : PathPos(k)' = PathPos(k)
      BY <2>2, SameSlots
    <3> QED
      BY <2>2, <2>8, <2>9, <3>1
  <2>11. /\ \A k \in DOMAIN records' : RecordRight(k)'
         /\ \A k \in DOMAIN slots' : SlotRight(k)'
    BY <1>1, <2>2, <2>8, SameRecords, SameSlots
  <2>12. Pos(Len(queued) + 1)' = Pos(Len(queued) + 1)
    <3>1. \A k : Pos(k)' = Pos(k)
      BY <1>1, <2>2, SameRecords
    <3> QED
      BY <2>2, <3>1
  <2>13. cursor' >= hdr'.entryDepsIdxOffset
    BY <2>2, <2>5, <2>7
  <2>14. hdr'.depsOffset = Align8(PathPos(Len(deps) + 1)')
    BY <2>7, <2>10 DEF table
  <2>15. hdr'.entryDepsIdxOffset = Align4(hdr'.depsOffset + Len(deps') * DepSize)
    BY <2>2, <2>7 DEF pool
  <2> QED
    BY <2>1, <2>2, <2>7, <2>8, <2>11, <2>12, <2>13, <2>14, <2>15
<1>9. CASE LayoutIndices
  <2>1. Stage = 3 /\ Stage' = 3
    BY <1>9, Stages DEF LayoutIndices, Stage
  <2> DEFINE b == U32(Len(queued[i].deps))
  <2>2. /\ queued' = queued /\ deps' = deps /\ slots' = slots /\ hdr' = hdr /\ cursor' = cursor
        /\ i \in DOMAIN queued /\ records' = Updated(records, i, running, b)
    BY <1>9 DEF LayoutIndices, writer, Updated
  <2>3. b \in Offsets
    BY <2>2, QueuedTypes, Casts DEF TInv
  <2>4. i \in DOMAIN records
    BY <1>1, <2>1, <2>2 DEF TInv, LaidOut
  <2> HIDE DEF b
  <2>5. /\ DOMAIN records' = DOMAIN records
        /\ \A h \in DOMAIN records :
              /\ records'[h].keyOffset = records[h].keyOffset
              /\ records'[h].keySize = records[h].keySize
              /\ records'[h].codeOffset = records[h].codeOffset
              /\ records'[h].codeSize = records[h].codeSize
              /\ records'[h].reflOffset = records[h].reflOffset
              /\ records'[h].reflSize = records[h].reflSize
    <3>1. records \in Seq(Records) /\ running \in Offsets
      BY <1>1
    <3> QED
      BY SMTT(60), <2>2, <2>3, <2>4, <3>1, PoolUpdate
  <2>6. /\ \A k \in DOMAIN records : RecordRight(k)
        /\ \A k \in DOMAIN slots : SlotRight(k)
        /\ hdr.depsStringsOffset = Align8(Pos(Len(queued) + 1))
        /\ hdr.depsOffset = Align8(PathPos(Len(deps) + 1))
        /\ hdr.depsCount = Len(deps)
        /\ hdr.entryDepsIdxOffset = Align4(hdr.depsOffset + Len(deps) * DepSize)
        /\ cursor >= hdr.entryDepsIdxOffset
    BY <1>2, <2>1, <2>2 DEF LayoutRight
  <2>7. \A k \in DOMAIN records : RecordRight(k)'
    <3> SUFFICES ASSUME NEW k \in DOMAIN records PROVE RecordRight(k)'
      OBVIOUS
    <3>1. \A h \in 1 .. k : h \in DOMAIN records
      BY <1>1
    <3>2. k \in Nat \ {0} /\ RecordRight(k)
      BY SMTT(60), <1>1, <2>6
    <3> QED
      BY <2>2, <2>5, <3>1, <3>2, RecordFrame
  <2>8. Pos(Len(queued) + 1)' = Pos(Len(queued) + 1)
    <3>1. Len(records) = Len(queued)
      BY <2>1 DEF TInv, LaidOut
    <3>2. \A k : k = Len(queued) + 1 => Pos(k)' = Pos(k)
      <4> SUFFICES ASSUME NEW k, k = Len(queued) + 1 PROVE Pos(k)' = Pos(k)
        OBVIOUS
      <4>1. k # 1 => k - 1 \in DOMAIN records
        BY <1>1, <3>1
      <4>2. k # 1 => records'[k - 1].keyOffset = records[k - 1].keyOffset
        BY <2>5, <4>1
      <4> QED
        BY <2>2, <4>2, EntriesFrame DEF Pos
    <3> QED
      BY <2>2, <3>2
  <2>9. PathPos(Len(deps) + 1)' = PathPos(Len(deps) + 1)
    <3>1. \A k : PathPos(k)' = PathPos(k)
      BY <2>2, SameSlots
    <3> QED
      BY <2>2, <3>1
  <2>10. \A k \in DOMAIN slots' : SlotRight(k)'
    BY <2>2, <2>6, SameSlots
  <2> QED
    BY <2>1, <2>2, <2>5, <2>6, <2>7, <2>8, <2>9, <2>10
<1>10. ASSUME UNCHANGED <<queued, deps, records, slots, hdr>>, cursor <= cursor',
              Stage \in 3 .. 7, Stage' \in 4 .. 7
       PROVE  LayoutRight'
  <2>1. cursor < Wrap
    BY <1>1, <1>2, <1>10, BlobAssumption
  <2>2. /\ \A k \in DOMAIN records : RecordRight(k)
        /\ \A k \in DOMAIN slots : SlotRight(k)
        /\ hdr.depsStringsOffset = Align8(Pos(Len(queued) + 1))
        /\ hdr.depsOffset = Align8(PathPos(Len(deps) + 1))
        /\ hdr.depsCount = Len(deps)
        /\ hdr.entryDepsIdxOffset = Align4(hdr.depsOffset + Len(deps) * DepSize)
        /\ cursor >= hdr.entryDepsIdxOffset
    BY <1>10, <2>1 DEF LayoutRight
  <2>3. /\ \A k \in DOMAIN records' : RecordRight(k)'
        /\ \A k \in DOMAIN slots' : SlotRight(k)'
    BY <1>1, <1>10, <2>2, SameRecords, SameSlots
  <2>4. Pos(Len(queued) + 1)' = Pos(Len(queued) + 1)
    <3>1. \A k : Pos(k)' = Pos(k)
      BY <1>1, <1>10, SameRecords
    <3> QED
      BY <1>10, <3>1
  <2>5. PathPos(Len(deps) + 1)' = PathPos(Len(deps) + 1)
    <3>1. \A k : PathPos(k)' = PathPos(k)
      BY <1>10, SameSlots
    <3> QED
      BY <1>10, <3>1
  <2>6. cursor' >= hdr'.entryDepsIdxOffset
    <3>1. hdr.entryDepsIdxOffset \in Nat
      BY <1>1, OffsetsAreNat DEF Headers
    <3> QED
      BY <1>1, <1>10, <2>2, <3>1
  <2> QED
    BY <1>10, <2>2, <2>3, <2>4, <2>5, <2>6 DEF LayoutRight
<1>11. CASE LayoutDone
  <2>1. Stage = 3 /\ Stage' = 4
    BY <1>11, Stages DEF LayoutDone, Stage
  <2>2. UNCHANGED <<queued, deps, records, slots, hdr>> /\ cursor' = cursor + running * WordSize
    BY <1>11 DEF LayoutDone, writer
  <2>3. cursor <= cursor'
    BY <1>1, <2>2, OffsetsAreNat DEF WordSize
  <2> QED
    BY <1>2, <1>10, <2>1, <2>2, <2>3 DEF LayoutRight
<1>12. CASE \/ EmitEntry \/ EmitEntriesDone \/ EmitPath \/ EmitPathsDone
            \/ EmitRow \/ EmitRowsDone \/ EmitIndices
  <2>1. UNCHANGED <<queued, deps, records, slots, hdr, cursor>>
    BY <1>12 DEF EmitEntry, EmitEntriesDone, EmitPath, EmitPathsDone, EmitRow, EmitRowsDone,
                 EmitIndices, layout, writer
  <2>2. Stage \in 4 .. 7 /\ Stage' \in 4 .. 7
    BY <1>12, Stages DEF EmitEntry, EmitEntriesDone, EmitPath, EmitPathsDone, EmitRow,
                         EmitRowsDone, EmitIndices, Stage
  <2> QED
    BY <1>1, <1>2, <1>10, <2>1, <2>2 DEF LayoutRight
<1>13. CASE UNCHANGED vars
  <2>1. /\ UNCHANGED <<queued, deps, records, slots, hdr, cursor, i>> /\ Stage' = Stage
    BY <1>13 DEF vars, writer, layout, Stage
  <2>2. /\ \A k : Pos(k)' = Pos(k) /\ PathPos(k)' = PathPos(k)
        /\ \A k \in DOMAIN records : RecordRight(k) => RecordRight(k)'
        /\ \A k : SlotRight(k) => SlotRight(k)'
    BY <1>1, <2>1, SameRecords, SameSlots
  <2>3. /\ Pos(i)' = Pos(i) /\ Pos(Len(queued) + 1)' = Pos(Len(queued) + 1)
        /\ PathPos(i)' = PathPos(i) /\ PathPos(Len(deps) + 1)' = PathPos(Len(deps) + 1)
    BY <2>1, <2>2
  <2> QED
    BY <1>2, <2>1, <2>2, <2>3 DEF LayoutRight
<1>14. CASE /\ ~UNCHANGED vars
            /\ ~(\/ Finalize \/ LayoutEntry \/ LayoutEntriesDone \/ LayoutPath
                 \/ LayoutPathsDone \/ LayoutIndices \/ LayoutDone
                 \/ EmitEntry \/ EmitEntriesDone \/ EmitPath \/ EmitPathsDone
                 \/ EmitRow \/ EmitRowsDone \/ EmitIndices)
  <2>1. \/ \E e \in Queueable : AddEntry(e)
        \/ \E ds \in DepLists : SetDependencies(ds)
        \/ \E h \in Hashes : SetOptionsHash(h)
        \/ \E c \in Codecs : SetCompression(c)
        \/ Return \/ (\E n \in CutPoints(file) : Grow(n)) \/ Close \/ Destroy
    BY <1>14 DEF Next
  <2>2. Stage' = 0
    BY <2>1, Stages DEF AddEntry, SetDependencies, SetOptionsHash, SetCompression, Return, Grow,
                        Close, Destroy, Stage
  <2> QED
    BY <1>3, <2>2
<1> QED
  BY <1>4, <1>5, <1>6, <1>7, <1>8, <1>9, <1>11, <1>12, <1>13, <1>14

-----------------------------------------------------------------------------
(* The second pass.                                                        *)

Emits == \/ EmitEntry \/ EmitEntriesDone \/ EmitPath \/ EmitPathsDone
         \/ EmitRow \/ EmitRowsDone \/ EmitIndices

\* The second pass leaves the layout alone.
LEMMA EmitFrame ==
    ASSUME TInv, Emits
    PROVE  /\ UNCHANGED <<writer, queued, deps, records, slots, hdr, cursor>>
           /\ Stage \in 4 .. 7 /\ Stage' \in 4 .. 7
           /\ \A k : Pos(k)' = Pos(k) /\ PathPos(k)' = PathPos(k) /\ IdxPos(k)' = IdxPos(k)
<1>1. UNCHANGED <<writer, queued, deps, records, slots, hdr, cursor>>
  BY DEF Emits, EmitEntry, EmitEntriesDone, EmitPath, EmitPathsDone, EmitRow, EmitRowsDone,
         EmitIndices, layout, writer
<1>2. Stage \in 4 .. 7 /\ Stage' \in 4 .. 7
  BY Stages DEF Emits, EmitEntry, EmitEntriesDone, EmitPath, EmitPathsDone, EmitRow,
                EmitRowsDone, EmitIndices, Stage
<1>3. records \in Seq(Records)
  BY DEF TInv, TypeOK
<1>4. \A k : IdxPos(k)' = IdxPos(k)
  BY <1>1 DEF IdxPos
<1> QED
  BY <1>1, <1>2, <1>3, <1>4, SameRecords, SameSlots

\* While blobs fit, the second pass knows this of the layout.
LEMMA EmitContext ==
    ASSUME TInv, LayoutRight, cursor < Wrap, Stage \in 4 .. 7
    PROVE  /\ DOMAIN records = 1 .. Len(queued) /\ DOMAIN slots = 1 .. Len(deps)
           /\ \A k \in DOMAIN records : RecordRight(k) /\ PoolRight(k)
           /\ \A k \in DOMAIN slots : SlotRight(k)
           /\ hdr.depsStringsOffset = Align8(Pos(Len(queued) + 1))
           /\ hdr.depsOffset = Align8(PathPos(Len(deps) + 1))
           /\ hdr.depsCount = Len(deps)
           /\ hdr.entryDepsIdxOffset = Align4(hdr.depsOffset + Len(deps) * DepSize)
           /\ cursor >= hdr.entryDepsIdxOffset
           /\ hdr.depsOffset \in Nat /\ hdr.entryDepsIdxOffset \in Nat
<1>1. records \in Seq(Records) /\ slots \in Seq(Slots) /\ hdr \in Headers
  BY DEF TInv, TypeOK
<1>2. /\ Len(records) = Len(queued) /\ Len(slots) = Len(deps)
      /\ \A k \in DOMAIN records : PoolRight(k)
  BY DEF TInv, LaidOut
<1>3. hdr.depsOffset \in Nat /\ hdr.entryDepsIdxOffset \in Nat
  BY <1>1, OffsetsAreNat DEF Headers
<1> QED
  BY <1>1, <1>2, <1>3 DEF LayoutRight

\* The second pass appends.
LEMMA OutGrows ==
    ASSUME TInv, Emits
    PROVE  /\ out.size <= out'.size /\ out.strings \subseteq out'.strings
           /\ out.rows \subseteq out'.rows /\ out.words \subseteq out'.words
<1>1. i \in Nat \ {0} /\ out.size \in Nat /\ out \in Bytes /\ TypeOK
  BY DEF TInv, TypeOK, Bytes
<1>2. CASE EmitEntry
  <2>1. i \in DOMAIN queued /\ out' = [out EXCEPT !.strings = @ \cup NewChunks,
                                                 !.size = AfterEntry(out.size, i)]
    BY <1>1, <1>2, EmitEntryStep
  <2>2. out.size < AfterEntry(out.size, i) /\ AfterEntry(out.size, i) \in Nat
    BY <1>1, <2>1, PieceTypes
  <2> QED
    BY <1>1, <2>1, <2>2 DEF Bytes
<1>3. CASE EmitEntriesDone \/ EmitPathsDone \/ EmitRowsDone
  BY <1>1, <1>3, Aligns DEF EmitEntriesDone, EmitPathsDone, EmitRowsDone, Bytes
<1>4. CASE EmitPath
  <2>1. Size(deps[i].path) \in Nat /\ out'.size = out.size + Size(deps[i].path)
    BY <1>1, <1>4, QueuedTypes DEF EmitPath, Bytes
  <2> QED
    BY <1>1, <1>4, <2>1 DEF EmitPath, Bytes
<1>5. CASE EmitRow
  BY <1>1, <1>5 DEF EmitRow, Bytes, DepSize
<1>6. CASE EmitIndices
  <2>1. Len(queued[i].deps) \in Nat /\ out'.size = out.size + Len(queued[i].deps) * WordSize
    BY <1>1, <1>6, QueuedTypes DEF EmitIndices, Bytes
  <2>2. out.size <= out'.size
    BY <1>1, <2>1 DEF WordSize
  <2> QED
    BY <1>1, <1>6, <2>2 DEF EmitIndices, Bytes
<1> QED
  BY <1>2, <1>3, <1>4, <1>5, <1>6 DEF Emits

LEMMA EmitRightStep ==
    ASSUME TInv, TInv', LayoutRight, EmitRight, [Next]_vars
    PROVE  EmitRight'
<1>1. /\ i \in Nat \ {0} /\ i' \in Nat \ {0} /\ cursor \in Nat /\ out.size \in Nat
      /\ out'.size \in Nat /\ out \in Bytes /\ TypeOK
      /\ records \in Seq(Records) /\ slots \in Seq(Slots)
      /\ Len(queued) \in Nat /\ Len(deps) \in Nat
      /\ DOMAIN queued = 1 .. Len(queued) /\ DOMAIN deps = 1 .. Len(deps)
  BY QueuedTypes DEF TInv, TypeOK, Bytes
<1>2. SUFFICES ASSUME cursor' < Wrap, out'.size < Wrap
               PROVE  /\ Stage' = 4 => out'.size = Pos(i)'
                      /\ Stage' = 5 => out'.size = PathPos(i)'
                      /\ Stage' = 6 => out'.size = hdr'.depsOffset + (i' - 1) * DepSize
                      /\ Stage' = 7 => out'.size = hdr'.entryDepsIdxOffset + IdxPos(i)' * WordSize
  BY DEF EmitRight
<1>3. CASE LayoutDone
  <2>1. Stage' = 4
    BY <1>3, Stages DEF LayoutDone, Stage
  <2>2. out'.size = DataStart /\ i' = 1 /\ queued' = queued
    BY <1>3 DEF LayoutDone, NoBytes, writer
  <2>3. Pos(i)' = DataStart
    BY <2>2, EntriesFrame DEF Pos
  <2> QED
    BY <2>1, <2>2, <2>3
<1>4. CASE Emits /\ out.size <= out'.size
  <2>1. /\ Stage \in 4 .. 7 /\ cursor < Wrap /\ out.size < Wrap
        /\ UNCHANGED <<writer, queued, deps, records, slots, hdr, cursor>>
        /\ \A k : Pos(k)' = Pos(k) /\ PathPos(k)' = PathPos(k) /\ IdxPos(k)' = IdxPos(k)
    BY SMTT(60), <1>1, <1>2, <1>4, EmitFrame, BlobAssumption
  <2>2. /\ Pos(i)' = Pos(i') /\ PathPos(i)' = PathPos(i') /\ IdxPos(i)' = IdxPos(i')
    BY <2>1
  <2>3. CASE EmitEntry
    <3>1. Stage = 4 /\ Stage' = 4
      BY <2>3, Stages DEF EmitEntry, Stage
    <3>2. i \in DOMAIN queued /\ i' = i + 1 /\ out'.size = AfterEntry(out.size, i)
      BY <1>1, <2>3, EmitEntryStep DEF EmitEntry, Bytes
    <3>3. out.size = Pos(i)
      BY <2>1, <3>1 DEF EmitRight
    <3>4. records[i].keyOffset = Pos(i)
      BY <1>1, <2>1, <3>2, EmitContext DEF RecordRight
    <3>5. Pos(i') = AfterEntry(Pos(i), i)
      <4>1. i' # 1 /\ i' - 1 = i
        BY <1>1, <3>2
      <4> QED
        BY <3>4, <4>1 DEF Pos
    <3> QED
      BY <2>2, <3>1, <3>2, <3>3, <3>5
  <2>4. CASE EmitEntriesDone
    <3>1. Stage = 4 /\ Stage' = 5
      BY <2>4, Stages DEF EmitEntriesDone, Stage
    <3>2. i \notin DOMAIN queued /\ i' = 1 /\ out'.size = Align8(out.size)
      BY <1>1, <2>4 DEF EmitEntriesDone, Bytes
    <3>3. out.size = Pos(i)
      BY <2>1, <3>1 DEF EmitRight
    <3>4. i = Len(queued) + 1
      BY <1>1, <3>1, <3>2 DEF TInv, LaidOut
    <3>5. PathPos(i') = Align8(Pos(i))
      BY <2>1, <3>2, <3>4, EmitContext DEF PathPos
    <3> QED
      BY <2>2, <3>1, <3>2, <3>3, <3>5
  <2>5. CASE EmitPath
    <3>1. Stage = 5 /\ Stage' = 5
      BY <2>5, Stages DEF EmitPath, Stage
    <3>2. i \in DOMAIN deps /\ i' = i + 1 /\ out'.size = out.size + Size(deps[i].path)
      BY <1>1, <2>5 DEF EmitPath, Bytes
    <3>3. out.size = PathPos(i)
      BY <2>1, <3>1 DEF EmitRight
    <3>4. slots[i].off = PathPos(i)
      BY <1>1, <2>1, <3>2, EmitContext DEF SlotRight
    <3>5. PathPos(i') = PathPos(i) + Size(deps[i].path)
      <4>1. i' # 1 /\ i' - 1 = i
        BY <1>1, <3>2
      <4> QED
        BY <3>4, <4>1 DEF PathPos
    <3> QED
      BY <2>2, <3>1, <3>2, <3>3, <3>5
  <2>6. CASE EmitPathsDone
    <3>1. Stage = 5 /\ Stage' = 6
      BY <2>6, Stages DEF EmitPathsDone, Stage
    <3>2. i \notin DOMAIN deps /\ i' = 1 /\ out'.size = Align8(out.size)
      BY <1>1, <2>6 DEF EmitPathsDone, Bytes
    <3>3. out.size = PathPos(i)
      BY <2>1, <3>1 DEF EmitRight
    <3>4. i = Len(deps) + 1
      BY SMTT(60), <1>1, <3>1, <3>2 DEF TInv, LaidOut
    <3>5. hdr.depsOffset = Align8(PathPos(i)) /\ hdr.depsOffset \in Nat
      BY <2>1, <3>4, EmitContext
    <3> QED
      BY <2>1, <3>1, <3>2, <3>3, <3>5 DEF DepSize
  <2>7. CASE EmitRow
    <3>1. Stage = 6 /\ Stage' = 6
      BY <2>7, Stages DEF EmitRow, Stage
    <3>2. i' = i + 1 /\ out'.size = out.size + DepSize
      BY <1>1, <2>7 DEF EmitRow, Bytes
    <3>3. out.size = hdr.depsOffset + (i - 1) * DepSize
      BY <2>1, <3>1 DEF EmitRight
    <3>4. hdr.depsOffset \in Nat
      BY <2>1, EmitContext
    <3> QED
      BY SMTT(60), <1>1, <2>1, <3>1, <3>2, <3>3, <3>4 DEF DepSize
  <2>8. CASE EmitRowsDone
    <3>1. Stage = 6 /\ Stage' = 7
      BY <2>8, Stages DEF EmitRowsDone, Stage
    <3>2. i \notin DOMAIN deps /\ i' = 1 /\ out'.size = Align4(out.size)
      BY <1>1, <2>8 DEF EmitRowsDone, Bytes
    <3>3. out.size = hdr.depsOffset + (i - 1) * DepSize
      BY <2>1, <3>1 DEF EmitRight
    <3>4. i - 1 = Len(deps)
      BY <1>1, <3>1, <3>2 DEF TInv, LaidOut
    <3>5. out'.size = hdr.entryDepsIdxOffset /\ hdr.entryDepsIdxOffset \in Nat
      BY <2>1, <3>2, <3>3, <3>4, EmitContext
    <3>6. IdxPos(i') = 0
      BY <3>2 DEF IdxPos
    <3> QED
      BY <2>1, <2>2, <3>1, <3>5, <3>6 DEF WordSize
  <2>9. CASE EmitIndices
    <3>1. Stage = 7 /\ Stage' = 7
      BY <2>9, Stages DEF EmitIndices, Stage
    <3> DEFINE count == Len(queued[i].deps)
    <3>2. i \in DOMAIN queued /\ i' = i + 1 /\ out'.size = out.size + count * WordSize
      BY <1>1, <2>9 DEF EmitIndices, Bytes
    <3>3. out.size = hdr.entryDepsIdxOffset + IdxPos(i) * WordSize
      BY <2>1, <3>1 DEF EmitRight
    <3>4. count \in Nat
      BY <1>1, <3>2, QueuedTypes
    <3>5. PoolRight(i) /\ hdr.entryDepsIdxOffset \in Nat /\ i \in DOMAIN records
      BY <1>1, <2>1, <3>2, EmitContext
    <3>6. IdxPos(i) \in Nat
      <4>1. records[i] \in Records
        BY <1>1, <3>5
      <4>2. records[i].depsIdxOff \in Nat
        BY <4>1, OffsetsAreNat DEF Records
      <4> QED
        BY <3>5, <4>2 DEF PoolRight
    <3> HIDE DEF count
    <3>7. count < Wrap /\ IdxPos(i) + count < Wrap
      BY <1>2, <3>2, <3>3, <3>4, <3>5, <3>6, BlobAssumption DEF WordSize
    <3>8. records[i].depsIdxOff = IdxPos(i) /\ records[i].depsIdxCount = count
      BY <3>4, <3>5, <3>7, Casts DEF PoolRight, count
    <3>9. IdxPos(i') = IdxPos(i) + count
      <4>1. i' # 1 /\ i' - 1 = i
        BY <1>1, <3>2
      <4> QED
        BY <3>4, <3>6, <3>7, <3>8, <4>1, Casts DEF IdxPos
    <3> QED
      BY <2>1, <2>2, <3>1, <3>2, <3>3, <3>4, <3>5, <3>6, <3>9 DEF WordSize
  <2> QED
    BY <1>4, <2>3, <2>4, <2>5, <2>6, <2>7, <2>8, <2>9 DEF Emits
<1>5. Emits => out.size <= out'.size
  BY OutGrows
<1>6. CASE UNCHANGED vars
  <2>1. /\ UNCHANGED <<queued, deps, records, slots, hdr, cursor, i, out>> /\ Stage' = Stage
    BY <1>6 DEF vars, writer, layout, Stage
  <2>2. Pos(i)' = Pos(i) /\ PathPos(i)' = PathPos(i) /\ IdxPos(i)' = IdxPos(i)
    <3>1. \A k : Pos(k)' = Pos(k) /\ PathPos(k)' = PathPos(k)
      BY <1>1, <2>1, SameRecords, SameSlots
    <3> QED
      BY <2>1, <3>1 DEF IdxPos
  <2> QED
    BY <1>2, <2>1, <2>2 DEF EmitRight
<1>7. CASE ~LayoutDone /\ ~Emits /\ ~UNCHANGED vars
  <2>1. Stage' \in 0 .. 3
    BY <1>7, Stages DEF Next, Emits, AddEntry, SetDependencies, SetOptionsHash, SetCompression,
         Finalize, LayoutEntry, LayoutEntriesDone, LayoutPath, LayoutPathsDone, LayoutIndices,
         Return, Grow, Close, Destroy, Stage
  <2> QED
    BY <2>1
<1> QED
  BY <1>3, <1>4, <1>5, <1>6, <1>7

\* o becomes q by pieces behind its end.
Appends(o, q) ==
    /\ o.size <= q.size
    /\ \A c \in q.strings \ o.strings : o.size <= c.off /\ c.off + c.len <= q.size
    /\ \A c, d \in q.strings \ o.strings : c.off = d.off /\ c.len = d.len /\ c.len > 0 => c = d
    /\ \A r \in q.rows \ o.rows : o.size <= r.off /\ r.off + DepSize <= q.size
    /\ \A r, s \in q.rows \ o.rows : r.off = s.off => r = s
    /\ \A w \in q.words \ o.words : o.size <= w.off /\ w.off + WordSize <= q.size
    /\ \A v, w \in q.words \ o.words : v.off = w.off => v = w

\* They do not overlap with those before it.
LEMMA UnmixedGrows ==
    ASSUME NEW o \in Bytes, NEW q \in Bytes, Unmixed(o), Appends(o, q)
    PROVE  Unmixed(q)
<1> DEFINE S == q.strings \ o.strings
           R == q.rows \ o.rows
           W == q.words \ o.words
<1>0. /\ \A c \in q.strings : c \in o.strings \/ c \in S
      /\ \A r \in q.rows : r \in o.rows \/ r \in R
      /\ \A w \in q.words : w \in o.words \/ w \in W
      /\ o.size <= q.size
      /\ \A c \in S : o.size <= c.off /\ c.off + c.len <= q.size
      /\ \A c, d \in S : c.off = d.off /\ c.len = d.len /\ c.len > 0 => c = d
      /\ \A r \in R : o.size <= r.off /\ r.off + DepSize <= q.size
      /\ \A r, s \in R : r.off = s.off => r = s
      /\ \A w \in W : o.size <= w.off /\ w.off + WordSize <= q.size
      /\ \A v, w \in W : v.off = w.off => v = w
  BY DEF Appends
<1> HIDE DEF S, R, W
<1>1. /\ o.size \in Nat /\ q.size \in Nat
      /\ \A c \in q.strings : c.off \in Nat /\ c.len \in Nat
      /\ \A r \in q.rows : r.off \in Nat
      /\ \A w \in q.words : w.off \in Nat
  BY DEF Bytes, Chunks
<1>2. \A c \in q.strings : c.off + c.len <= q.size
  BY <1>0, <1>1 DEF Unmixed
<1>3. \A c, d \in q.strings : c.off = d.off /\ c.len = d.len /\ c.len > 0 => c = d
  <2> SUFFICES ASSUME NEW c \in q.strings, NEW d \in q.strings,
                      c.off = d.off, c.len = d.len, c.len > 0
               PROVE  c = d
    OBVIOUS
  <2>1. CASE c \in o.strings /\ d \in o.strings
    BY <1>0, <2>1 DEF Unmixed
  <2>2. CASE c \in S /\ d \in S
    BY <1>0, <2>2
  <2>3. c \in o.strings /\ d \in S => FALSE
    BY <1>0, <1>1 DEF Unmixed
  <2>4. c \in S /\ d \in o.strings => FALSE
    BY <1>0, <1>1 DEF Unmixed
  <2> QED
    BY <1>0, <2>1, <2>2, <2>3, <2>4
<1>4. \A r \in q.rows : r.off + DepSize <= q.size
  BY <1>0, <1>1 DEF Unmixed, DepSize
<1>5. \A r, s \in q.rows : r.off = s.off => r = s
  <2> SUFFICES ASSUME NEW r \in q.rows, NEW s \in q.rows, r.off = s.off
               PROVE  r = s
    OBVIOUS
  <2>1. CASE (r \in o.rows /\ s \in o.rows) \/ (r \in R /\ s \in R)
    BY <1>0, <2>1 DEF Unmixed
  <2>2. (r \in o.rows /\ s \in R) \/ (r \in R /\ s \in o.rows) => FALSE
    BY <1>0, <1>1 DEF Unmixed, DepSize
  <2> QED
    BY <1>0, <2>1, <2>2
<1>6. \A w \in q.words : w.off + WordSize <= q.size
  BY <1>0, <1>1 DEF Unmixed, WordSize
<1>7. \A v, w \in q.words : v.off = w.off => v = w
  <2> SUFFICES ASSUME NEW v \in q.words, NEW w \in q.words, v.off = w.off
               PROVE  v = w
    OBVIOUS
  <2>1. CASE (v \in o.words /\ w \in o.words) \/ (v \in W /\ w \in W)
    BY <1>0, <2>1 DEF Unmixed
  <2>2. (v \in o.words /\ w \in W) \/ (v \in W /\ w \in o.words) => FALSE
    BY <1>0, <1>1 DEF Unmixed, WordSize
  <2> QED
    BY <1>0, <2>1, <2>2
<1> QED
  BY <1>2, <1>3, <1>4, <1>5, <1>6, <1>7 DEF Unmixed

LEMMA UnmixedStep ==
    ASSUME TInv, TInv', Unmixed(out), Emits
    PROVE  Unmixed(out')
<1>1. /\ i \in Nat \ {0} /\ out.size \in Nat /\ out \in Bytes /\ out' \in Bytes /\ TypeOK
      /\ out'.size \in Nat /\ out.size <= out'.size
  BY OutGrows DEF TInv, TypeOK, Bytes
<1>2. CASE EmitEntry
  <2>1. /\ i \in DOMAIN queued
        /\ out' = [out EXCEPT !.strings = @ \cup NewChunks, !.size = AfterEntry(out.size, i)]
        /\ \A c \in NewChunks : /\ c \in Chunks
                                /\ out.size <= c.off
                                /\ c.off + c.len <= AfterEntry(out.size, i)
        /\ \A c, d \in NewChunks : c.off = d.off /\ c.len = d.len /\ c.len > 0 => c = d
    BY <1>1, <1>2, EmitEntryStep
  <2>2. /\ out'.strings = out.strings \cup NewChunks /\ out'.size = AfterEntry(out.size, i)
        /\ out'.rows = out.rows \cup {} /\ out'.words = out.words \cup {}
    BY <1>1, <2>1 DEF Bytes
  <2>3. Appends(out, out')
    BY <1>1, <2>1, <2>2 DEF Appends
  <2> QED
    BY <1>1, <2>3, UnmixedGrows
<1>3. CASE EmitEntriesDone \/ EmitPathsDone \/ EmitRowsDone
  <2>1. /\ out'.strings = out.strings \cup {} /\ out'.rows = out.rows \cup {}
        /\ out'.words = out.words \cup {}
    BY <1>1, <1>3 DEF Bytes, EmitEntriesDone, EmitPathsDone, EmitRowsDone
  <2>2. Appends(out, out')
    BY <1>1, <2>1 DEF Appends
  <2> QED
    BY <1>1, <2>2, UnmixedGrows
<1>4. CASE EmitPath
  <2> DEFINE path == deps[i].path
             c == Chunk(out.size, Size(path), path)
  <2>1. path \in Strings /\ Size(path) \in Nat
    BY <1>1, <1>4, QueuedTypes DEF EmitPath
  <2>2. c \in Chunks /\ c.off = out.size /\ c.len = Size(path)
    BY <1>1, <2>1 DEF Chunk, Chunks
  <2>3. /\ out'.strings = out.strings \cup {c} /\ out'.rows = out.rows \cup {}
        /\ out'.words = out.words \cup {} /\ out'.size = out.size + Size(path)
    BY <1>1, <1>4 DEF Bytes, EmitPath
  <2> HIDE DEF c, path
  <2>4. out.size <= c.off /\ c.off + c.len <= out'.size
    BY <1>1, <2>1, <2>2, <2>3
  <2>5. Appends(out, out')
    BY <1>1, <2>3, <2>4 DEF Appends
  <2> QED
    BY <1>1, <2>5, UnmixedGrows
<1>5. CASE EmitRow
  <2> DEFINE row == [off |-> out.size, path |-> slots[i], hash |-> deps[i].hash]
  <2>1. /\ out'.rows = out.rows \cup {row} /\ out'.strings = out.strings \cup {}
        /\ out'.words = out.words \cup {} /\ out'.size = out.size + DepSize
    BY <1>1, <1>5 DEF Bytes, EmitRow
  <2>2. row.off = out.size
    OBVIOUS
  <2> HIDE DEF row
  <2>3. out.size <= row.off /\ row.off + DepSize <= out'.size
    BY <1>1, <2>1, <2>2 DEF DepSize
  <2>4. Appends(out, out')
    BY <1>1, <2>1, <2>3 DEF Appends
  <2> QED
    BY <1>1, <2>4, UnmixedGrows
<1>6. CASE EmitIndices
  <2> DEFINE idx == queued[i].deps
             words == {[off |-> out.size + (j - 1) * WordSize, idx |-> idx[j]] : j \in DOMAIN idx}
  <2>1. idx \in Seq(Nat)
    BY <1>1, <1>6, QueuedTypes DEF EmitIndices
  <2>2. /\ out'.words = out.words \cup words /\ out'.strings = out.strings \cup {}
        /\ out'.rows = out.rows \cup {} /\ out'.size = out.size + Len(idx) * WordSize
    BY <1>1, <1>6 DEF Bytes, EmitIndices
  <2>3. \A w \in words : \E j \in DOMAIN idx :
           w = [off |-> out.size + (j - 1) * WordSize, idx |-> idx[j]]
    OBVIOUS
  <2> HIDE DEF idx, words
  <2>4. DOMAIN idx = 1 .. Len(idx) /\ Len(idx) \in Nat
    BY <2>1
  <2>5. \A w \in words : out.size <= w.off /\ w.off + WordSize <= out'.size
    <3> SUFFICES ASSUME NEW w \in words PROVE out.size <= w.off /\ w.off + WordSize <= out'.size
      OBVIOUS
    <3>1. PICK j \in 1 .. Len(idx) :
             w = [off |-> out.size + (j - 1) * WordSize, idx |-> idx[j]]
      BY <2>3, <2>4
    <3>2. w.off = out.size + (j - 1) * WordSize
      BY <3>1
    <3> QED
      BY <1>1, <2>2, <2>4, <3>2 DEF WordSize
  <2>6. \A v, w \in words : v.off = w.off => v = w
    <3> SUFFICES ASSUME NEW v \in words, NEW w \in words, v.off = w.off PROVE v = w
      OBVIOUS
    <3>1. PICK j \in 1 .. Len(idx) :
             v = [off |-> out.size + (j - 1) * WordSize, idx |-> idx[j]]
      BY <2>3, <2>4
    <3>2. PICK k \in 1 .. Len(idx) :
             w = [off |-> out.size + (k - 1) * WordSize, idx |-> idx[k]]
      BY <2>3, <2>4
    <3>3. out.size + (j - 1) * WordSize = out.size + (k - 1) * WordSize
      BY <3>1, <3>2
    <3>4. j = k
      BY <1>1, <2>4, <3>3 DEF WordSize
    <3> QED
      BY <3>1, <3>2, <3>4
  <2>7. Appends(out, out')
    BY <1>1, <2>2, <2>5, <2>6 DEF Appends
  <2> QED
    BY <1>1, <2>7, UnmixedGrows
<1> QED
  BY <1>2, <1>3, <1>4, <1>5, <1>6 DEF Emits

\* What is stored stays stored.
LEMMA StoredFrame ==
    ASSUME TInv, Emits, NEW k
    PROVE  /\ EntryStored(records, out, k) => EntryStored(records, out, k)'
           /\ PathStored(slots[k], out, k) => PathStored(slots[k], out, k)'
           /\ RowStored(hdr, out, k) => RowStored(hdr, out, k)'
           /\ k \in DOMAIN queued /\ WordsStored(records, hdr, out, k)
                => WordsStored(records, hdr, out, k)'
<1>1. /\ queued' = queued /\ deps' = deps /\ records' = records /\ slots' = slots /\ hdr' = hdr
      /\ out.size <= out'.size /\ out.strings \subseteq out'.strings
      /\ out.rows \subseteq out'.rows /\ out.words \subseteq out'.words
  BY EmitFrame, OutGrows
<1>2. Code' = Code /\ Refl' = Refl
  BY <1>1, EntriesFrame
<1>3. EntryStored(records, out, k) => EntryStored(records, out, k)'
  BY <1>1, <1>2 DEF EntryStored
<1>4. \A slot : PathStored(slot, out, k) => PathStored(slot, out, k)'
  BY <1>1 DEF PathStored
<1>5. PathStored(slots[k], out, k) => PathStored(slots[k], out, k)'
  BY <1>1 DEF PathStored
<1>6. RowStored(hdr, out, k) => RowStored(hdr, out, k)'
  BY <1>1, <1>4 DEF RowStored
<1>7. ASSUME k \in DOMAIN queued, WordsStored(records, hdr, out, k)
      PROVE  WordsStored(records, hdr, out, k)'
  <2> DEFINE at == hdr.entryDepsIdxOffset + records[k].depsIdxOff * WordSize
             n == Len(queued[k].deps)
  <2>1. /\ records[k].depsIdxCount = n /\ at + n * WordSize <= out.size
        /\ \A j \in DOMAIN queued[k].deps :
              [off |-> at + (j - 1) * WordSize, idx |-> queued[k].deps[j]] \in out.words
    BY <1>7 DEF WordsStored
  <2>2. at \in Nat /\ n \in Nat /\ out.size \in Nat /\ out'.size \in Nat
    <3>1. records \in Seq(Records) /\ k \in DOMAIN records
      <4>1. Len(records) = Len(queued)
        BY EmitFrame DEF TInv, LaidOut
      <4>2. records \in Seq(Records) /\ queued \in Seq(Queueable)
        BY DEF TInv, TypeOK
      <4> QED
        BY <1>7, <4>1, <4>2
    <3>2. records[k] \in Records
      BY <3>1
    <3>3. records[k].depsIdxOff \in Nat /\ hdr.entryDepsIdxOffset \in Nat
      BY <3>2, OffsetsAreNat DEF Records, TInv, TypeOK, Headers
    <3>4. n \in Nat
      BY <1>7, QueuedTypes DEF TInv
    <3>5. out.size \in Nat /\ out'.size \in Nat
      <4>1. TypeOK /\ out \in Bytes /\ out.size \in Nat
        BY DEF TInv, TypeOK, Bytes
      <4>2. out' \in Bytes
        BY TypeEmit DEF Emits, TypeOK
      <4> QED
        BY <4>1, <4>2 DEF Bytes
    <3> QED
      BY SMTT(60), <3>3, <3>4, <3>5 DEF WordSize
  <2> HIDE DEF at, n
  <2>3. at + n * WordSize <= out'.size
    BY <1>1, <2>1, <2>2 DEF WordSize
  <2> QED
    BY <1>1, <2>1, <2>3 DEF WordsStored, at, n
<1> QED
  BY <1>3, <1>5, <1>6, <1>7

\* The pieces of entry i are where its record says.
LEMMA NewEntryStored ==
    ASSUME TInv, LayoutRight, EmitRight, Emitted, EmitEntry, cursor < Wrap, out.size < Wrap,
           NEW k, k = i
    PROVE  EntryStored(records, out, k)'
<1>1. /\ Emits /\ Stage = 4 /\ queued' = queued /\ records' = records
      /\ Code' = Code /\ Refl' = Refl
  BY EmitFrame, EntriesFrame, Stages DEF Emits, EmitEntry, Stage
<1> DEFINE p == out.size
           r == records[k]
<1>2. /\ k \in DOMAIN queued /\ k \in Nat /\ out'.strings = out.strings \cup NewChunks
      /\ p = Pos(k) /\ RecordRight(k)
      /\ DOMAIN queued = 1 .. Len(queued)
      /\ \A h \in 1 .. k - 1 : EntryStored(records, out, h)
  <2>1. /\ i \in DOMAIN queued /\ out' = [out EXCEPT !.strings = @ \cup NewChunks,
                                                   !.size = AfterEntry(out.size, i)]
        /\ DOMAIN queued = 1 .. Len(queued)
    BY EmitEntryStep, QueuedTypes DEF TInv
  <2>2. out'.strings = out.strings \cup NewChunks
    BY <2>1 DEF TInv, TypeOK, Bytes
  <2>3. RecordRight(k)
    BY <1>1, <2>1, EmitContext
  <2>4. p = Pos(k) /\ \A h \in 1 .. k - 1 : EntryStored(records, out, h)
    BY <1>1 DEF EmitRight, Emitted
  <2>5. k \in Nat
    BY DEF TInv, TypeOK
  <2> QED
    BY <2>1, <2>2, <2>3, <2>4, <2>5
<1>3. /\ Chunk(p, Size(queued[k].key) + 1, queued[k].key) \in NewChunks
      /\ Owns(Code, k) => Chunk(CodeAt(p, k), Size(Code[k]), Code[k]) \in NewChunks
      /\ Owns(Refl, k) => Chunk(ReflAt(p, k), Size(Refl[k]), Refl[k]) \in NewChunks
  BY DEF NewChunks
<1> HIDE DEF p
<1>4. r.keyOffset = p /\ r.keySize = Size(queued[k].key) + 1
      /\ r.codeSize = Size(Code[k]) /\ r.reflSize = Size(Refl[k])
  BY <1>2 DEF RecordRight
<1>5. Code[k] # Empty => Chunk(r.codeOffset, r.codeSize, Code[k]) \in out'.strings
  <2>1. CASE Owns(Code, k)
    <3>1. r.codeOffset = CodeAt(p, k)
      BY <1>2, <2>1 DEF RecordRight
    <3> QED
      BY <1>2, <1>3, <1>4, <2>1, <3>1
  <2>2. CASE ~Owns(Code, k)
    <3> DEFINE c == Canonical(Code, k)
    <3>1. c \in 1 .. k - 1 /\ Code[c] = Code[k]
      BY <1>2, <2>2, CanonicalEarlier
    <3>2. r.codeOffset = records[c].codeOffset
      BY <1>2, <2>2 DEF RecordRight
    <3>3. EntryStored(records, out, c)
      BY <1>2, <3>1
    <3> HIDE DEF c
    <3> QED
      BY <1>2, <1>4, <3>1, <3>2, <3>3 DEF EntryStored
  <2> QED
    BY <2>1, <2>2
<1>6. Refl[k] # Empty => Chunk(r.reflOffset, r.reflSize, Refl[k]) \in out'.strings
  <2>1. CASE Owns(Refl, k)
    <3>1. r.reflOffset = ReflAt(p, k)
      BY <1>2, <2>1 DEF RecordRight
    <3> QED
      BY <1>2, <1>3, <1>4, <2>1, <3>1
  <2>2. CASE ~Owns(Refl, k)
    <3> DEFINE c == Canonical(Refl, k)
    <3>1. c \in 1 .. k - 1 /\ Refl[c] = Refl[k]
      BY <1>2, <2>2, CanonicalEarlier
    <3>2. r.reflOffset = records[c].reflOffset
      BY <1>2, <2>2 DEF RecordRight
    <3>3. EntryStored(records, out, c)
      BY <1>2, <3>1
    <3> HIDE DEF c
    <3> QED
      BY <1>2, <1>4, <3>1, <3>2, <3>3 DEF EntryStored
  <2> QED
    BY <2>1, <2>2
<1>7. Chunk(r.keyOffset, r.keySize, queued[k].key) \in out'.strings
  BY <1>2, <1>3, <1>4
<1> QED
  BY <1>1, <1>4, <1>5, <1>6, <1>7 DEF EntryStored

\* The path, the row and the indices that are appended are those of i.
LEMMA NewPathStored ==
    ASSUME TInv, LayoutRight, EmitRight, EmitPath, cursor < Wrap, out.size < Wrap,
           NEW k, k = i
    PROVE  PathStored(slots[k], out, k)'
<1>1. /\ Emits /\ Stage = 5 /\ deps' = deps /\ slots' = slots /\ k \in DOMAIN deps
      /\ out'.strings = out.strings \cup {Chunk(out.size, Size(deps[k].path), deps[k].path)}
  BY EmitFrame, Stages DEF Emits, EmitPath, Stage, TInv, TypeOK, Bytes
<1>2. SlotRight(k) /\ out.size = PathPos(k)
  <2>1. k \in DOMAIN slots
    BY <1>1, EmitContext, QueuedTypes DEF TInv
  <2> QED
    BY <1>1, <2>1, EmitContext DEF EmitRight
<1> QED
  BY <1>1, <1>2 DEF SlotRight, PathStored

LEMMA NewRowStored ==
    ASSUME TInv, LayoutRight, EmitRight, Emitted, EmitRow, cursor < Wrap, out.size < Wrap,
           NEW k, k = i
    PROVE  RowStored(hdr, out, k)'
<1> DEFINE row == [off |-> out.size, path |-> slots[k], hash |-> deps[k].hash]
<1>1. /\ Emits /\ Stage = 6 /\ deps' = deps /\ slots' = slots /\ hdr' = hdr
      /\ k \in DOMAIN deps /\ out'.rows = out.rows \cup {row}
  BY EmitFrame, Stages DEF Emits, EmitRow, Stage, TInv, TypeOK, Bytes
<1>2. row.off = hdr.depsOffset + (k - 1) * DepSize /\ row.hash = deps[k].hash
      /\ row.path = slots[k]
  BY <1>1 DEF EmitRight
<1>3. PathStored(slots[k], out, k)
  BY <1>1 DEF Emitted
<1>4. PathStored(slots[k], out, k)'
  BY <1>1, <1>3, StoredFrame
<1>5. /\ row.path.len = Size(deps'[k].path)
      /\ Chunk(row.path.off, row.path.len, deps'[k].path) \in out'.strings
  BY <1>1, <1>2, <1>4 DEF PathStored
<1> HIDE DEF row
<1>6. row \in out'.rows
  BY <1>1
<1> QED
  BY <1>1, <1>2, <1>5, <1>6 DEF RowStored, PathStored

LEMMA NewWordsStored ==
    ASSUME TInv, TInv', LayoutRight, EmitRight, EmitIndices, cursor < Wrap, out'.size < Wrap,
           NEW k, k = i
    PROVE  WordsStored(records, hdr, out, k)'
<1> DEFINE idx == queued[k].deps
<1>1. /\ Emits /\ Stage = 7 /\ queued' = queued /\ records' = records /\ hdr' = hdr
      /\ k \in DOMAIN queued
      /\ out'.words = out.words \cup
            {[off |-> out.size + (j - 1) * WordSize, idx |-> idx[j]] : j \in DOMAIN idx}
      /\ out'.size = out.size + Len(idx) * WordSize
  BY ZenonT(60), EmitFrame, Stages DEF Emits, EmitIndices, Stage, TInv, TypeOK, Bytes
<1>2. Len(idx) \in Nat /\ out.size \in Nat /\ out.size <= out'.size
  <2>1. Len(idx) \in Nat
    BY <1>1, QueuedTypes DEF TInv
  <2>2. out.size \in Nat
    BY DEF TInv, TypeOK, Bytes
  <2> QED
    BY <1>1, <2>1, <2>2, OutGrows
<1> DEFINE n == Len(idx)
<1>3. n \in Nat /\ out'.size = out.size + n * WordSize
  BY <1>1, <1>2
<1>4. n < Wrap /\ out.size < Wrap
  <2> HIDE DEF n
  <2> QED
    BY <1>2, <1>3, BlobAssumption DEF WordSize
<1>5. PoolRight(k) /\ out.size = hdr.entryDepsIdxOffset + IdxPos(k) * WordSize
  <2>1. k \in DOMAIN records
    BY <1>1, EmitContext, QueuedTypes DEF TInv
  <2> QED
    BY <1>1, <1>4, <2>1, EmitContext DEF EmitRight
<1>6. records[k].depsIdxCount = n
      /\ out.size = hdr.entryDepsIdxOffset + records[k].depsIdxOff * WordSize
  BY <1>3, <1>4, <1>5, Casts DEF PoolRight
<1>7. \A j \in DOMAIN idx : [off |-> out.size + (j - 1) * WordSize, idx |-> idx[j]] \in out'.words
  BY <1>1
<1>8. out.size + n * WordSize <= out'.size
  <2> HIDE DEF n
  <2> QED
    BY <1>2, <1>3 DEF WordSize
<1> QED
  BY <1>1, <1>6, <1>7, <1>8 DEF WordsStored

LEMMA EmittedStep ==
    ASSUME TInv, TInv', LayoutRight, EmitRight, Emitted, [Next]_vars
    PROVE  Emitted'
<1>1. /\ i \in Nat \ {0} /\ cursor \in Nat /\ out.size \in Nat /\ out'.size \in Nat
      /\ Len(queued) \in Nat /\ Len(deps) \in Nat
      /\ DOMAIN queued = 1 .. Len(queued) /\ DOMAIN deps = 1 .. Len(deps)
  BY QueuedTypes DEF TInv, TypeOK, Bytes
<1>2. CASE LayoutDone
  <2>1. Stage' = 4 /\ i' = 1
    BY <1>2, Stages DEF LayoutDone, Stage
  <2>2. out'.strings = {} /\ out'.rows = {} /\ out'.words = {}
    BY <1>2 DEF LayoutDone, NoBytes
  <2>3. Unmixed(out')
    BY <2>2 DEF Unmixed
  <2> QED
    BY <2>1, <2>3 DEF Emitted
<1>3. CASE Emits
  <2>1. /\ Stage \in 4 .. 7 /\ Stage' \in 4 .. 7 /\ cursor' = cursor
        /\ queued' = queued /\ deps' = deps /\ slots' = slots /\ records' = records /\ hdr' = hdr
        /\ out.size <= out'.size
    BY <1>3, EmitFrame, OutGrows
  <2>2. Unmixed(out')
    BY <1>3, <2>1, UnmixedStep DEF Emitted
  <2>3. SUFFICES ASSUME cursor < Wrap, out'.size < Wrap
                 PROVE  Emitted'
    BY <2>1, <2>2 DEF Emitted
  <2>4. out.size < Wrap
    BY <1>1, <2>1, <2>3, BlobAssumption
  <2>5. /\ \A k : EntryStored(records, out, k) => EntryStored(records, out, k)'
        /\ \A k : PathStored(slots[k], out, k) => PathStored(slots[k], out, k)'
        /\ \A k : RowStored(hdr, out, k) => RowStored(hdr, out, k)'
        /\ \A k \in DOMAIN queued :
              WordsStored(records, hdr, out, k) => WordsStored(records, hdr, out, k)'
    BY <1>3, StoredFrame
  <2>6. CASE EmitEntry
    <3>1. Stage = 4 /\ Stage' = 4 /\ i' = i + 1
      BY <2>6, Stages DEF EmitEntry, Stage
    <3>2. \A k \in 1 .. i - 1 : EntryStored(records, out, k)'
      BY <2>3, <2>4, <2>5, <3>1 DEF Emitted
    <3>3. \A k : k = i => EntryStored(records, out, k)'
      BY <2>3, <2>4, <2>6, NewEntryStored
    <3>4. \A k \in 1 .. i' - 1 : k \in 1 .. i - 1 \/ k = i
      BY <1>1, <3>1
    <3> QED
      BY <2>2, <3>1, <3>2, <3>3, <3>4 DEF Emitted
  <2>7. CASE EmitEntriesDone
    <3>1. Stage = 4 /\ Stage' = 5 /\ i' = 1 /\ i \notin DOMAIN queued
      BY <2>7, Stages DEF EmitEntriesDone, Stage
    <3>2. \A k \in DOMAIN queued : k \in 1 .. i - 1
      BY <1>1, <3>1
    <3>3. \A k \in DOMAIN queued : EntryStored(records, out, k)'
      BY <2>3, <2>4, <2>5, <3>1, <3>2 DEF Emitted
    <3> QED
      BY <2>1, <2>2, <3>1, <3>3 DEF Emitted
  <2>8. CASE EmitPath
    <3>1. Stage = 5 /\ Stage' = 5 /\ i' = i + 1
      BY <2>8, Stages DEF EmitPath, Stage
    <3>2. /\ \A k \in 1 .. i - 1 : PathStored(slots[k], out, k)'
          /\ \A k \in DOMAIN queued : EntryStored(records, out, k)'
      BY <2>3, <2>4, <2>5, <3>1 DEF Emitted
    <3>3. \A k : k = i => PathStored(slots[k], out, k)'
      BY <2>3, <2>4, <2>8, NewPathStored
    <3>4. \A k \in 1 .. i' - 1 : k \in 1 .. i - 1 \/ k = i
      BY <1>1, <3>1
    <3> QED
      BY <2>1, <2>2, <3>1, <3>2, <3>3, <3>4 DEF Emitted
  <2>9. CASE EmitPathsDone
    <3>1. Stage = 5 /\ Stage' = 6 /\ i' = 1 /\ i \notin DOMAIN deps
      BY <2>9, Stages DEF EmitPathsDone, Stage
    <3>2. \A k \in DOMAIN deps : k \in 1 .. i - 1
      BY <1>1, <3>1
    <3>3. /\ \A k \in DOMAIN deps : PathStored(slots[k], out, k)'
          /\ \A k \in DOMAIN queued : EntryStored(records, out, k)'
      BY <2>3, <2>4, <2>5, <3>1, <3>2 DEF Emitted
    <3> QED
      BY <2>1, <2>2, <3>1, <3>3 DEF Emitted
  <2>10. CASE EmitRow
    <3>1. Stage = 6 /\ Stage' = 6 /\ i' = i + 1
      BY <2>10, Stages DEF EmitRow, Stage
    <3>2. /\ \A k \in DOMAIN deps : PathStored(slots[k], out, k)'
          /\ \A k \in DOMAIN queued : EntryStored(records, out, k)'
          /\ \A k \in 1 .. i - 1 : RowStored(hdr, out, k)'
      BY <2>3, <2>4, <2>5, <3>1 DEF Emitted
    <3>3. \A k : k = i => RowStored(hdr, out, k)'
      BY <2>3, <2>4, <2>10, NewRowStored
    <3>4. \A k \in 1 .. i' - 1 : k \in 1 .. i - 1 \/ k = i
      BY <1>1, <3>1
    <3> QED
      BY <2>1, <2>2, <3>1, <3>2, <3>3, <3>4 DEF Emitted
  <2>11. CASE EmitRowsDone
    <3>1. Stage = 6 /\ Stage' = 7 /\ i' = 1 /\ i \notin DOMAIN deps
      BY <2>11, Stages DEF EmitRowsDone, Stage
    <3>2. \A k \in DOMAIN deps : k \in 1 .. i - 1
      BY <1>1, <3>1
    <3>3. /\ \A k \in DOMAIN deps : PathStored(slots[k], out, k)'
          /\ \A k \in DOMAIN queued : EntryStored(records, out, k)'
          /\ \A k \in DOMAIN deps : RowStored(hdr, out, k)'
      BY <2>3, <2>4, <2>5, <3>1, <3>2 DEF Emitted
    <3> QED
      BY <2>1, <2>2, <3>1, <3>3 DEF Emitted
  <2>12. CASE EmitIndices
    <3>1. Stage = 7 /\ Stage' = 7 /\ i' = i + 1 /\ i \in DOMAIN queued
      BY <2>12, Stages DEF EmitIndices, Stage
    <3>2. /\ \A k \in DOMAIN deps : PathStored(slots[k], out, k)'
          /\ \A k \in DOMAIN queued : EntryStored(records, out, k)'
          /\ \A k \in DOMAIN deps : RowStored(hdr, out, k)'
      BY <2>3, <2>4, <2>5, <3>1 DEF Emitted
    <3>3. \A k \in 1 .. i - 1 : WordsStored(records, hdr, out, k)'
      <4>1. \A k \in 1 .. i - 1 : k \in DOMAIN queued
        BY <1>1, <3>1
      <4> QED
        BY <2>3, <2>4, <2>5, <3>1, <4>1 DEF Emitted
    <3>4. \A k : k = i => WordsStored(records, hdr, out, k)'
      BY <2>3, <2>12, NewWordsStored
    <3>5. \A k \in 1 .. i' - 1 : k \in 1 .. i - 1 \/ k = i
      BY <1>1, <3>1
    <3> QED
      BY <2>1, <2>2, <3>1, <3>2, <3>3, <3>4, <3>5 DEF Emitted
  <2> QED
    BY <1>3, <2>6, <2>7, <2>8, <2>9, <2>10, <2>11, <2>12 DEF Emits
<1>4. CASE UNCHANGED vars
  <2>1. /\ UNCHANGED <<queued, deps, records, slots, hdr, cursor, i, out>>
        /\ Stage' = Stage /\ Code' = Code /\ Refl' = Refl
    BY <1>4, EntriesFrame DEF vars, writer, layout, Stage
  <2>2. /\ \A k : EntryStored(records, out, k) => EntryStored(records, out, k)'
        /\ \A k : PathStored(slots[k], out, k) => PathStored(slots[k], out, k)'
        /\ \A k : RowStored(hdr, out, k) => RowStored(hdr, out, k)'
        /\ \A k : WordsStored(records, hdr, out, k) => WordsStored(records, hdr, out, k)'
    BY <2>1 DEF EntryStored, PathStored, RowStored, WordsStored
  <2> QED
    BY <2>1, <2>2 DEF Emitted
<1>5. CASE ~LayoutDone /\ ~Emits /\ ~UNCHANGED vars
  <2>1. Stage' \in 0 .. 3
    BY <1>5, Stages DEF Next, Emits, AddEntry, SetDependencies, SetOptionsHash, SetCompression,
         Finalize, LayoutEntry, LayoutEntriesDone, LayoutPath, LayoutPathsDone, LayoutIndices,
         Return, Grow, Close, Destroy, Stage
  <2> QED
    BY <2>1 DEF Emitted
<1> QED
  BY <1>2, <1>3, <1>4, <1>5

-----------------------------------------------------------------------------
(* The file, and what is read from it.                                     *)

\* What finalize returns.
LEMMA ReturnRight ==
    ASSUME TInv, TInv', LayoutRight, Emitted, Return
    PROVE  FileRight'
<1> DEFINE size == IF out.size < cursor THEN cursor ELSE out.size
           packed == IF size = HeaderSize THEN 0 ELSE PackedSize
<1>1. /\ file' = [length      |-> IF codec = "none" THEN size ELSE HeaderSize + packed,
                  codec       |-> codec,
                  size        |-> size,
                  payloadSize |-> U32(size - HeaderSize),
                  optionsHash |-> optionsHash,
                  hdr         |-> hdr,
                  records     |-> records,
                  out         |-> out]
      /\ Stage = 7 /\ i \notin DOMAIN queued /\ UNCHANGED <<queued, deps, codec, optionsHash>>
  BY Stages DEF Return, writer, Stage
<1>2. /\ i \in Nat \ {0} /\ out.size \in Nat /\ cursor \in Nat
      /\ Len(queued) \in Nat /\ Len(deps) \in Nat
      /\ DOMAIN queued = 1 .. Len(queued) /\ DOMAIN deps = 1 .. Len(deps)
      /\ DataStart \in Nat /\ DataStart >= HeaderSize + Len(queued) * RecordSize
  BY QueuedTypes DEF TInv, TypeOK, Bytes
<1>3. /\ cursor >= DataStart /\ Len(records) = Len(queued) /\ Unmixed(out)
      /\ hdr.entryCount = U32(Len(queued)) /\ i <= Len(queued) + 1
  BY <1>1 DEF TInv, LaidOut, Emitted
<1>4. /\ file'.codec = codec' /\ file'.optionsHash = optionsHash'
      /\ file'.payloadSize = U32(file'.size - HeaderSize) /\ file'.size = size
      /\ file'.length = IF codec' = "none" THEN file'.size
                        ELSE HeaderSize + (IF file'.size = HeaderSize THEN 0 ELSE PackedSize)
      /\ file'.records = records /\ file'.out = out /\ file'.hdr = hdr
  <2> HIDE DEF size
  <2> QED
    BY <1>1
<1>5. size >= HeaderSize + Len(queued) * RecordSize /\ out.size <= size
      /\ cursor <= size /\ size \in Nat
  <2>1. HeaderSize + Len(queued) * RecordSize \in Nat
    BY <1>2 DEF HeaderSize, RecordSize
  <2> HIDE DEF size
  <2>2. size \in Nat /\ out.size <= size /\ cursor <= size
    BY <1>2 DEF size
  <2> QED
    BY <1>2, <1>3, <2>1, <2>2
<1> HIDE DEF size, packed
<1>6. ASSUME size < Wrap
      PROVE  /\ hdr.entryCount = Len(queued) /\ hdr.depsCount = Len(deps)
             /\ \A k \in DOMAIN queued : EntryStored(records, out, k) /\ WordsStored(records, hdr, out, k)
             /\ \A d \in DOMAIN deps : RowStored(hdr, out, d)
  <2>1. cursor < Wrap /\ out.size < Wrap
    BY <1>2, <1>5, <1>6, BlobAssumption
  <2>2. Len(queued) < Wrap
    <3>1. Len(queued) <= HeaderSize + Len(queued) * RecordSize
          /\ HeaderSize + Len(queued) * RecordSize \in Nat
      BY <1>2 DEF HeaderSize, RecordSize
    <3> QED
      BY <1>2, <1>5, <1>6, <3>1, BlobAssumption
  <2>3. hdr.entryCount = Len(queued)
    BY <1>2, <1>3, <2>2, Casts
  <2>4. hdr.depsCount = Len(deps)
    BY <1>1, <2>1, EmitContext
  <2>5. \A k \in DOMAIN queued : k \in 1 .. i - 1
    BY <1>1, <1>2, <1>3
  <2> QED
    BY <1>1, <2>1, <2>3, <2>4, <2>5 DEF Emitted
<1>7. Code' = Code /\ Refl' = Refl
  BY <1>1, EntriesFrame
<1>8. /\ \A k : EntryStored(records, out, k) => EntryStored(file.records, file.out, k)'
      /\ \A k : RowStored(hdr, out, k) => RowStored(file.hdr, file.out, k)'
      /\ \A k : WordsStored(records, hdr, out, k) => WordsStored(file.records, file.hdr, file.out, k)'
  BY <1>1, <1>4, <1>7 DEF EntryStored, RowStored, PathStored, WordsStored
<1>9. file' \in Files
  <2>1. file' \in Files \cup {NoFile}
    BY DEF TInv, TypeOK
  <2>2. file' # NoFile
    BY <1>1 DEF NoFile
  <2> QED
    BY <2>1, <2>2
<1> QED
  BY <1>1, <1>3, <1>4, <1>5, <1>6, <1>8, <1>9 DEF FileRight

LEMMA FileRightStep ==
    ASSUME TInv, TInv', LayoutRight, Emitted, FileRight, [Next]_vars
    PROVE  FileRight'
<1>1. CASE Return
  BY <1>1, ReturnRight
<1>2. CASE (\E n \in CutPoints(file) : Grow(n)) \/ Close \/ UNCHANGED vars
  <2>1. /\ UNCHANGED <<queued, deps, codec, optionsHash, file>>
        /\ Finalized' => Finalized
    BY <1>2 DEF Grow, Close, vars, writer, layout, Finalized
  <2>2. Code' = Code /\ Refl' = Refl
    BY <2>1, EntriesFrame
  <2>3. SUFFICES ASSUME Finalized PROVE FileRight'
    BY <2>1 DEF FileRight
  <2>4. /\ \A k : EntryStored(file.records, file.out, k) => EntryStored(file.records, file.out, k)'
        /\ \A k : RowStored(file.hdr, file.out, k) => RowStored(file.hdr, file.out, k)'
        /\ \A k : WordsStored(file.records, file.hdr, file.out, k)
                    => WordsStored(file.records, file.hdr, file.out, k)'
    BY <2>1, <2>2 DEF EntryStored, RowStored, PathStored, WordsStored
  <2> QED
    BY <2>1, <2>3, <2>4 DEF FileRight
<1>3. CASE ~Return /\ ~(\E n \in CutPoints(file) : Grow(n)) /\ ~Close /\ ~UNCHANGED vars
  <2>1. ~Finalized'
    BY <1>3 DEF Next, AddEntry, SetDependencies, SetOptionsHash, SetCompression,
         Finalize, LayoutEntry, LayoutEntriesDone, LayoutPath, LayoutPathsDone, LayoutIndices,
         LayoutDone, EmitEntry, EmitEntriesDone, EmitPath, EmitPathsDone, EmitRow, EmitRowsDone,
         EmitIndices, Destroy, Finalized
  <2> QED
    BY <2>1 DEF FileRight
<1> QED
  BY <1>1, <1>2, <1>3

-----------------------------------------------------------------------------
(* What a reader sees of any beginning of the file.                        *)

\* Where the indices of entry k are.
WordsAt(recs, h, k) == h.entryDepsIdxOffset + recs[k].depsIdxOff * WordSize

\* A span that was stored is read back if its end is there.
LEMMA SpanSeen ==
    ASSUME NEW f, NEW n, NEW off \in Nat, NEW s \in Strings, NEW len \in Nat,
           len > 0, Chunk(off, len, s) \in f.out.strings, Unmixed(f.out)
    PROVE  Span(f, n, off, len) = IF off + len <= BlobSize(f, n) THEN s ELSE Empty
<1> DEFINE c == Chunk(off, len, s)
<1>1. c.off = off /\ c.len = len /\ c.str = s
  BY DEF Chunk
<1>2. c \in f.out.strings
  OBVIOUS
<1> HIDE DEF c
<1>3. \A d \in f.out.strings : d.off = off /\ d.len = len => d = c
  BY <1>1, <1>2 DEF Unmixed
<1>4. (CHOOSE d \in f.out.strings : d.off = off /\ d.len = len) = c
  BY <1>1, <1>2, <1>3
<1>5. off + len <= BlobSize(f, n) => StringAt(f, n, off, len) = s
  BY <1>1, <1>2, <1>4 DEF StringAt
<1> QED
  BY <1>5 DEF Span, InBounds

\* So is a payload; an empty one is not stored.
Reaches(off, s, m) == s # Empty => off + Size(s) <= m

LEMMA PayloadSeen ==
    ASSUME NEW f, NEW n, NEW off \in Nat, NEW s \in Strings, Unmixed(f.out),
           s # Empty => Chunk(off, Size(s), s) \in f.out.strings
    PROVE  Span(f, n, off, Size(s)) = IF Reaches(off, s, BlobSize(f, n)) THEN s ELSE Empty
<1>1. Size(s) \in Nat /\ (Size(s) = 0 <=> s = Empty)
  BY BlobAssumption
<1>2. CASE s = Empty
  <2>1. ~(Size(s) > 0)
    BY <1>1, <1>2
  <2> QED
    BY <1>2, <2>1 DEF Span, Reaches
<1>3. CASE s # Empty
  <2>1. Size(s) > 0
    BY <1>1, <1>3
  <2> QED
    BY <1>1, <1>3, <2>1, SpanSeen DEF Reaches
<1> QED
  BY <1>2, <1>3

\* Types of a finished file.
LEMMA FileTypes ==
    ASSUME FileRight, Finalized, file.size < Wrap
    PROVE  /\ file.size \in Nat /\ file.length \in Nat /\ file.out.size \in Nat
           /\ file.hdr.depsOffset \in Nat /\ file.hdr.entryDepsIdxOffset \in Nat
           /\ file.records \in Seq(Records) /\ DOMAIN file.records = 1 .. Len(queued)
           /\ \A k \in 1 .. Len(queued) :
                 /\ file.records[k].keyOffset \in Nat /\ file.records[k].codeOffset \in Nat
                 /\ file.records[k].reflOffset \in Nat /\ file.records[k].depsIdxOff \in Nat
           /\ \A r \in file.out.rows : r.path.off \in Nat /\ r.path.len \in Nat
<1>1. file \in Files /\ Len(file.records) = Len(queued)
  BY DEF FileRight
<1>2. /\ file.size \in Nat /\ file.length \in Nat /\ file.out \in Bytes
      /\ file.hdr \in Headers /\ file.records \in Seq(Records)
  BY <1>1 DEF Files
<1>3. file.out.size \in Nat /\ \A r \in file.out.rows : r.path \in Slots
  BY <1>2 DEF Bytes
<1>4. \A r \in file.out.rows : r.path.off \in Nat /\ r.path.len \in Nat
  BY <1>3, OffsetsAreNat DEF Slots
<1>5. DOMAIN file.records = 1 .. Len(queued)
  BY <1>1, <1>2
<1>6. \A k \in 1 .. Len(queued) : file.records[k] \in Records
  BY <1>2, <1>5
<1>7. file.hdr.depsOffset \in Nat /\ file.hdr.entryDepsIdxOffset \in Nat
  BY <1>2, OffsetsAreNat DEF Headers
<1> QED
  BY <1>2, <1>3, <1>4, <1>5, <1>6, <1>7, OffsetsAreNat DEF Records

\* Each part of an entry is there or empty.
LEMMA EntrySeen ==
    ASSUME TypeOK, FileRight, Finalized, file.size < Wrap, NEW k \in DOMAIN queued, NEW n,
           NEW r, r = file.records[k], NEW m \in Nat, m = BlobSize(file, n)
    PROVE  /\ r.keySize = Size(queued[k].key) + 1
           /\ At(file, n, k).key = IF r.keyOffset + r.keySize <= m THEN queued[k].key ELSE Empty
           /\ At(file, n, k).code =
                IF Reaches(r.codeOffset, Code[k], m) THEN Code[k] ELSE Empty
           /\ At(file, n, k).refl =
                IF Reaches(r.reflOffset, Refl[k], m) THEN Refl[k] ELSE Empty
           /\ At(file, n, k).deps =
                IF WordsAt(file.records, file.hdr, k) + Len(queued[k].deps) * WordSize <= m
                THEN queued[k].deps ELSE <<>>
<1> DEFINE e == queued[k]
<1>1. /\ e \in Entries /\ e.key \in Strings /\ Size(e.key) \in Nat
      /\ Code[k] \in Strings /\ Refl[k] \in Strings /\ e.deps \in Seq(Nat)
      /\ DOMAIN queued = 1 .. Len(queued)
  BY QueuedTypes
<1>2. /\ r.keyOffset \in Nat /\ r.codeOffset \in Nat /\ r.reflOffset \in Nat
      /\ r.depsIdxOff \in Nat /\ file.hdr.entryDepsIdxOffset \in Nat
  BY <1>1, FileTypes
<1>3. /\ EntryStored(file.records, file.out, k)
      /\ WordsStored(file.records, file.hdr, file.out, k)
      /\ Unmixed(file.out)
  BY DEF FileRight
<1>4. /\ r.keySize = Size(e.key) + 1 /\ Chunk(r.keyOffset, r.keySize, e.key) \in file.out.strings
      /\ r.codeSize = Size(Code[k])
      /\ Code[k] # Empty => Chunk(r.codeOffset, Size(Code[k]), Code[k]) \in file.out.strings
      /\ r.reflSize = Size(Refl[k])
      /\ Refl[k] # Empty => Chunk(r.reflOffset, Size(Refl[k]), Refl[k]) \in file.out.strings
  BY <1>3 DEF EntryStored
<1>5. r.keySize \in Nat /\ r.keySize > 0
  BY <1>1, <1>4
<1>6. Span(file, n, r.keyOffset, r.keySize) = IF r.keyOffset + r.keySize <= m THEN e.key ELSE Empty
  BY SMTT(60), <1>1, <1>2, <1>3, <1>4, <1>5, SpanSeen
<1>7. Span(file, n, r.codeOffset, r.codeSize)
        = IF Reaches(r.codeOffset, Code[k], m) THEN Code[k] ELSE Empty
  BY SMTT(60), <1>1, <1>2, <1>3, <1>4, PayloadSeen
<1>8. Span(file, n, r.reflOffset, r.reflSize)
        = IF Reaches(r.reflOffset, Refl[k], m) THEN Refl[k] ELSE Empty
  BY SMTT(60), <1>1, <1>2, <1>3, <1>4, PayloadSeen
<1>9. IndicesAt(file, n, k) =
        IF WordsAt(file.records, file.hdr, k) + Len(e.deps) * WordSize <= m
        THEN e.deps ELSE <<>>
  <2> DEFINE at == WordsAt(file.records, file.hdr, k)
             count == Len(e.deps)
  <2>1. /\ r.depsIdxCount = count
        /\ \A j \in DOMAIN e.deps :
              [off |-> at + (j - 1) * WordSize, idx |-> e.deps[j]] \in file.out.words
    BY <1>3 DEF WordsStored, WordsAt
  <2>2. at \in Nat /\ count \in Nat /\ DOMAIN e.deps = 1 .. count
    <3>1. at \in Nat
      BY <1>2 DEF WordSize, WordsAt
    <3> HIDE DEF e, at
    <3> QED
      BY <1>1, <3>1
  <2>3. \A j \in 1 .. count : WordAt(file, at + (j - 1) * WordSize) = e.deps[j]
    <3> SUFFICES ASSUME NEW j \in 1 .. count
                 PROVE  WordAt(file, at + (j - 1) * WordSize) = e.deps[j]
      OBVIOUS
    <3> DEFINE p == at + (j - 1) * WordSize
               w == [off |-> p, idx |-> e.deps[j]]
    <3>1. w \in file.out.words /\ w.off = p /\ w.idx = e.deps[j]
      BY <2>1, <2>2
    <3> HIDE DEF p, w
    <3>2. \A v \in file.out.words : v.off = p => v = w
      BY <1>3, <3>1 DEF Unmixed
    <3>3. (CHOOSE v \in file.out.words : v.off = p) = w
      BY <3>1, <3>2
    <3>4. WordAt(file, p) = e.deps[j]
      BY <3>1, <3>3 DEF WordAt
    <3> QED
      BY <3>4 DEF p
  <2>4. IndicesAt(file, n, k) = IF at + count * WordSize <= m
                                THEN [j \in 1 .. count |-> WordAt(file, at + (j - 1) * WordSize)]
                                ELSE <<>>
    BY <2>1 DEF IndicesAt, WordsAt
  <2> HIDE DEF at, count, e
  <2>5. e.deps = [j \in 1 .. count |-> e.deps[j]]
    BY <1>1, <2>2
  <2>6. e.deps = [j \in 1 .. count |-> WordAt(file, at + (j - 1) * WordSize)]
    BY <2>3, <2>5
  <2>7. IndicesAt(file, n, k) = IF at + count * WordSize <= m THEN e.deps ELSE <<>>
    BY <2>4, <2>6
  <2> QED
    BY <2>7 DEF at, count
<1> QED
  BY <1>4, <1>6, <1>7, <1>8, <1>9 DEF At

\* The dependencies are all there or none.
LEMMA DependenciesSeen ==
    ASSUME TypeOK, FileRight, Finalized, file.size < Wrap, NEW n, NEW m \in Nat, m = BlobSize(file, n),
           \A r \in file.out.rows, d \in DOMAIN deps :
              PathStored(r.path, file.out, d) => r.path.off + r.path.len <= m
    PROVE  Dependencies(file, n) =
             IF file.hdr.depsOffset + Len(deps) * DepSize <= m THEN deps ELSE <<>>
<1> DEFINE table == file.hdr.depsOffset
           Row(d) == RowAt(file, table + (d - 1) * DepSize)
           Shown(d) == [path |-> Span(file, n, Row(d).path.off, Row(d).path.len), hash |-> Row(d).hash]
<1>1. /\ Len(deps) \in Nat /\ deps \in Seq(Deps) /\ DOMAIN deps = 1 .. Len(deps)
      /\ \A d \in DOMAIN deps : deps[d] \in Deps /\ deps[d].path \in Strings
      /\ table \in Nat /\ file.hdr.depsCount = Len(deps) /\ Unmixed(file.out)
  BY QueuedTypes, FileTypes DEF FileRight
<1>2. ASSUME NEW d \in DOMAIN deps
      PROVE  Shown(d) = deps[d]
  <2>1. PICK r \in file.out.rows : /\ r.off = table + (d - 1) * DepSize
                                   /\ r.hash = deps[d].hash
                                   /\ PathStored(r.path, file.out, d)
    BY DEF FileRight, RowStored
  <2>2. Row(d) = r
    <3> DEFINE p == table + (d - 1) * DepSize
    <3>1. r.off = p /\ \A s \in file.out.rows : s.off = p => s = r
      BY <1>1, <2>1 DEF Unmixed
    <3> HIDE DEF p
    <3>2. RowAt(file, p) = r
      BY <3>1 DEF RowAt
    <3> QED
      BY <3>2 DEF p
  <2>3. /\ r.path.off \in Nat /\ r.path.len = Size(deps[d].path)
        /\ Chunk(r.path.off, r.path.len, deps[d].path) \in file.out.strings
        /\ r.path.off + r.path.len <= m
    BY <2>1, FileTypes DEF PathStored
  <2>4. Span(file, n, r.path.off, r.path.len) = deps[d].path
    <3>1. Reaches(r.path.off, deps[d].path, BlobSize(file, n))
      BY <2>3 DEF Reaches
    <3> QED
      BY <1>1, <2>3, <3>1, PayloadSeen
  <2>5. deps[d] = [path |-> deps[d].path, hash |-> deps[d].hash]
    BY <1>1 DEF Deps
  <2> HIDE DEF Row
  <2> QED
    BY <2>1, <2>2, <2>4, <2>5
<1>3. Dependencies(file, n) = IF table + Len(deps) * DepSize > m THEN <<>>
                              ELSE [d \in 1 .. Len(deps) |-> Shown(d)]
  BY <1>1 DEF Dependencies
<1>4. deps = [d \in 1 .. Len(deps) |-> deps[d]]
  BY <1>1
<1> HIDE DEF Shown, Row
<1>5. [d \in 1 .. Len(deps) |-> Shown(d)] = deps
  BY <1>1, <1>2, <1>4
<1>6. table + Len(deps) * DepSize \in Nat
  BY <1>1 DEF DepSize
<1> QED
  BY <1>3, <1>5, <1>6

\* All of the file is there.
LEMMA ReadBack ==
    ASSUME TypeOK, FileRight, Finalized, onDisk = file.length, file.size < Wrap,
           codec = "lz4" => file.size > HeaderSize
    PROVE  /\ Valid(file, onDisk) /\ file.hdr.entryCount = Len(queued)
           /\ \A k \in DOMAIN queued : At(file, onDisk, k) = queued[k]
           /\ Dependencies(file, onDisk) = deps
<1> DEFINE n == onDisk
<1>1. /\ file.codec = codec /\ file.payloadSize = U32(file.size - HeaderSize)
      /\ file.size >= HeaderSize + Len(queued) * RecordSize
      /\ file.length = IF codec = "none" THEN file.size
                       ELSE HeaderSize + (IF file.size = HeaderSize THEN 0 ELSE PackedSize)
      /\ Unmixed(file.out) /\ file.out.size <= file.size
      /\ file.hdr.entryCount = Len(queued)
  BY DEF FileRight
<1>2. file.size \in Nat /\ file.out.size \in Nat
  BY FileTypes
<1>3. /\ HeaderSize + Len(queued) * RecordSize \in Nat
      /\ HeaderSize <= HeaderSize + Len(queued) * RecordSize
  BY QueuedTypes DEF HeaderSize, RecordSize
<1>4. file.size >= HeaderSize /\ HeaderSize \in Nat
  BY <1>1, <1>2, <1>3 DEF HeaderSize
<1>5. BlobSize(file, n) = file.size
  BY <1>1 DEF BlobSize
<1>6. Valid(file, n)
  <2>1. n >= HeaderSize
    BY <1>1, <1>4, BlobAssumption
  <2>2. Unpacks(file, n)
    <3>1. file.payloadSize = file.size - HeaderSize
      <4>1. file.size - HeaderSize \in Nat /\ file.size - HeaderSize < Wrap
        BY <1>2, <1>4, BlobAssumption DEF HeaderSize
      <4> QED
        BY <1>1, <4>1, Casts
    <3>2. codec = "lz4" => file.length > HeaderSize
      BY <1>1, <1>2, <1>4, BlobAssumption
    <3> QED
      BY <1>1, <3>1, <3>2 DEF Unpacks
  <2> QED
    BY <1>1, <1>5, <2>1, <2>2 DEF Valid
<1>7. \A c \in file.out.strings : c.off + c.len <= file.size
  <2> SUFFICES ASSUME NEW c \in file.out.strings PROVE c.off + c.len <= file.size
    OBVIOUS
  <2>1. c.off \in Nat /\ c.len \in Nat
    BY DEF FileRight, Files, Bytes, Chunks
  <2>2. c.off + c.len <= file.out.size
    BY <1>1 DEF Unmixed
  <2> QED
    BY <1>1, <1>2, <2>1, <2>2
<1>8. ASSUME NEW k \in DOMAIN queued PROVE At(file, n, k) = queued[k]
  <2> DEFINE r == file.records[k]
             e == queued[k]
  <2>1. /\ e \in Entries /\ Code[k] = e.code /\ Refl[k] = e.refl
    BY QueuedTypes
  <2>2. EntryStored(file.records, file.out, k) /\ WordsStored(file.records, file.hdr, file.out, k)
    BY DEF FileRight
  <2>3. r.keyOffset + r.keySize <= file.size
    <3>1. Chunk(r.keyOffset, r.keySize, e.key) \in file.out.strings
      BY <2>2 DEF EntryStored
    <3> QED
      BY <1>7, <3>1 DEF Chunk
  <2>4. Reaches(r.codeOffset, Code[k], file.size) /\ Reaches(r.reflOffset, Refl[k], file.size)
    <3>1. /\ Code[k] # Empty => Chunk(r.codeOffset, Size(Code[k]), Code[k]) \in file.out.strings
          /\ Refl[k] # Empty => Chunk(r.reflOffset, Size(Refl[k]), Refl[k]) \in file.out.strings
      BY <2>2 DEF EntryStored
    <3> QED
      BY <1>7, <3>1 DEF Chunk, Reaches
  <2>5. WordsAt(file.records, file.hdr, k) + Len(e.deps) * WordSize <= file.size
    <3> DEFINE end == WordsAt(file.records, file.hdr, k) + Len(e.deps) * WordSize
    <3>1. end <= file.out.size
      BY <2>2 DEF WordsStored, WordsAt
    <3>2. Len(e.deps) \in Nat
      <4>1. e.deps \in Seq(Nat)
        BY QueuedTypes
      <4> HIDE DEF e
      <4> QED
        BY <4>1
    <3>3. r.depsIdxOff \in Nat /\ file.hdr.entryDepsIdxOffset \in Nat
      BY FileTypes, QueuedTypes
    <3>4. end \in Nat
      <4>1. end = file.hdr.entryDepsIdxOffset + r.depsIdxOff * 4 + Len(e.deps) * 4
        BY DEF WordsAt, WordSize
      <4> HIDE DEF e, r, end
      <4> QED
        BY SMTT(60), <3>2, <3>3, <4>1
    <3> HIDE DEF end
    <3>5. end <= file.size
      BY <1>1, <1>2, <3>1, <3>4
    <3> QED
      BY <3>5 DEF end
  <2>6. /\ At(file, n, k).key = e.key /\ At(file, n, k).code = e.code
        /\ At(file, n, k).refl = e.refl /\ At(file, n, k).deps = e.deps
    BY <1>2, <1>5, <2>1, <2>3, <2>4, <2>5, EntrySeen
  <2>7. e = [key |-> e.key, code |-> e.code, refl |-> e.refl, deps |-> e.deps]
    BY <2>1 DEF Entries
  <2>8. At(file, n, k) = [key |-> At(file, n, k).key, code |-> At(file, n, k).code,
                          refl |-> At(file, n, k).refl, deps |-> At(file, n, k).deps]
    BY DEF At
  <2> QED
    BY <2>6, <2>7, <2>8
<1>9. Dependencies(file, n) = deps
  <2>1. \A r \in file.out.rows, d \in DOMAIN deps :
           PathStored(r.path, file.out, d) => r.path.off + r.path.len <= file.size
    BY <1>7 DEF PathStored, Chunk
  <2>2. Dependencies(file, n) = IF file.hdr.depsOffset + Len(deps) * DepSize <= file.size
                                THEN deps ELSE <<>>
    BY <1>2, <1>5, <2>1, DependenciesSeen
  <2>3. CASE Len(deps) = 0
    <3>1. deps = <<>>
      BY <2>3, QueuedTypes
    <3> QED
      BY <2>2, <3>1
  <2>4. CASE Len(deps) # 0
    <3>1. file.hdr.depsOffset + Len(deps) * DepSize <= file.size
      <4>1. Len(deps) \in Nat /\ Len(deps) \in DOMAIN deps
        BY <2>4, QueuedTypes
      <4>2. PICK r \in file.out.rows : r.off = file.hdr.depsOffset + (Len(deps) - 1) * DepSize
        BY <4>1 DEF FileRight, RowStored
      <4>3. r.off + DepSize <= file.out.size
        BY <1>1 DEF Unmixed
      <4> QED
        BY SMTT(60), <1>1, <1>2, <4>1, <4>2, <4>3, FileTypes DEF DepSize
    <3> QED
      BY <2>2, <3>1
  <2> QED
    BY <2>3, <2>4
<1> QED
  BY <1>1, <1>6, <1>8, <1>9

LEMMA RoundTripRead == TypeOK /\ FileRight => RoundTrip
<1> SUFFICES ASSUME TypeOK, FileRight, Finalized, onDisk = file.length, file.size < Wrap,
                    codec = "lz4" => file.size > HeaderSize
             PROVE  /\ Valid(file, onDisk)
                    /\ [k \in 1 .. file.hdr.entryCount |-> At(file, onDisk, k)] = queued
                    /\ Dependencies(file, onDisk) = deps
                    /\ file.optionsHash = optionsHash
  BY DEF RoundTrip
<1>1. /\ Valid(file, onDisk) /\ file.hdr.entryCount = Len(queued)
      /\ \A k \in DOMAIN queued : At(file, onDisk, k) = queued[k]
      /\ Dependencies(file, onDisk) = deps
  BY ReadBack
<1>2. DOMAIN queued = 1 .. Len(queued) /\ queued = [k \in 1 .. Len(queued) |-> queued[k]]
  BY QueuedTypes
<1>3. [k \in 1 .. file.hdr.entryCount |-> At(file, onDisk, k)] = queued
  BY <1>1, <1>2
<1>4. file.optionsHash = optionsHash
  BY DEF FileRight
<1> QED
  BY <1>1, <1>3, <1>4

\* The reader returns what was queued (slangmake_blob.cpp:98-473): for any
\* entries and dependencies, any sizes and any hash function, as long as the
\* blob does not reach Wrap bytes.
THEOREM RoundTripHolds == Spec => []RoundTrip
<1>1. Init => TInv /\ RInv
  <2> SUFFICES ASSUME Init PROVE TInv /\ RInv
    OBVIOUS
  <2>1. TInv
    BY TypeInit
  <2>2. Stage = 0 /\ ~Finalized
    BY Stages DEF Init, Stage, Finalized
  <2>3. records = <<>> /\ slots = <<>>
    BY DEF Init
  <2> QED
    BY <2>1, <2>2, <2>3 DEF RInv, TInv, LayoutRight, EmitRight, Emitted, FileRight
<1>2. TInv /\ RInv /\ [Next]_vars => (TInv /\ RInv)'
  <2> SUFFICES ASSUME TInv, RInv, [Next]_vars PROVE (TInv /\ RInv)'
    OBVIOUS
  <2>1. TInv'
    BY TypeStep
  <2> QED
    BY <2>1, LayoutRightStep, EmitRightStep, EmittedStep, FileRightStep DEF RInv, TInv
<1>3. TInv /\ RInv => RoundTrip
  BY RoundTripRead DEF TInv, RInv
<1> QED
  BY <1>1, <1>2, <1>3, PTL DEF Spec

-----------------------------------------------------------------------------
(* Alignment.                                                              *)

LEMMA Division == \A x, y \in Nat : y > 0 => x = (y * (x \div y)) + (x % y)
OBVIOUS

\* A cast keeps alignment, since it wraps at a multiple of 8.
LEMMA CastAligned ==
    ASSUME NEW x \in Nat
    PROVE  (x % 8 = 0 => U32(x) % 8 = 0) /\ (x % 4 = 0 => U32(x) % 4 = 0)
<1> DEFINE q == x \div Wrap
           r == x % Wrap
<1>1. q \in Int /\ r \in Int /\ x = (Wrap * q) + r
  BY BlobAssumption, Division
<1>2. PICK b \in Int : Wrap = 8 * b
  BY BlobAssumption, Z3
<1> HIDE DEF q, r
<1>3. Wrap * q = 8 * (b * q)
  BY <1>1, <1>2
<1>4. b * q \in Int
  BY <1>1, <1>2
<1>5. ASSUME x % 8 = 0 PROVE r % 8 = 0
  <2>1. PICK a \in Int : x = 8 * a
    BY <1>5, Z3
  <2>2. r = 8 * (a - (b * q))
    BY <1>1, <1>3, <2>1
  <2>3. a - (b * q) \in Int
    BY <1>4, <2>1
  <2> QED
    BY <2>2, <2>3
<1>6. ASSUME x % 4 = 0 PROVE r % 4 = 0
  <2>1. PICK a \in Int : x = 4 * a
    BY <1>6, Z3
  <2>2. r = 4 * (a - 2 * (b * q))
    BY <1>1, <1>3, <1>4, <2>1
  <2>3. a - 2 * (b * q) \in Int
    BY <1>4, <2>1
  <2> QED
    BY <2>2, <2>3
<1> QED
  BY <1>5, <1>6 DEF U32, r

RecordsAligned(recs) ==
    \A k \in DOMAIN recs : recs[k].codeOffset % 8 = 0 /\ recs[k].reflOffset % 8 = 0
HeaderAligned(h) == h.depsOffset % 8 = 0 /\ h.entryDepsIdxOffset % 4 = 0

\* What is known of alignment before the file is there.
AInv == /\ RecordsAligned(records)
        /\ Stage \in 3 .. 7 => HeaderAligned(hdr)
        /\ Finalized => RecordsAligned(file.records) /\ HeaderAligned(file.hdr)

LEMMA AlignedStep == ASSUME TInv, TInv', AInv, [Next]_vars PROVE AInv'
<1>1. /\ records \in Seq(Records) /\ cursor \in Nat /\ i \in Nat \ {0} /\ hdr \in Headers
      /\ TypeOK /\ Len(queued) \in Nat /\ Len(deps) \in Nat
  BY QueuedTypes DEF TInv, TypeOK
<1>2. CASE Stage' = 0 /\ ~Return
  <2>1. records' = <<>>
    BY <1>2 DEF TInv, LaidOut
  <2>2. ~Finalized' \/ (Finalized /\ UNCHANGED file)
    BY <1>2, Stages DEF Next, vars, AddEntry, SetDependencies, SetOptionsHash,
         SetCompression, Finalize, LayoutEntry, LayoutEntriesDone, LayoutPath, LayoutPathsDone,
         LayoutIndices, LayoutDone, EmitEntry, EmitEntriesDone, EmitPath, EmitPathsDone, EmitRow,
         EmitRowsDone, EmitIndices, Grow, Close, Destroy, Finalized, Stage
  <2> QED
    BY <1>2, <2>1, <2>2 DEF AInv, RecordsAligned
<1>3. CASE Return
  <2>1. /\ Stage = 7 /\ Stage' = 0 /\ records' = <<>>
        /\ file'.records = records /\ file'.hdr = hdr
    BY <1>3, Stages DEF Return, Stage
  <2> QED
    BY <2>1 DEF AInv, RecordsAligned
<1>4. CASE Stage' # 0
  <2>1. ~Finalized'
    BY <1>4, Stages DEF Finalized, Stage
  <2>2. CASE LayoutEntry
    <3>1. /\ i \in DOMAIN queued /\ Len(records) = i - 1
          /\ records' = Append(records, NewRecord(cursor, i)) /\ Stage' = 1
      BY <2>2, LayoutEntryStep, Stages DEF LayoutEntry, Stage
    <3> DEFINE r == NewRecord(cursor, i)
    <3>2. /\ CodeAt(cursor, i) \in Nat /\ CodeAt(cursor, i) % 8 = 0
          /\ ReflAt(cursor, i) \in Nat /\ ReflAt(cursor, i) % 8 = 0
      <4>1. Size(queued[i].key) \in Nat /\ AfterCode(cursor, i) \in Nat
        BY <1>1, <3>1, QueuedTypes, PieceTypes
      <4>2. cursor + Size(queued[i].key) + 1 \in Nat
        BY <1>1, <4>1
      <4> QED
        BY <4>1, <4>2, Aligns DEF CodeAt, ReflAt
    <3>3. \A k \in 1 .. i - 1 : /\ records[k].codeOffset % 8 = 0
                               /\ records[k].reflOffset % 8 = 0
                               /\ records'[k] = records[k]
      BY <1>1, <3>1 DEF AInv, RecordsAligned
    <3>4. r.codeOffset % 8 = 0
      <4>1. ~Owns(Code, i) => Canonical(Code, i) \in 1 .. i - 1
        BY <1>1, CanonicalEarlier
      <4> QED
        BY <3>2, <3>3, <4>1, CastAligned DEF NewRecord
    <3>5. r.reflOffset % 8 = 0
      <4>1. ~Owns(Refl, i) => Canonical(Refl, i) \in 1 .. i - 1
        BY <1>1, CanonicalEarlier
      <4> QED
        BY <3>2, <3>3, <4>1, CastAligned DEF NewRecord
    <3> HIDE DEF r
    <3>6. DOMAIN records' = (1 .. i - 1) \cup {i} /\ records'[i] = r
      BY <1>1, <3>1 DEF r
    <3> QED
      BY <2>1, <3>1, <3>3, <3>4, <3>5, <3>6 DEF AInv, RecordsAligned
  <2>3. CASE LayoutPathsDone
    <3> DEFINE table == Align8(cursor)
               pool == Align4(table + Len(deps) * DepSize)
    <3>1. table \in Nat /\ table % 8 = 0
      BY <1>1, Aligns
    <3>2. pool \in Nat /\ pool % 4 = 0
      <4> HIDE DEF table
      <4>1. table + Len(deps) * DepSize \in Nat
        BY <1>1, <3>1 DEF DepSize
      <4> QED
        BY <4>1, Aligns
    <3>3. /\ records' = records
          /\ hdr'.depsOffset = U32(table) /\ hdr'.entryDepsIdxOffset = U32(pool)
      BY <1>1, <2>3 DEF LayoutPathsDone, Headers
    <3> HIDE DEF table, pool
    <3>4. HeaderAligned(hdr')
      BY <3>1, <3>2, <3>3, CastAligned DEF HeaderAligned
    <3> QED
      BY <2>1, <3>3, <3>4 DEF AInv
  <2>4. CASE LayoutIndices
    <3> DEFINE b == U32(Len(queued[i].deps))
    <3>1. /\ Stage = 3 /\ hdr' = hdr /\ i \in DOMAIN queued
          /\ records' = Updated(records, i, running, b)
      BY <2>4, Stages DEF LayoutIndices, Stage, Updated
    <3>2. b \in Offsets /\ running \in Offsets /\ i \in DOMAIN records
      <4>1. b \in Offsets
        BY <1>1, <3>1, QueuedTypes, Casts
      <4>2. Len(records) = Len(queued) /\ DOMAIN queued = 1 .. Len(queued)
        BY <1>1, <3>1, QueuedTypes DEF TInv, LaidOut
      <4>3. i \in DOMAIN records
        BY <1>1, <3>1, <4>2
      <4> QED
        BY <4>1, <4>3 DEF TInv, TypeOK
    <3> HIDE DEF b
    <3>3. /\ DOMAIN records' = DOMAIN records
          /\ \A h \in DOMAIN records : /\ records'[h].codeOffset = records[h].codeOffset
                                       /\ records'[h].reflOffset = records[h].reflOffset
      BY SMTT(60), <1>1, <3>1, <3>2, PoolUpdate
    <3> QED
      BY <2>1, <3>1, <3>3 DEF AInv, RecordsAligned
  <2>5. CASE ~LayoutEntry /\ ~LayoutPathsDone /\ ~LayoutIndices
    <3>1. /\ records' = records
          /\ Stage' \in 3 .. 7 => Stage \in 3 .. 7 /\ hdr' = hdr
      BY <1>4, <2>5, Stages DEF Next, vars, layout, AddEntry, SetDependencies, SetOptionsHash,
           SetCompression, Finalize, LayoutEntriesDone, LayoutPath, LayoutDone, EmitEntry,
           EmitEntriesDone, EmitPath, EmitPathsDone, EmitRow, EmitRowsDone, EmitIndices, Return,
           Grow, Close, Destroy, Stage
    <3> QED
      BY <2>1, <3>1 DEF AInv
  <2> QED
    BY <2>2, <2>3, <2>4, <2>5
<1> QED
  BY <1>2, <1>3, <1>4

\* What readers cast to structs or arrays is aligned, in a blob of any size
\* (align8 and align4 in slangmake_blob.cpp:149-185, and Wrap is a multiple
\* of 8).
THEOREM AlignedHolds == Spec => []Aligned
<1>1. Init => TInv /\ AInv
  <2> SUFFICES ASSUME Init PROVE TInv /\ AInv
    OBVIOUS
  <2>1. TInv
    BY TypeInit
  <2>2. Stage = 0 /\ ~Finalized /\ records = <<>>
    BY Stages DEF Init, Stage, Finalized
  <2> QED
    BY <2>1, <2>2 DEF AInv, RecordsAligned
<1>2. TInv /\ AInv /\ [Next]_vars => (TInv /\ AInv)'
  BY TypeStep, AlignedStep
<1>3. AInv => Aligned
  BY DEF AInv, Aligned, RecordsAligned, HeaderAligned
<1> QED
  BY <1>1, <1>2, <1>3, PTL DEF Spec

-----------------------------------------------------------------------------
(* Sharing: which payloads a blob of any number of entries stores once.    *)

\* A set of positions has a first one: the initial segments that end in the
\* set have a smallest one.
LEMMA FirstExists ==
    ASSUME NEW n \in Nat, NEW S \in SUBSET (1 .. n), S # {}
    PROVE  \E h : IsFirst(h, S)
<1> DEFINE N == 1 .. n
           T == {1 .. x : x \in S}
           R == StrictSubsetOrdering(N)
<1>1. IsFiniteSet(N)
  BY FS_Interval
<1>2. T \subseteq SUBSET N
  <2>1. \A x \in S : x \in 1 .. n
    OBVIOUS
  <2>2. \A x \in S : 1 .. x \subseteq 1 .. n
    BY <2>1
  <2> QED
    BY <2>2
<1>3. T \subseteq FiniteSubsetsOf(N) /\ T # {}
  <2>1. T # {}
    OBVIOUS
  <2> HIDE DEF T, N
  <2>2. \A t \in T : t \in SUBSET N
    BY <1>2
  <2>3. \A t \in T : IsFiniteSet(t)
    BY <1>1, <2>2, FS_Subset
  <2> QED
    BY <2>1, <2>2, <2>3 DEF FiniteSubsetsOf
<1>4. IsWellFoundedOn(R, FiniteSubsetsOf(N))
  BY FS_StrictSubsetOrderingWellFounded
<1> HIDE DEF R
<1>5. \E t \in T : \A y \in T : <<y, t>> \notin R
  <2> HIDE DEF T, N
  <2> QED
    BY <1>3, <1>4, WFMin
<1>6. PICK x \in S : \A y \in T : <<y, 1 .. x>> \notin R
  BY <1>5
<1>7. ASSUME NEW g \in S, g < x
      PROVE  FALSE
  <2>1. 1 .. g \in SUBSET N /\ 1 .. x \in SUBSET N
    BY <1>2
  <2>2. 1 .. g \subseteq 1 .. x /\ x \in 1 .. x /\ x \notin 1 .. g
    BY <1>7
  <2>3. <<1 .. g, 1 .. x>> \in R
    BY <2>1, <2>2 DEF R, StrictSubsetOrdering
  <2> QED
    BY <1>6, <2>3
<1>8. \A g \in S : x <= g
  BY <1>7
<1> QED
  BY <1>8 DEF IsFirst

\* An entry whose payload an earlier one has finds one to share, if no hashes
\* collide.
LEMMA EqualIsShared ==
    ASSUME NEW s \in {Code, Refl}, NoCollision, NEW j, NEW k \in DOMAIN queued,
           TypeOK, j \in 1 .. k - 1, s[j] = s[k], s[k] # Empty
    PROVE  ~Owns(s, k)
<1>1. queued \in Seq(Queueable) /\ k \in Nat
  BY DEF TypeOK
<1>2. DOMAIN queued = 1 .. Len(queued) /\ Len(queued) \in Nat
  BY <1>1
<1>3. j \in Bucket(s, k) /\ Bucket(s, k) \in SUBSET (1 .. k - 1)
  BY DEF Bucket
<1>4. k - 1 \in Nat
  BY <1>1, <1>2
<1>5. PICK h : IsFirst(h, Bucket(s, k))
  BY <1>3, <1>4, FirstExists
<1>6. h \in 1 .. k - 1 /\ Digest(s[h]) = Digest(s[k])
  BY <1>5 DEF IsFirst, Bucket
<1>7. h \in DOMAIN queued
  BY <1>2, <1>6
<1>8. s[h] = s[k]
  BY <1>6, <1>7 DEF NoCollision
<1>9. Shares(s, k, h)
  BY <1>5, <1>8 DEF Shares
<1> QED
  BY <1>6, <1>9 DEF Owns

-----------------------------------------------------------------------------

\* Equal payloads have one offset in recs.
Shared(recs) ==
    NoCollision => \A j, k \in DOMAIN recs :
        /\ Code[j] = Code[k] /\ Code[k] # Empty => recs[j].codeOffset = recs[k].codeOffset
        /\ Refl[j] = Refl[k] /\ Refl[k] # Empty => recs[j].reflOffset = recs[k].reflOffset

SInv == /\ Shared(records)
        /\ Finalized => Shared(file.records) /\ DOMAIN file.records = DOMAIN queued

\* What can be shared depends on the queue only.
LEMMA QueueFrame ==
    ASSUME UNCHANGED queued
    PROVE  Code' = Code /\ Refl' = Refl /\ (NoCollision' <=> NoCollision)
<1>1. Code' = Code /\ Refl' = Refl
  BY DEF Code, Refl
<1> QED
  BY <1>1 DEF NoCollision

\* The new record points where the others with its payloads do.
LEMMA SharedLayoutEntry == ASSUME TInv, SInv, LayoutEntry PROVE Shared(records)'
<1>1. /\ i \in DOMAIN queued /\ Len(records) = i - 1 /\ UNCHANGED queued
      /\ records' = Append(records, NewRecord(cursor, i))
  BY LayoutEntryStep DEF LayoutEntry, writer
<1>2. records \in Seq(Records) /\ i \in Nat \ {0} /\ TypeOK
  BY DEF TInv, TypeOK
<1>3. /\ DOMAIN records' = (1 .. i - 1) \cup {i} /\ DOMAIN records = 1 .. i - 1
      /\ records'[i] = NewRecord(cursor, i)
      /\ \A k \in 1 .. i - 1 : records'[k] = records[k]
  BY <1>1, <1>2
<1> SUFFICES ASSUME NoCollision
             PROVE  \A j, k \in DOMAIN records' :
                      /\ Code[j] = Code[k] /\ Code[k] # Empty
                           => records'[j].codeOffset = records'[k].codeOffset
                      /\ Refl[j] = Refl[k] /\ Refl[k] # Empty
                           => records'[j].reflOffset = records'[k].reflOffset
  BY <1>1, QueueFrame DEF Shared
<1>4. ASSUME NEW j \in 1 .. i - 1, Code[j] = Code[i], Code[i] # Empty
      PROVE  records'[j].codeOffset = records'[i].codeOffset
  <2>1. ~Owns(Code, i)
    BY <1>1, <1>2, <1>4, EqualIsShared
  <2>2. Canonical(Code, i) \in 1 .. i - 1 /\ Code[Canonical(Code, i)] = Code[i]
    BY <1>2, <2>1, CanonicalEarlier
  <2>3. records[j].codeOffset = records[Canonical(Code, i)].codeOffset
    BY <1>3, <1>4, <2>2 DEF SInv, Shared
  <2>4. NewRecord(cursor, i).codeOffset = records[Canonical(Code, i)].codeOffset
    BY <2>1 DEF NewRecord
  <2> QED
    BY <1>3, <2>3, <2>4
<1>5. ASSUME NEW j \in 1 .. i - 1, Refl[j] = Refl[i], Refl[i] # Empty
      PROVE  records'[j].reflOffset = records'[i].reflOffset
  <2>1. ~Owns(Refl, i)
    BY <1>1, <1>2, <1>5, EqualIsShared
  <2>2. Canonical(Refl, i) \in 1 .. i - 1 /\ Refl[Canonical(Refl, i)] = Refl[i]
    BY <1>2, <2>1, CanonicalEarlier
  <2>3. records[j].reflOffset = records[Canonical(Refl, i)].reflOffset
    BY <1>3, <1>5, <2>2 DEF SInv, Shared
  <2>4. NewRecord(cursor, i).reflOffset = records[Canonical(Refl, i)].reflOffset
    BY <2>1 DEF NewRecord
  <2> QED
    BY <1>3, <2>3, <2>4
<1>6. \A j, k \in 1 .. i - 1 :
         /\ Code[j] = Code[k] /\ Code[k] # Empty
              => records'[j].codeOffset = records'[k].codeOffset
         /\ Refl[j] = Refl[k] /\ Refl[k] # Empty
              => records'[j].reflOffset = records'[k].reflOffset
  BY <1>3 DEF SInv, Shared
<1> QED
  BY <1>3, <1>4, <1>5, <1>6

\* The pool loop leaves the payload offsets alone.
LEMMA SharedLayoutIndices == ASSUME TInv, SInv, LayoutIndices PROVE Shared(records)'
<1> DEFINE b == U32(Len(queued[i].deps))
<1>1. /\ Stage = 3 /\ UNCHANGED queued /\ i \in DOMAIN queued
      /\ records' = Updated(records, i, running, b)
  BY Stages DEF LayoutIndices, Stage, Updated, writer
<1>2. TypeOK /\ records \in Seq(Records) /\ Len(queued) \in Nat
  BY QueuedTypes DEF TInv, TypeOK
<1>3. b \in Offsets /\ running \in Offsets /\ i \in DOMAIN records
  <2>1. b \in Offsets
    BY <1>1, <1>2, QueuedTypes, Casts
  <2>2. Len(records) = Len(queued) /\ DOMAIN queued = 1 .. Len(queued)
    BY <1>1, <1>2, QueuedTypes DEF TInv, LaidOut
  <2>3. i \in DOMAIN records
    BY <1>1, <1>2, <2>2
  <2> QED
    BY <2>1, <2>3 DEF TInv, TypeOK
<1> HIDE DEF b
<1>4. /\ DOMAIN records' = DOMAIN records
      /\ \A h \in DOMAIN records : /\ records'[h].codeOffset = records[h].codeOffset
                                   /\ records'[h].reflOffset = records[h].reflOffset
  BY SMTT(60), <1>1, <1>2, <1>3, PoolUpdate
<1> QED
  BY <1>1, <1>4, QueueFrame DEF SInv, Shared

LEMMA SharedStep == ASSUME TInv, TInv', SInv, [Next]_vars PROVE SInv'
<1>1. CASE Stage' = 0 /\ ~Return
  <2>1. Shared(records)'
    BY <1>1 DEF TInv, LaidOut, Shared
  <2>2. ~Finalized' \/ (Finalized /\ UNCHANGED <<file, queued>>)
    BY <1>1, Stages DEF Next, vars, writer, AddEntry, SetDependencies, SetOptionsHash,
       SetCompression, Finalize, LayoutEntry, LayoutEntriesDone, LayoutPath, LayoutPathsDone,
       LayoutIndices, LayoutDone, EmitEntry, EmitEntriesDone, EmitPath, EmitPathsDone, EmitRow,
       EmitRowsDone, EmitIndices, Grow, Close, Destroy, Finalized, Stage
  <2> QED
    BY <2>1, <2>2, QueueFrame DEF SInv, Shared
<1>2. CASE Return
  <2>1. /\ Stage = 7 /\ records' = <<>> /\ file'.records = records /\ UNCHANGED queued
    BY <1>2, Stages DEF Return, Stage, writer
  <2>2. DOMAIN records = DOMAIN queued
    <3>1. Len(records) = Len(queued)
      BY <2>1 DEF TInv, LaidOut
    <3>2. queued \in Seq(Queueable) /\ records \in Seq(Records)
      BY DEF TInv, TypeOK
    <3> QED
      BY <3>1, <3>2
  <2> QED
    BY <2>1, <2>2, QueueFrame DEF SInv, Shared
<1>3. CASE Stage' # 0
  <2>1. ~Finalized'
    BY <1>3, Stages DEF Finalized, Stage
  <2>2. CASE LayoutEntry
    BY <2>1, <2>2, SharedLayoutEntry DEF SInv
  <2>3. CASE LayoutIndices
    BY <2>1, <2>3, SharedLayoutIndices DEF SInv
  <2>4. CASE ~LayoutEntry /\ ~LayoutIndices
    <3>1. UNCHANGED <<records, queued>>
      BY <1>3, <2>4, Stages DEF Next, vars, layout, writer, AddEntry, SetDependencies,
         SetOptionsHash, SetCompression, Finalize, LayoutEntriesDone, LayoutPath,
         LayoutPathsDone, LayoutDone, EmitEntry, EmitEntriesDone, EmitPath, EmitPathsDone,
         EmitRow, EmitRowsDone, EmitIndices, Return, Grow, Close, Destroy, Stage
    <3> QED
      BY <2>1, <3>1, QueueFrame DEF SInv, Shared
  <2> QED
    BY <2>2, <2>3, <2>4
<1> QED
  BY <1>1, <1>2, <1>3

\* In a blob of any number of entries, those with one code have one payload,
\* and so have those with one reflection, unless hashes collide
\* (slangmake_blob.cpp:114-138).
THEOREM PayloadsAreShared == Spec => []PayloadsShared
<1>1. Init => TInv /\ SInv
  <2> SUFFICES ASSUME Init PROVE TInv /\ SInv
    OBVIOUS
  <2>1. TInv
    BY TypeInit
  <2>2. ~Finalized /\ records = <<>>
    BY DEF Init, Finalized
  <2> QED
    BY <2>1, <2>2 DEF SInv, Shared
<1>2. TInv /\ SInv /\ [Next]_vars => (TInv /\ SInv)'
  BY TypeStep, SharedStep
<1>3. TInv /\ SInv => PayloadsShared
  <2> SUFFICES ASSUME TInv, SInv, Finalized, NoCollision
               PROVE  \A j, k \in DOMAIN queued :
                        /\ Code[j] = Code[k] /\ Code[k] # Empty =>
                             file.records[j].codeOffset = file.records[k].codeOffset
                        /\ Refl[j] = Refl[k] /\ Refl[k] # Empty =>
                             file.records[j].reflOffset = file.records[k].reflOffset
    BY DEF PayloadsShared
  <2> QED
    BY DEF SInv, Shared
<1> QED
  BY <1>1, <1>2, <1>3, PTL DEF Spec
-----------------------------------------------------------------------------
(* Files cut short.  A cut leaves what lies before it, so what counts is   *)
(* the order of the pieces: the entries follow each other, then the paths, *)
(* the rows and the index lists.                                           *)

EndOf(recs, k) == AfterEntry(recs[k].keyOffset, k)

\* The record of entry k has its own payloads behind its key.
Placed(recs, k) ==
    /\ Owns(Code, k) => recs[k].codeOffset = CodeAt(recs[k].keyOffset, k)
    /\ Owns(Refl, k) => recs[k].reflOffset = ReflAt(recs[k].keyOffset, k)

\* The entries before the k-th end before it begins, and so do their indices.
EntryAfter(recs, k) == \A j \in 1 .. k - 1 : EndOf(recs, j) <= recs[k].keyOffset
WordsAfter(recs, h, k) == \A j \in 1 .. k - 1 :
    WordsAt(recs, h, j) + Len(queued[j].deps) * WordSize <= WordsAt(recs, h, k)

RowsBefore(o, n) == \A r \in o.rows : r.path.off + r.path.len <= n

\* What is known of the order during the second pass.
EmitOrdered ==
    cursor < Wrap /\ out.size < Wrap =>
        /\ Stage = 4 => \A k \in 1 .. i - 1 :
              EntryAfter(records, k) /\ EndOf(records, k) <= out.size
        /\ Stage \in 5 .. 7 => \A k \in DOMAIN queued :
              EntryAfter(records, k) /\ EndOf(records, k) <= hdr.depsStringsOffset
        /\ Stage \in 4 .. 5 => out.rows = {}
        /\ Stage = 5 => hdr.depsStringsOffset <= out.size
        /\ Stage = 5 => \A d \in 1 .. i - 1 : slots[d].off + slots[d].len <= out.size
        /\ Stage \in 6 .. 7 => hdr.depsStringsOffset <= hdr.depsOffset
        /\ Stage \in 6 .. 7 => \A d \in DOMAIN deps : slots[d].off + slots[d].len <= hdr.depsOffset
        /\ Stage \in 6 .. 7 => RowsBefore(out, hdr.depsOffset)
        /\ Stage = 7 => \A k \in 1 .. i - 1 : WordsAfter(records, hdr, k)

\* And in the finished file, of which no more is on disk than there is.
FileOrder(recs, h, o) ==
    /\ \A k \in DOMAIN queued :
          /\ Placed(recs, k) /\ EntryAfter(recs, k)
          /\ EndOf(recs, k) <= h.depsOffset /\ WordsAfter(recs, h, k)
    /\ RowsBefore(o, h.depsOffset)
    /\ h.entryDepsIdxOffset = Align4(h.depsOffset + Len(deps) * DepSize)

FileOrdered ==
    /\ IF Finalized THEN onDisk <= file.length ELSE onDisk = 0
    /\ Finalized /\ file.size < Wrap => FileOrder(file.records, file.hdr, file.out)

OInv == EmitOrdered /\ FileOrdered

\* The order of the records depends on them and on the entries only.
LEMMA OrderFrame ==
    ASSUME queued' = queued, records' = records, hdr' = hdr
    PROVE  \A k : /\ EndOf(records, k)' = EndOf(records, k)
                  /\ EntryAfter(records, k)' <=> EntryAfter(records, k)
                  /\ WordsAfter(records, hdr, k)' <=> WordsAfter(records, hdr, k)
<1>1. \A k : EndOf(records, k)' = EndOf(records, k)
  BY EntriesFrame DEF EndOf
<1>2. \A k : EntryAfter(records, k)' <=> EntryAfter(records, k)
  BY <1>1 DEF EntryAfter
<1>3. \A k : WordsAfter(records, hdr, k)' <=> WordsAfter(records, hdr, k)
  BY DEF WordsAfter, WordsAt
<1> QED
  BY <1>1, <1>2, <1>3

\* The second pass keeps the order, since it only appends.
LEMMA EmitOrderedStep ==
    ASSUME TInv, TInv', LayoutRight, EmitRight, Emitted, EmitOrdered, [Next]_vars
    PROVE  EmitOrdered'
<1>1. /\ i \in Nat \ {0} /\ cursor \in Nat /\ out.size \in Nat /\ out'.size \in Nat /\ out \in Bytes
      /\ Len(queued) \in Nat /\ Len(deps) \in Nat
      /\ DOMAIN queued = 1 .. Len(queued) /\ DOMAIN deps = 1 .. Len(deps)
      /\ records \in Seq(Records) /\ slots \in Seq(Slots)
  BY QueuedTypes DEF TInv, TypeOK, Bytes
<1>2. CASE LayoutDone
  <2>1. Stage' = 4 /\ i' = 1 /\ out'.rows = {}
    BY <1>2, Stages DEF LayoutDone, Stage, NoBytes
  <2> QED
    BY <2>1 DEF EmitOrdered
<1>3. CASE Emits
  <2>1. /\ Stage \in 4 .. 7 /\ Stage' \in 4 .. 7 /\ cursor' = cursor
        /\ queued' = queued /\ deps' = deps /\ slots' = slots /\ records' = records /\ hdr' = hdr
        /\ out.size <= out'.size
    BY <1>3, EmitFrame, OutGrows
  <2>2. SUFFICES ASSUME cursor < Wrap, out'.size < Wrap
                 PROVE  EmitOrdered'
    BY <2>1 DEF EmitOrdered
  <2>3. out.size < Wrap
    BY SMTT(60), <1>1, <2>1, <2>2, BlobAssumption
  <2>4. \A k : /\ EndOf(records, k)' = EndOf(records, k)
               /\ EntryAfter(records, k)' <=> EntryAfter(records, k)
               /\ WordsAfter(records, hdr, k)' <=> WordsAfter(records, hdr, k)
    BY <2>1, OrderFrame
  <2>5. /\ DOMAIN records = 1 .. Len(queued) /\ DOMAIN slots = 1 .. Len(deps)
        /\ \A k \in DOMAIN records : RecordRight(k) /\ PoolRight(k)
        /\ \A k \in DOMAIN slots : SlotRight(k)
        /\ hdr.depsStringsOffset = Align8(Pos(Len(queued) + 1))
        /\ hdr.depsOffset = Align8(PathPos(Len(deps) + 1))
        /\ hdr.depsOffset \in Nat /\ hdr.entryDepsIdxOffset \in Nat
    BY <2>1, <2>2, EmitContext
  <2>6. \A k \in 1 .. Len(queued) : records[k].keyOffset \in Nat /\ EndOf(records, k) \in Nat
    <3> SUFFICES ASSUME NEW k \in 1 .. Len(queued)
                 PROVE  records[k].keyOffset \in Nat /\ EndOf(records, k) \in Nat
      OBVIOUS
    <3>1. records[k] \in Records
      BY <1>1, <2>5
    <3>2. records[k].keyOffset \in Nat
      BY <3>1, OffsetsAreNat DEF Records
    <3> QED
      BY <1>1, <3>2, PieceTypes DEF EndOf, TInv
  <2>7. \A d \in 1 .. Len(deps) : slots[d].off \in Nat /\ slots[d].len \in Nat
    <3> SUFFICES ASSUME NEW d \in 1 .. Len(deps) PROVE slots[d].off \in Nat /\ slots[d].len \in Nat
      OBVIOUS
    <3>1. slots[d] \in Slots
      BY <1>1, <2>5
    <3> QED
      BY <3>1, OffsetsAreNat DEF Slots
  <2>8. hdr.depsStringsOffset \in Nat
    BY OffsetsAreNat DEF TInv, TypeOK, Headers
  <2>9. CASE EmitEntry
    <3>1. Stage = 4 /\ Stage' = 4 /\ i' = i + 1 /\ out'.rows = out.rows
      BY <1>1, <2>9, Stages DEF EmitEntry, Stage, Bytes
    <3>2. /\ i \in DOMAIN queued /\ out'.size = AfterEntry(out.size, i)
      BY <1>1, <2>9, EmitEntryStep DEF TInv, Bytes
    <3>3. out.size = records[i].keyOffset
      BY <1>1, <2>2, <2>3, <2>5, <3>1, <3>2 DEF EmitRight, RecordRight
    <3>4. EndOf(records, i) = out'.size
      BY <3>2, <3>3 DEF EndOf
    <3>5. \A k \in 1 .. i - 1 : EntryAfter(records, k) /\ EndOf(records, k) <= out.size
      BY <2>2, <2>3, <3>1 DEF EmitOrdered
    <3>6. EntryAfter(records, i)
      BY <3>3, <3>5 DEF EntryAfter
    <3>7. \A k \in 1 .. i' - 1 : EntryAfter(records, k) /\ EndOf(records, k) <= out'.size
      <4>1. \A k \in 1 .. i' - 1 : (k \in 1 .. i - 1 \/ k = i) /\ k \in 1 .. Len(queued)
        BY <1>1, <3>1, <3>2
      <4> QED
        BY SMTT(60), <1>1, <2>1, <2>6, <3>4, <3>5, <3>6, <4>1
    <3>8. out.rows = {}
      BY <2>2, <2>3, <3>1 DEF EmitOrdered
    <3> QED
      BY <2>1, <2>4, <3>1, <3>7, <3>8 DEF EmitOrdered
  <2>10. CASE EmitEntriesDone
    <3>1. Stage = 4 /\ Stage' = 5 /\ i' = 1 /\ i \notin DOMAIN queued /\ out'.rows = out.rows
          /\ out'.size = Align8(out.size)
      BY <1>1, <2>10, Stages DEF EmitEntriesDone, Stage, Bytes
    <3>2. i = Len(queued) + 1
      BY <1>1, <3>1 DEF TInv, LaidOut
    <3>3. hdr.depsStringsOffset = out'.size
      BY <2>2, <2>3, <2>5, <3>1, <3>2 DEF EmitRight
    <3>4. \A k \in DOMAIN queued : EntryAfter(records, k) /\ EndOf(records, k) <= out.size
      <4>1. \A k \in DOMAIN queued : k \in 1 .. i - 1
        BY <1>1, <3>2
      <4> QED
        BY <2>2, <2>3, <3>1, <4>1 DEF EmitOrdered
    <3>5. \A k \in DOMAIN queued : EndOf(records, k) <= hdr.depsStringsOffset
      BY <1>1, <2>1, <2>6, <2>8, <3>3, <3>4
    <3>6. out.rows = {}
      BY <2>2, <2>3, <3>1 DEF EmitOrdered
    <3> QED
      BY <1>1, <2>1, <2>4, <3>1, <3>3, <3>4, <3>5, <3>6 DEF EmitOrdered
  <2>11. CASE EmitPath
    <3>1. Stage = 5 /\ Stage' = 5 /\ i' = i + 1 /\ i \in DOMAIN deps /\ out'.rows = out.rows
          /\ out'.size = out.size + Size(deps[i].path)
      BY <1>1, <2>11, Stages DEF EmitPath, Stage, Bytes
    <3>2. /\ \A k \in DOMAIN queued : EntryAfter(records, k) /\ EndOf(records, k) <= hdr.depsStringsOffset
          /\ out.rows = {} /\ hdr.depsStringsOffset <= out.size
          /\ \A d \in 1 .. i - 1 : slots[d].off + slots[d].len <= out.size
      BY <2>2, <2>3, <3>1 DEF EmitOrdered
    <3>3. slots[i].off + slots[i].len = out'.size
      BY <1>1, <2>2, <2>3, <2>5, <3>1 DEF EmitRight, SlotRight
    <3>4. \A d \in 1 .. i' - 1 : slots[d].off + slots[d].len <= out'.size
      <4> TAKE d \in 1 .. i' - 1
      <4>1. (d \in 1 .. i - 1 \/ d = i) /\ d \in 1 .. Len(deps)
        BY SMTT(60), <1>1, <3>1
      <4>2. slots[d].off + slots[d].len \in Nat
        BY <2>7, <4>1
      <4>3. CASE d \in 1 .. i - 1
        BY <1>1, <2>1, <3>2, <4>2, <4>3
      <4>4. CASE d = i
        BY <1>1, <3>3, <4>4
      <4> QED
        BY <4>1, <4>3, <4>4
    <3>5. hdr.depsStringsOffset <= out'.size
      BY <1>1, <2>1, <2>8, <3>2
    <3> QED
      BY <2>1, <2>4, <3>1, <3>2, <3>4, <3>5 DEF EmitOrdered
  <2>12. CASE EmitPathsDone
    <3>1. Stage = 5 /\ Stage' = 6 /\ i' = 1 /\ i \notin DOMAIN deps /\ out'.rows = out.rows
          /\ out'.size = Align8(out.size)
      BY <1>1, <2>12, Stages DEF EmitPathsDone, Stage, Bytes
    <3>2. i = Len(deps) + 1
      BY SMTT(60), <1>1, <3>1 DEF TInv, LaidOut
    <3>3. /\ \A k \in DOMAIN queued : EntryAfter(records, k) /\ EndOf(records, k) <= hdr.depsStringsOffset
          /\ out.rows = {} /\ hdr.depsStringsOffset <= out.size
          /\ \A d \in 1 .. i - 1 : slots[d].off + slots[d].len <= out.size
      BY <2>2, <2>3, <3>1 DEF EmitOrdered
    <3>4. hdr.depsOffset = out'.size
      BY <2>2, <2>3, <2>5, <3>1, <3>2 DEF EmitRight
    <3>5. hdr.depsStringsOffset <= hdr.depsOffset
      BY <1>1, <2>1, <2>8, <3>3, <3>4
    <3>6. \A d \in DOMAIN deps : slots[d].off + slots[d].len <= hdr.depsOffset
      <4>1. \A d \in DOMAIN deps : d \in 1 .. i - 1 /\ d \in 1 .. Len(deps)
        BY <1>1, <3>2
      <4> QED
        BY SMTT(60), <1>1, <2>1, <2>7, <3>3, <3>4, <4>1
    <3>7. RowsBefore(out', hdr.depsOffset)
      BY <3>1, <3>3 DEF RowsBefore
    <3> QED
      BY <2>1, <2>4, <3>1, <3>3, <3>5, <3>6, <3>7 DEF EmitOrdered
  <2>13. CASE EmitRow \/ EmitRowsDone \/ EmitIndices
    <3>1. /\ Stage \in 6 .. 7 /\ Stage' \in 6 .. 7 /\ Stage <= Stage'
          /\ Stage = 6 /\ Stage' = 7 => i' = 1
      BY <2>13, Stages DEF EmitRow, EmitRowsDone, EmitIndices, Stage
    <3>2. /\ \A k \in DOMAIN queued : EntryAfter(records, k) /\ EndOf(records, k) <= hdr.depsStringsOffset
          /\ hdr.depsStringsOffset <= hdr.depsOffset
          /\ \A d \in DOMAIN deps : slots[d].off + slots[d].len <= hdr.depsOffset
          /\ RowsBefore(out, hdr.depsOffset)
      BY <2>2, <2>3, <3>1 DEF EmitOrdered
    <3>3. RowsBefore(out', hdr.depsOffset)
      <4>1. CASE EmitRow
        <5>1. i \in DOMAIN deps
              /\ out'.rows = out.rows \cup {[off |-> out.size, path |-> slots[i], hash |-> deps[i].hash]}
          BY <1>1, <4>1 DEF EmitRow, Bytes
        <5> QED
          BY <3>2, <5>1 DEF RowsBefore
      <4>2. CASE EmitRowsDone \/ EmitIndices
        <5>1. out'.rows = out.rows
          BY <1>1, <4>2 DEF EmitRowsDone, EmitIndices, Bytes
        <5> QED
          BY <3>2, <5>1 DEF RowsBefore
      <4> QED
        BY <2>13, <4>1, <4>2
    <3>4. Stage' = 7 => \A k \in 1 .. i' - 1 : WordsAfter(records, hdr, k)
      <4>1. CASE Stage = 6
        BY <3>1, <4>1
      <4>2. CASE Stage = 7
        <5>1. EmitIndices /\ i \in DOMAIN queued /\ i' = i + 1
          BY <2>13, <4>2, Stages DEF EmitRow, EmitRowsDone, EmitIndices, Stage
        <5>2. \A k \in 1 .. i - 1 : WordsAfter(records, hdr, k) /\ WordsStored(records, hdr, out, k)
          BY <2>2, <2>3, <4>2 DEF EmitOrdered, Emitted
        <5>3. WordsAt(records, hdr, i) = out.size
          BY <1>1, <2>2, <2>3, <2>5, <4>2, <5>1 DEF EmitRight, PoolRight, WordsAt
        <5>4. WordsAfter(records, hdr, i)
          BY <5>2, <5>3 DEF WordsAfter, WordsStored, WordsAt
        <5>5. \A k \in 1 .. i' - 1 : k \in 1 .. i - 1 \/ k = i
          BY <1>1, <5>1
        <5> QED
          BY <5>2, <5>4, <5>5
      <4> QED
        BY <3>1, <4>1, <4>2
    <3> QED
      BY <2>1, <2>4, <3>1, <3>2, <3>3, <3>4 DEF EmitOrdered
  <2> QED
    BY <1>3, <2>9, <2>10, <2>11, <2>12, <2>13 DEF Emits
<1>4. CASE UNCHANGED vars
  <2>1. /\ UNCHANGED <<queued, deps, records, slots, hdr, cursor, i, out>> /\ Stage' = Stage
    BY <1>4 DEF vars, writer, layout, Stage
  <2>2. \A k : /\ EndOf(records, k)' = EndOf(records, k)
               /\ EntryAfter(records, k)' <=> EntryAfter(records, k)
               /\ WordsAfter(records, hdr, k)' <=> WordsAfter(records, hdr, k)
    BY <2>1, OrderFrame
  <2> QED
    BY <2>1, <2>2 DEF EmitOrdered, RowsBefore
<1>5. CASE ~LayoutDone /\ ~Emits /\ ~UNCHANGED vars
  <2>1. Stage' \in 0 .. 3
    BY <1>5, Stages DEF Next, Emits, AddEntry, SetDependencies, SetOptionsHash, SetCompression,
         Finalize, LayoutEntry, LayoutEntriesDone, LayoutPath, LayoutPathsDone, LayoutIndices,
         Return, Grow, Close, Destroy, Stage
  <2> QED
    BY <2>1 DEF EmitOrdered
<1> QED
  BY <1>2, <1>3, <1>4, <1>5

\* The order in a file depends on the entries and dependencies only.
LEMMA FileOrderFrame ==
    ASSUME queued' = queued, deps' = deps, NEW recs, NEW h, NEW o
    PROVE  FileOrder(recs, h, o)' <=> FileOrder(recs, h, o)
<1>1. /\ \A k : EndOf(recs, k)' = EndOf(recs, k)
      /\ \A k : Placed(recs, k)' <=> Placed(recs, k)
  BY EntriesFrame DEF EndOf, Placed
<1>2. \A k : EntryAfter(recs, k)' <=> EntryAfter(recs, k)
  BY <1>1 DEF EntryAfter
<1> QED
  BY <1>1, <1>2 DEF FileOrder, RowsBefore, WordsAfter, WordsAt

\* The file is made when the second pass is done, and then only grows on disk.
LEMMA FileOrderedStep ==
    ASSUME TInv, TInv', LayoutRight, FileRight', EmitOrdered, FileOrdered, [Next]_vars
    PROVE  FileOrdered'
<1>1. CASE Return
  <2>1. /\ Stage = 7 /\ ~Finalized /\ Finalized' /\ i \notin DOMAIN queued
        /\ UNCHANGED <<queued, deps, onDisk>>
        /\ file'.hdr = hdr /\ file'.records = records /\ file'.out = out
        /\ file'.size = IF out.size < cursor THEN cursor ELSE out.size
    BY <1>1, Stages DEF Return, writer, Stage, Finalized
  <2>2. onDisk' <= file'.length
    <3>1. onDisk' = 0
      BY <2>1 DEF FileOrdered
    <3>2. file'.length \in Nat
      BY <2>1 DEF FileRight, Files
    <3> QED
      BY <3>1, <3>2
  <2>3. /\ i \in Nat \ {0} /\ cursor \in Nat /\ out.size \in Nat
        /\ Len(queued) \in Nat /\ DOMAIN queued = 1 .. Len(queued)
        /\ records \in Seq(Records) /\ hdr \in Headers
    BY QueuedTypes DEF TInv, TypeOK, Bytes
  <2>4. SUFFICES ASSUME file'.size < Wrap PROVE FileOrder(records, hdr, out)
    BY <2>1, <2>2, FileOrderFrame DEF FileOrdered
  <2>5. cursor < Wrap /\ out.size < Wrap
    BY <2>1, <2>3, <2>4, BlobAssumption
  <2>6. /\ \A k \in DOMAIN queued : EntryAfter(records, k) /\ EndOf(records, k) <= hdr.depsStringsOffset
        /\ hdr.depsStringsOffset <= hdr.depsOffset
        /\ RowsBefore(out, hdr.depsOffset)
        /\ \A k \in 1 .. i - 1 : WordsAfter(records, hdr, k)
    BY <2>1, <2>5 DEF EmitOrdered
  <2>7. /\ DOMAIN records = 1 .. Len(queued) /\ \A k \in DOMAIN records : RecordRight(k)
        /\ hdr.depsOffset \in Nat /\ hdr.entryDepsIdxOffset = Align4(hdr.depsOffset + Len(deps) * DepSize)
    BY <2>1, <2>5, EmitContext
  <2>8. hdr.depsStringsOffset \in Nat
    BY <2>3, OffsetsAreNat DEF Headers
  <2>9. ASSUME NEW k \in DOMAIN queued
        PROVE  /\ Placed(records, k) /\ EndOf(records, k) <= hdr.depsOffset
               /\ WordsAfter(records, hdr, k)
    <3>1. RecordRight(k) /\ records[k] \in Records
      BY <2>3, <2>7
    <3>2. records[k].keyOffset \in Nat
      BY <3>1, OffsetsAreNat DEF Records
    <3>3. EndOf(records, k) \in Nat
      BY <3>2, PieceTypes DEF EndOf, TInv
    <3>4. Placed(records, k)
      BY <3>1 DEF RecordRight, Placed
    <3>5. k \in 1 .. i - 1
      BY SMTT(60), <2>1, <2>3 DEF TInv, LaidOut
    <3> QED
      BY <2>6, <2>7, <2>8, <3>3, <3>4, <3>5
  <2> QED
    BY <2>6, <2>7, <2>9 DEF FileOrder
<1>2. CASE (pc = "write" /\ \E n \in CutPoints(file) : Grow(n)) \/ Close \/ UNCHANGED vars
  <2>1. UNCHANGED <<queued, deps, file>> /\ (Finalized' <=> Finalized)
    BY <1>2 DEF Grow, Close, vars, writer, layout, Finalized
  <2>2. IF Finalized' THEN onDisk' <= file'.length ELSE onDisk' = 0
    BY <1>2, <2>1 DEF FileOrdered, Grow, Close, vars, Finalized
  <2> QED
    BY <2>1, <2>2, FileOrderFrame DEF FileOrdered
<1>3. CASE /\ ~Return /\ ~(pc = "write" /\ \E n \in CutPoints(file) : Grow(n)) /\ ~Close
           /\ ~UNCHANGED vars
  <2>1. ~Finalized' /\ (onDisk' = 0 \/ (onDisk' = onDisk /\ ~Finalized))
    BY <1>3 DEF Next, AddEntry, SetDependencies, SetOptionsHash, SetCompression,
         Finalize, LayoutEntry, LayoutEntriesDone, LayoutPath, LayoutPathsDone, LayoutIndices,
         LayoutDone, EmitEntry, EmitEntriesDone, EmitPath, EmitPathsDone, EmitRow, EmitRowsDone,
         EmitIndices, Destroy, Finalized
  <2> QED
    BY <2>1 DEF FileOrdered
<1> QED
  BY <1>1, <1>2, <1>3

-----------------------------------------------------------------------------
(* What a cut leaves of the payloads.                                      *)

\* The end of the key of entry k in the file.
KeyEnd(k) == file.records[k].keyOffset + Size(queued[k].key) + 1

\* Where the pieces of the entries end.
LEMMA FilePlaces ==
    ASSUME TypeOK, FileRight, FileOrdered, Finalized, file.size < Wrap,
           NEW k \in 1 .. Len(queued), NEW r, r = file.records[k],
           NEW end, end = EndOf(file.records, k)
    PROVE  /\ r.keyOffset \in Nat /\ KeyEnd(k) \in Nat /\ end \in Nat
           /\ r.keyOffset <= KeyEnd(k) /\ KeyEnd(k) <= end
           /\ Owns(Code, k) => KeyEnd(k) <= r.codeOffset /\ r.codeOffset + Size(Code[k]) <= end
           /\ Owns(Refl, k) => KeyEnd(k) <= r.reflOffset /\ r.reflOffset + Size(Refl[k]) <= end
           /\ end <= file.hdr.depsOffset
           /\ \A j \in 1 .. k - 1 : EndOf(file.records, j) <= r.keyOffset
           /\ WordsAt(file.records, file.hdr, k) \in Nat
           /\ file.hdr.entryDepsIdxOffset <= WordsAt(file.records, file.hdr, k)
           /\ WordsAfter(file.records, file.hdr, k)
<1> DEFINE p == r.keyOffset
<1>1. k \in DOMAIN queued /\ Size(queued[k].key) \in Nat
  BY QueuedTypes
<1>2. p \in Nat /\ r.depsIdxOff \in Nat /\ file.hdr.entryDepsIdxOffset \in Nat
  BY FileTypes
<1>3. /\ Placed(file.records, k) /\ EntryAfter(file.records, k)
      /\ end <= file.hdr.depsOffset /\ WordsAfter(file.records, file.hdr, k)
  BY <1>1 DEF FileOrdered, FileOrder
<1>4. KeyEnd(k) = p + Size(queued[k].key) + 1 /\ end = AfterEntry(p, k)
  BY DEF KeyEnd, EndOf
<1>5. /\ CodeAt(p, k) \in Nat /\ AfterCode(p, k) \in Nat
      /\ ReflAt(p, k) \in Nat /\ AfterEntry(p, k) \in Nat
      /\ p + Size(queued[k].key) + 1 <= CodeAt(p, k)
      /\ p + Size(queued[k].key) + 1 <= AfterCode(p, k)
      /\ Owns(Code, k) => CodeAt(p, k) + Size(Code[k]) = AfterCode(p, k)
      /\ AfterCode(p, k) <= ReflAt(p, k)
      /\ AfterCode(p, k) <= AfterEntry(p, k)
      /\ Owns(Refl, k) => ReflAt(p, k) + Size(Refl[k]) = AfterEntry(p, k)
  BY <1>1, <1>2, PieceTypes
<1>6. /\ Owns(Code, k) => r.codeOffset = CodeAt(p, k)
      /\ Owns(Refl, k) => r.reflOffset = ReflAt(p, k)
  BY <1>3 DEF Placed
<1>7. /\ WordsAt(file.records, file.hdr, k) \in Nat
      /\ file.hdr.entryDepsIdxOffset <= WordsAt(file.records, file.hdr, k)
  <2>1. WordsAt(file.records, file.hdr, k) = file.hdr.entryDepsIdxOffset + r.depsIdxOff * 4
    BY DEF WordsAt, WordSize
  <2> QED
    BY SMTT(60), <1>2, <2>1
<1>8. \A j \in 1 .. k - 1 : EndOf(file.records, j) <= p
  BY <1>3 DEF EntryAfter
<1> HIDE DEF p
<1>9. /\ p \in Nat /\ KeyEnd(k) \in Nat /\ end \in Nat /\ p <= KeyEnd(k) /\ KeyEnd(k) <= end
  BY SMTT(60), <1>1, <1>2, <1>4, <1>5
<1>10. Owns(Code, k) => KeyEnd(k) <= r.codeOffset /\ r.codeOffset + Size(Code[k]) <= end
  BY <1>4, <1>5, <1>6
<1>11. Owns(Refl, k) => KeyEnd(k) <= r.reflOffset /\ r.reflOffset + Size(Refl[k]) <= end
  <2>1. KeyEnd(k) <= ReflAt(p, k)
    BY <1>4, <1>5, <1>9
  <2>2. Size(Refl[k]) \in Nat
    BY <1>1, QueuedTypes
  <2> QED
    BY <1>4, <1>5, <1>6, <2>1, <2>2
<1> QED
  BY <1>3, <1>7, <1>8, <1>9, <1>10, <1>11 DEF p

\* The first entry with a payload owns it.
LEMMA OwnerExists ==
    ASSUME NEW s, NEW m \in Nat, NEW k \in 1 .. m
    PROVE  \E g \in 1 .. k : s[g] = s[k] /\ Owns(s, g)
<1> DEFINE S == {g \in 1 .. k : s[g] = s[k]}
<1>1. S \in SUBSET (1 .. k) /\ S # {} /\ k \in Nat
  OBVIOUS
<1>2. PICK g : IsFirst(g, S)
  BY <1>1, FirstExists
<1>3. g \in 1 .. k /\ s[g] = s[k] /\ \A h \in S : g <= h
  BY <1>2 DEF IsFirst
<1>4. \A h \in 1 .. g - 1 : ~Shares(s, g, h)
  <2> SUFFICES ASSUME NEW h \in 1 .. g - 1, s[h] = s[g] PROVE FALSE
    BY DEF Shares
  <2>1. h \in S /\ h < g
    BY <1>1, <1>3
  <2> QED
    BY <1>1, <1>3, <2>1
<1> QED
  BY <1>3, <1>4 DEF Owns

\* The payloads s of m entries are at `at', behind their keys, and a cut at
\* N leaves n keys.
Leaves(N, n, m, s, at, key, end) ==
    /\ \A k \in 1 .. m : s[k] \in Strings /\ at[k] \in Nat /\ key[k] \in Nat /\ end[k] \in Nat
    /\ \A k \in 1 .. m : Owns(s, k) => key[k] <= at[k] /\ at[k] + Size(s[k]) <= end[k]
    /\ \A j, k \in 1 .. m : s[j] = s[k] /\ s[k] # Empty => at[j] = at[k]
    /\ \A k \in 1 .. m : key[k] <= N <=> k <= n
    /\ \A k \in 1 .. n - 1 : end[k] <= N

\* Such a cut leaves the payloads of the n - 1 first entries, and those of
\* entry n up to its place.
LEMMA InSight ==
    ASSUME NEW m \in Nat, NEW n \in 0 .. m, NEW N \in Nat,
           NEW s, NEW at, NEW key, NEW end, Leaves(N, n, m, s, at, key, end),
           NEW k \in 1 .. m, s[k] # Empty
    PROVE  Reaches(at[k], s[k], N) <=>
             \/ \E h \in 1 .. n - 1 : s[h] = s[k]
             \/ n \in 1 .. m /\ s[n] = s[k] /\ Reaches(at[n], s[n], N)
<1> USE DEF Leaves
<1>1. Size(s[k]) \in Nat
  BY BlobAssumption
<1>2. ASSUME Reaches(at[k], s[k], N)
      PROVE  \/ \E h \in 1 .. n - 1 : s[h] = s[k]
             \/ n \in 1 .. m /\ s[n] = s[k] /\ Reaches(at[n], s[n], N)
  <2>1. PICK g \in 1 .. k : s[g] = s[k] /\ Owns(s, g)
    BY OwnerExists
  <2>2. g \in 1 .. m
    OBVIOUS
  <2>3. at[g] = at[k] /\ key[g] <= at[g]
    BY <2>1, <2>2
  <2>4. at[g] + Size(s[g]) <= N
    BY <1>2, <2>1, <2>3 DEF Reaches
  <2>5. at[g] \in Nat /\ key[g] \in Nat /\ Size(s[g]) \in Nat
    BY <1>1, <2>1, <2>2
  <2>6. key[g] <= N
    BY <2>3, <2>4, <2>5
  <2>7. g <= n
    BY <2>2, <2>6
  <2>8. CASE g = n
    BY <2>1, <2>2, <2>4, <2>8 DEF Reaches
  <2>9. CASE g # n
    <3>1. g \in 1 .. n - 1
      BY <2>2, <2>7, <2>9
    <3> QED
      BY <2>1, <3>1
  <2> QED
    BY <2>8, <2>9
<1>3. ASSUME NEW h \in 1 .. n - 1, s[h] = s[k]
      PROVE  Reaches(at[k], s[k], N)
  <2>1. h \in 1 .. m /\ n - 1 \in Nat
    OBVIOUS
  <2>2. PICK g \in 1 .. h : s[g] = s[h] /\ Owns(s, g)
    BY <2>1, OwnerExists
  <2>3. g \in 1 .. m /\ g \in 1 .. n - 1
    OBVIOUS
  <2>4. at[g] = at[k] /\ at[g] + Size(s[g]) <= end[g] /\ end[g] <= N
    BY <1>3, <2>2, <2>3
  <2>5. at[g] \in Nat /\ end[g] \in Nat
    BY <2>3
  <2> QED
    BY <1>1, <1>3, <2>2, <2>4, <2>5 DEF Reaches
<1>4. ASSUME n \in 1 .. m, s[n] = s[k], Reaches(at[n], s[n], N)
      PROVE  Reaches(at[k], s[k], N)
  <2>1. at[n] = at[k]
    BY <1>4
  <2> QED
    BY <1>4, <2>1
<1> QED
  BY <1>2, <1>3, <1>4

\* The keys that are there are those of the entries up to some n.
LEMMA LastKey ==
    ASSUME NEW m \in Nat, NEW N \in Nat, NEW key,
           \A k \in 1 .. m : key[k] \in Nat,
           \A k \in 1 .. m : \A j \in 1 .. k - 1 : key[j] <= key[k]
    PROVE  \E n \in 0 .. m : \A k \in 1 .. m : key[k] <= N <=> k <= n
<1> DEFINE S == {k \in 1 .. m : ~(key[k] <= N)}
<1>1. S \in SUBSET (1 .. m)
  OBVIOUS
<1>2. CASE S = {}
  BY <1>2
<1>3. CASE S # {}
  <2>1. PICK f : IsFirst(f, S)
    BY <1>1, <1>3, FirstExists
  <2>2. f \in 1 .. m /\ ~(key[f] <= N) /\ \A h \in S : f <= h
    BY <2>1 DEF IsFirst
  <2>3. ASSUME NEW k \in 1 .. m PROVE key[k] <= N <=> k <= f - 1
    <3>1. CASE k < f
      <4>1. key[k] <= N
        BY <2>2, <3>1
      <4> QED
        BY <2>2, <3>1, <4>1
    <3>2. CASE k = f
      BY <2>2, <3>2
    <3>3. CASE k > f
      <4>1. f \in 1 .. k - 1
        BY <2>2, <3>3
      <4>2. key[f] <= key[k] /\ key[f] \in Nat /\ key[k] \in Nat
        BY <2>2, <4>1
      <4>3. ~(key[k] <= N)
        BY <2>2, <4>2
      <4> QED
        BY <2>2, <3>3, <4>3
    <3> QED
      BY <2>2, <3>1, <3>2, <3>3
  <2>4. f - 1 \in 0 .. m
    BY <2>2
  <2> QED
    BY <2>3, <2>4
<1> QED
  BY <1>2, <1>3

\* If all entries end before N, all payloads do.
LEMMA AllInSight ==
    ASSUME NEW m \in Nat, NEW N \in Nat, NEW s, NEW at, NEW end,
           \A k \in 1 .. m : s[k] \in Strings /\ at[k] \in Nat /\ end[k] \in Nat /\ end[k] <= N,
           \A k \in 1 .. m : Owns(s, k) => at[k] + Size(s[k]) <= end[k],
           \A j, k \in 1 .. m : s[j] = s[k] /\ s[k] # Empty => at[j] = at[k],
           NEW k \in 1 .. m
    PROVE  Reaches(at[k], s[k], N)
<1> SUFFICES ASSUME s[k] # Empty PROVE at[k] + Size(s[k]) <= N
  BY DEF Reaches
<1>1. PICK g \in 1 .. k : s[g] = s[k] /\ Owns(s, g)
  BY OwnerExists
<1>2. g \in 1 .. m /\ at[g] = at[k] /\ at[g] + Size(s[g]) <= end[g] /\ end[g] <= N
  BY <1>1
<1>3. at[g] \in Nat /\ end[g] \in Nat /\ Size(s[k]) \in Nat
  BY <1>2, BlobAssumption
<1> QED
  BY <1>1, <1>2, <1>3

\* Replacing fields of a blob.
LEMMA WithEntries ==
    \A a, d, f : [[entries |-> a, deps |-> d] EXCEPT !.entries = f] = [entries |-> f, deps |-> d]
OBVIOUS

LEMMA WithBoth ==
    ASSUME NEW a, NEW d, NEW f, NEW g
    PROVE  [[entries |-> a, deps |-> d] EXCEPT !.entries = f, !.deps = g]
             = [entries |-> f, deps |-> g]
<1> DEFINE r == [entries |-> a, deps |-> d]
<1>1. [r EXCEPT !.entries = f, !.deps = g] = [[r EXCEPT !.entries = f] EXCEPT !.deps = g]
  OBVIOUS
<1>2. [r EXCEPT !.entries = f] = [entries |-> f, deps |-> d]
  OBVIOUS
<1>3. [[entries |-> f, deps |-> d] EXCEPT !.deps = g] = [entries |-> f, deps |-> g]
  OBVIOUS
<1> QED
  BY <1>1, <1>2, <1>3

\* Whole rows from a multiple of 8 on end at a multiple of 4.
LEMMA RowsEndAligned ==
    ASSUME NEW d \in Nat, NEW n \in Nat, d % 8 = 0
    PROVE  (d + n * 16) % 4 = 0
<1>1. PICK q \in Nat : d = 8 * q
  <2>1. d = 8 * (d \div 8) /\ d \div 8 \in Nat
    OBVIOUS
  <2> QED
    BY <2>1
<1> DEFINE z == 2 * q + 4 * n
<1>2. d + n * 16 = 4 * z /\ z \in Nat
  BY <1>1
<1> HIDE DEF z
<1> QED
  BY <1>2

\* What is known of a finished file.
CutContext ==
    /\ TypeOK /\ FileRight /\ FileOrdered /\ SInv /\ AInv
    /\ Finalized /\ file.size < Wrap /\ NoCollision

\* The blob as it was queued, and as the reader shows it.
Whole    == [entries |-> [k \in DOMAIN queued |-> AsQueued(queued[k])], deps |-> deps]
ShownNow == [entries |-> [k \in DOMAIN queued |-> AsShown(k)],
             deps |-> Dependencies(file, onDisk)]

\* What of entry k ends before N.
CodeSeen(k, N) == Reaches(file.records[k].codeOffset, Code[k], N)
ReflSeen(k, N) == Reaches(file.records[k].reflOffset, Refl[k], N)
DepsSeen(k, N) == WordsAt(file.records, file.hdr, k) + Len(queued[k].deps) * WordSize <= N

\* The payload offsets of equal payloads are equal.
LEMMA SharedInFile ==
    ASSUME CutContext, NEW j \in DOMAIN queued, NEW k \in DOMAIN queued
    PROVE  /\ Code[j] = Code[k] /\ Code[k] # Empty
                => file.records[j].codeOffset = file.records[k].codeOffset
           /\ Refl[j] = Refl[k] /\ Refl[k] # Empty
                => file.records[j].reflOffset = file.records[k].reflOffset
BY DEF CutContext, SInv, Shared

\* An entry as it is shown.
LEMMA ShownEntry ==
    ASSUME CutContext, NEW k \in DOMAIN queued, NEW N \in Nat, N = BlobSize(file, onDisk)
    PROVE  AsShown(k) =
             [key  |-> IF KeyEnd(k) <= N THEN queued[k].key ELSE Empty,
              code |-> IF CodeSeen(k, N) /\ ReflSeen(k, N) THEN Payload(queued[k])
                       ELSE <<Empty, Empty>>,
              deps |-> IF DepsSeen(k, N) THEN queued[k].deps ELSE <<>>]
<1> DEFINE e == At(file, onDisk, k)
           r == file.records[k]
           key == IF KeyEnd(k) <= N THEN queued[k].key ELSE Empty
           idx == IF DepsSeen(k, N) THEN queued[k].deps ELSE <<>>
<1>1. /\ r.keySize = Size(queued[k].key) + 1
      /\ e.key = IF r.keyOffset + r.keySize <= N THEN queued[k].key ELSE Empty
      /\ e.code = IF CodeSeen(k, N) THEN Code[k] ELSE Empty
      /\ e.refl = IF ReflSeen(k, N) THEN Refl[k] ELSE Empty
      /\ e.deps = idx
  BY EntrySeen DEF CutContext, CodeSeen, ReflSeen, DepsSeen
<1>2. Code[k] = queued[k].code /\ Refl[k] = queued[k].refl
  BY QueuedTypes DEF CutContext
<1>3. e.key = key
  <2>1. k \in 1 .. Len(queued) /\ Size(queued[k].key) \in Nat
    BY QueuedTypes DEF CutContext
  <2>2. r.keyOffset \in Nat
    BY <2>1, FileTypes DEF CutContext
  <2>3. r.keyOffset + r.keySize = KeyEnd(k)
    BY <1>1, <2>1, <2>2 DEF KeyEnd
  <2> QED
    BY <1>1, <2>3
<1> DEFINE lost == \/ queued[k].code # Empty /\ e.code = Empty
                   \/ queued[k].refl # Empty /\ e.refl = Empty
           seen == CodeSeen(k, N) /\ ReflSeen(k, N)
<1>4. AsShown(k) = [key |-> e.key, code |-> IF lost THEN <<Empty, Empty>> ELSE Payload(e),
                    deps |-> e.deps]
  BY DEF AsShown
<1>5. Code[k] = Empty => CodeSeen(k, N)
  BY DEF CodeSeen, Reaches
<1>6. Refl[k] = Empty => ReflSeen(k, N)
  BY DEF ReflSeen, Reaches
<1> HIDE DEF e
<1>7. lost <=> ~seen
  BY <1>1, <1>2, <1>5, <1>6
<1>8. seen => Payload(e) = Payload(queued[k])
  BY <1>1, <1>2 DEF Payload
<1> HIDE DEF lost, seen, key, idx
<1>9. AsShown(k) = [key |-> key, code |-> IF seen THEN Payload(queued[k]) ELSE <<Empty, Empty>>,
                    deps |-> idx]
  BY <1>1, <1>3, <1>4, <1>7, <1>8
<1> QED
  BY <1>9 DEF seen, key, idx

\* The file ends in the pool of dependency indices, or behind it.
LEMMA CutInPool ==
    ASSUME CutContext, NEW N \in Nat, N = BlobSize(file, onDisk),
           file.hdr.entryDepsIdxOffset <= N
    PROVE  ShownNow \in {Whole} \cup Views!Cuts(Whole)
<1> DEFINE m == Len(queued)
           recs == file.records
           Full(k) == AsQueued(queued[k])
           Bare(k) == [AsQueued(queued[k]) EXCEPT !.deps = <<>>]
<1>1. /\ DOMAIN queued = 1 .. m /\ m \in Nat /\ Len(deps) \in Nat
      /\ \A k \in 1 .. m : /\ Code[k] \in Strings /\ Refl[k] \in Strings
                           /\ queued[k].deps \in Seq(Nat)
  BY QueuedTypes DEF CutContext
<1>2. /\ file.hdr.depsOffset \in Nat /\ file.hdr.entryDepsIdxOffset \in Nat
      /\ \A k \in 1 .. m : recs[k].codeOffset \in Nat /\ recs[k].reflOffset \in Nat
      /\ \A r \in file.out.rows : r.path.off \in Nat /\ r.path.len \in Nat
  BY FileTypes DEF CutContext
<1>3. /\ RowsBefore(file.out, file.hdr.depsOffset)
      /\ file.hdr.entryDepsIdxOffset = Align4(file.hdr.depsOffset + Len(deps) * DepSize)
  BY DEF CutContext, FileOrdered, FileOrder
<1>4. file.hdr.depsOffset + Len(deps) * DepSize <= N /\ file.hdr.depsOffset <= N
  <2>1. file.hdr.depsOffset + Len(deps) * DepSize \in Nat
    BY <1>1, <1>2 DEF DepSize
  <2>2. file.hdr.depsOffset + Len(deps) * DepSize <= file.hdr.entryDepsIdxOffset
    BY <1>3, <2>1, Aligns
  <2>3. file.hdr.depsOffset <= file.hdr.depsOffset + Len(deps) * DepSize
    BY <1>1, <1>2 DEF DepSize
  <2> QED
    BY <1>2, <2>1, <2>2, <2>3
<1>5. Dependencies(file, onDisk) = deps
  <2>1. \A r \in file.out.rows : r.path.off + r.path.len <= N
    BY <1>2, <1>3, <1>4 DEF RowsBefore
  <2>2. TypeOK /\ FileRight /\ Finalized /\ file.size < Wrap
    BY DEF CutContext
  <2> QED
    BY <1>4, <2>1, <2>2, DependenciesSeen
<1>6. ASSUME NEW k \in 1 .. m
      PROVE  /\ EndOf(recs, k) \in Nat /\ EndOf(recs, k) <= N /\ KeyEnd(k) <= N
             /\ Owns(Code, k) => recs[k].codeOffset + Size(Code[k]) <= EndOf(recs, k)
             /\ Owns(Refl, k) => recs[k].reflOffset + Size(Refl[k]) <= EndOf(recs, k)
             /\ WordsAt(recs, file.hdr, k) \in Nat
             /\ WordsAfter(recs, file.hdr, k)
  <2>1. /\ KeyEnd(k) \in Nat /\ EndOf(recs, k) \in Nat /\ KeyEnd(k) <= EndOf(recs, k)
        /\ EndOf(recs, k) <= file.hdr.depsOffset
        /\ Owns(Code, k) => recs[k].codeOffset + Size(Code[k]) <= EndOf(recs, k)
        /\ Owns(Refl, k) => recs[k].reflOffset + Size(Refl[k]) <= EndOf(recs, k)
        /\ WordsAt(recs, file.hdr, k) \in Nat
        /\ WordsAfter(recs, file.hdr, k)
    BY FilePlaces DEF CutContext
  <2> QED
    BY SMTT(60), <1>2, <1>4, <2>1
<1>7. \A k \in 1 .. m : CodeSeen(k, N)
  <2> DEFINE at == [k \in 1 .. m |-> recs[k].codeOffset]
             end == [k \in 1 .. m |-> EndOf(recs, k)]
  <2>1. \A k \in 1 .. m : at[k] = recs[k].codeOffset /\ end[k] = EndOf(recs, k)
    OBVIOUS
  <2>2. \A j, k \in 1 .. m : Code[j] = Code[k] /\ Code[k] # Empty => at[j] = at[k]
    BY <1>1, <2>1, SharedInFile
  <2> HIDE DEF at, end, m, recs
  <2>3. \A k \in 1 .. m : /\ Code[k] \in Strings /\ at[k] \in Nat
                           /\ end[k] \in Nat /\ end[k] <= N
    BY <1>1, <1>2, <1>6, <2>1
  <2>4. \A k \in 1 .. m : Owns(Code, k) => at[k] + Size(Code[k]) <= end[k]
    BY <1>6, <2>1
  <2>5. \A k \in 1 .. m : Reaches(at[k], Code[k], N)
    BY <1>1, <2>2, <2>3, <2>4, AllInSight
  <2> QED
    BY <2>1, <2>5 DEF CodeSeen, recs
<1>8. \A k \in 1 .. m : ReflSeen(k, N)
  <2> DEFINE at == [k \in 1 .. m |-> recs[k].reflOffset]
             end == [k \in 1 .. m |-> EndOf(recs, k)]
  <2>1. \A k \in 1 .. m : at[k] = recs[k].reflOffset /\ end[k] = EndOf(recs, k)
    OBVIOUS
  <2>2. \A j, k \in 1 .. m : Refl[j] = Refl[k] /\ Refl[k] # Empty => at[j] = at[k]
    BY <1>1, <2>1, SharedInFile
  <2> HIDE DEF at, end, m, recs
  <2>3. \A k \in 1 .. m : /\ Refl[k] \in Strings /\ at[k] \in Nat
                           /\ end[k] \in Nat /\ end[k] <= N
    BY <1>1, <1>2, <1>6, <2>1
  <2>4. \A k \in 1 .. m : Owns(Refl, k) => at[k] + Size(Refl[k]) <= end[k]
    BY <1>6, <2>1
  <2>5. \A k \in 1 .. m : Reaches(at[k], Refl[k], N)
    BY <1>1, <2>2, <2>3, <2>4, AllInSight
  <2> QED
    BY <2>1, <2>5 DEF ReflSeen, recs
<1>9. \A k \in 1 .. m : AsShown(k) = IF DepsSeen(k, N) THEN Full(k) ELSE Bare(k)
  <2> TAKE k \in 1 .. m
  <2>1. AsShown(k) = [key |-> queued[k].key, code |-> Payload(queued[k]),
                      deps |-> IF DepsSeen(k, N) THEN queued[k].deps ELSE <<>>]
    BY <1>1, <1>6, <1>7, <1>8, ShownEntry
  <2> QED
    BY <2>1 DEF AsQueued
<1> DEFINE S == {k \in 1 .. m : ~DepsSeen(k, N)}
<1>10. CASE S = {}
  <2>1. \A k \in DOMAIN queued : AsShown(k) = Full(k)
    BY <1>1, <1>9, <1>10
  <2>2. ShownNow = Whole
    BY <1>5, <2>1 DEF ShownNow, Whole
  <2> QED
    BY <2>2
<1>11. CASE S # {}
  <2>1. S \in SUBSET (1 .. m)
    OBVIOUS
  <2> HIDE DEF m
  <2>2. PICK n : IsFirst(n, S)
    BY <1>1, <1>11, <2>1, FirstExists
  <2>3. n \in 1 .. m /\ ~DepsSeen(n, N) /\ \A k \in S : n <= k
    BY <2>2 DEF IsFirst
  <2>4. \A k \in 1 .. m : DepsSeen(k, N) <=> k < n
    <3> TAKE k \in 1 .. m
    <3>1. CASE k < n
      BY <2>3, <3>1
    <3>2. CASE k = n
      BY <2>3, <3>2
    <3>3. CASE k > n
      <4> DEFINE a == WordsAt(recs, file.hdr, n) + Len(queued[n].deps) * WordSize
                 b == WordsAt(recs, file.hdr, k)
                 c == Len(queued[k].deps) * WordSize
      <4>1. n \in 1 .. k - 1
        BY <2>3, <3>3
      <4>2. a <= b
        BY <1>6, <4>1 DEF WordsAfter
      <4>3. a \in Nat /\ b \in Nat /\ c \in Nat
        <5>1. Len(queued[n].deps) \in Nat /\ Len(queued[k].deps) \in Nat
          BY <1>1, <2>3
        <5>2. WordsAt(recs, file.hdr, n) \in Nat /\ b \in Nat
          BY <1>6, <2>3
        <5> HIDE DEF b
        <5> QED
          BY SMTT(60), <5>1, <5>2 DEF WordSize
      <4>4. ~(a <= N)
        BY <2>3 DEF DepsSeen
      <4> HIDE DEF a, b, c
      <4>5. ~(b + c <= N)
        BY <4>2, <4>3, <4>4
      <4>6. ~DepsSeen(k, N)
        BY <4>5 DEF DepsSeen, b, c
      <4> QED
        BY <2>3, <3>3, <4>6
    <3> QED
      BY <2>3, <3>1, <3>2, <3>3
  <2>5. \A k \in 1 .. m : AsShown(k) = IF k < n THEN Full(k) ELSE Bare(k)
    BY <1>9, <2>4
  <2> HIDE DEF S
  <2>6. /\ Whole.deps = deps /\ DOMAIN Whole.entries = 1 .. m
        /\ \A k \in 1 .. m : Whole.entries[k] = Full(k)
    BY <1>1 DEF Whole
  <2>7. Views!CutPool(Whole, n) =
          [entries |-> [k \in 1 .. m |-> IF k < n THEN Full(k) ELSE Bare(k)], deps |-> deps]
    <3>1. Views!CutPool(Whole, n) = [Whole EXCEPT !.entries = [k \in DOMAIN Whole.entries |->
             IF k < n THEN Whole.entries[k] ELSE [Whole.entries[k] EXCEPT !.deps = <<>>]]]
      BY DEF Views!CutPool
    <3>2. [k \in DOMAIN Whole.entries |->
             IF k < n THEN Whole.entries[k] ELSE [Whole.entries[k] EXCEPT !.deps = <<>>]]
          = [k \in 1 .. m |-> IF k < n THEN Full(k) ELSE Bare(k)]
      BY <2>6
    <3>3. \A f : [Whole EXCEPT !.entries = f] = [entries |-> f, deps |-> deps]
      BY ZenonT(60), WithEntries DEF Whole
    <3> QED
      BY <3>1, <3>2, <3>3
  <2>8. ShownNow = [entries |-> [k \in 1 .. m |-> IF k < n THEN Full(k) ELSE Bare(k)],
                    deps |-> deps]
    <3>1. [k \in DOMAIN queued |-> AsShown(k)] = [k \in 1 .. m |-> IF k < n THEN Full(k) ELSE Bare(k)]
      BY <1>1, <2>5
    <3> QED
      BY <1>5, <3>1 DEF ShownNow
  <2>9. Views!CutPool(Whole, n) \in Views!Cuts(Whole)
    BY <2>3, <2>6 DEF Views!Cuts
  <2> QED
    BY <2>7, <2>8, <2>9
<1> QED
  BY <1>10, <1>11

\* The parts of a payload.
LEMMA PartsThere ==
    ASSUME NEW c, NEW r
    PROVE  /\ \A x : <<"code", x>> \in PartsOf(<<c, r>>) <=> x = c /\ c # Empty
           /\ \A x : <<"refl", x>> \in PartsOf(<<c, r>>) <=> x = r /\ r # Empty
           /\ \A T : PartsOf(<<c, r>>) \subseteq T <=>
                       /\ c # Empty => <<"code", c>> \in T
                       /\ r # Empty => <<"refl", r>> \in T
<1>1. <<c, r>>[1] = c /\ <<c, r>>[2] = r /\ "code" # "refl"
  OBVIOUS
<1>2. \A p : p \in PartsOf(<<c, r>>) <=> \/ p = <<"code", c>> /\ c # Empty
                                         \/ p = <<"refl", r>> /\ r # Empty
  BY <1>1 DEF PartsOf
<1>3. \A x, y : /\ <<"code", x>> = <<"code", y>> => x = y
                /\ <<"refl", x>> = <<"refl", y>> => x = y
                /\ <<"code", x>> # <<"refl", y>>
  OBVIOUS
<1>4. \A x : <<"code", x>> \in PartsOf(<<c, r>>) <=> x = c /\ c # Empty
  BY <1>2, <1>3
<1>5. \A x : <<"refl", x>> \in PartsOf(<<c, r>>) <=> x = r /\ r # Empty
  BY <1>2, <1>3
<1>6. \A T : PartsOf(<<c, r>>) \subseteq T <=> /\ c # Empty => <<"code", c>> \in T
                                               /\ r # Empty => <<"refl", r>> \in T
  <2> TAKE T
  <2>1. ASSUME PartsOf(<<c, r>>) \subseteq T
        PROVE  (c # Empty => <<"code", c>> \in T) /\ (r # Empty => <<"refl", r>> \in T)
    BY <1>2, <2>1
  <2>2. ASSUME c # Empty => <<"code", c>> \in T, r # Empty => <<"refl", r>> \in T
        PROVE  PartsOf(<<c, r>>) \subseteq T
    BY <1>2, <2>2
  <2> QED
    BY <2>1, <2>2
<1> QED
  BY <1>4, <1>5, <1>6

\* The file ends before the pool.
LEMMA CutBeforePool ==
    ASSUME CutContext, NEW N \in Nat, N = BlobSize(file, onDisk),
           ~(file.hdr.entryDepsIdxOffset <= N)
    PROVE  ShownNow \in Views!Cuts(Whole)
<1> DEFINE m == Len(queued)
           recs == file.records
           lost == <<Empty, Empty>>
<1>1. /\ DOMAIN queued = 1 .. m /\ m \in Nat /\ Len(deps) \in Nat
      /\ \A k \in 1 .. m : /\ Code[k] \in Strings /\ Refl[k] \in Strings
                           /\ queued[k].deps \in Seq(Nat)
                           /\ Payload(queued[k]) = <<Code[k], Refl[k]>>
  BY QueuedTypes DEF CutContext, Payload
<1>2. /\ file.hdr.depsOffset \in Nat /\ file.hdr.entryDepsIdxOffset \in Nat
      /\ \A k \in 1 .. m : recs[k].codeOffset \in Nat /\ recs[k].reflOffset \in Nat
  BY FileTypes DEF CutContext
<1>3. ASSUME NEW k \in 1 .. m
      PROVE  /\ recs[k].keyOffset \in Nat /\ KeyEnd(k) \in Nat /\ EndOf(recs, k) \in Nat
             /\ recs[k].keyOffset <= KeyEnd(k) /\ KeyEnd(k) <= EndOf(recs, k)
             /\ Owns(Code, k) => /\ KeyEnd(k) <= recs[k].codeOffset
                                 /\ recs[k].codeOffset + Size(Code[k]) <= EndOf(recs, k)
             /\ Owns(Refl, k) => /\ KeyEnd(k) <= recs[k].reflOffset
                                 /\ recs[k].reflOffset + Size(Refl[k]) <= EndOf(recs, k)
             /\ \A j \in 1 .. k - 1 : EndOf(recs, j) <= recs[k].keyOffset
             /\ WordsAt(recs, file.hdr, k) \in Nat
             /\ file.hdr.entryDepsIdxOffset <= WordsAt(recs, file.hdr, k)
  BY FilePlaces DEF CutContext
<1>4. Dependencies(file, onDisk) = <<>>
  <2> DEFINE end == file.hdr.depsOffset + Len(deps) * DepSize
  <2>1. end \in Nat /\ end % 4 = 0
    <3>1. file.hdr.depsOffset % 8 = 0
      BY DEF CutContext, AInv, HeaderAligned
    <3>2. end = file.hdr.depsOffset + Len(deps) * 16
      BY DEF DepSize
    <3>3. (file.hdr.depsOffset + Len(deps) * 16) % 4 = 0
      BY <1>1, <1>2, <3>1, RowsEndAligned
    <3> HIDE DEF end
    <3> QED
      BY SMTT(60), <1>1, <1>2, <3>2, <3>3
  <2>2. file.hdr.entryDepsIdxOffset = Align4(end)
    BY DEF CutContext, FileOrdered, FileOrder
  <2> HIDE DEF end
  <2>3. end > N
    BY <2>1, <2>2 DEF Align4
  <2>4. file.hdr.depsCount = Len(deps)
    BY DEF CutContext, FileRight
  <2> QED
    BY <2>3, <2>4 DEF Dependencies, end
<1>5. \A k \in 1 .. m : ~DepsSeen(k, N)
  <2> TAKE k \in 1 .. m
  <2>1. Len(queued[k].deps) \in Nat
    BY <1>1
  <2>2. WordsAt(recs, file.hdr, k) \in Nat
        /\ file.hdr.entryDepsIdxOffset <= WordsAt(recs, file.hdr, k)
    BY <1>3
  <2> QED
    BY SMTT(60), <1>2, <2>1, <2>2 DEF DepsSeen, WordSize
<1>6. PICK n \in 0 .. m : \A k \in 1 .. m : KeyEnd(k) <= N <=> k <= n
  <2> DEFINE key == [k \in 1 .. m |-> KeyEnd(k)]
  <2>1. \A k \in 1 .. m : key[k] = KeyEnd(k) /\ key[k] \in Nat
    BY <1>3
  <2>2. \A k \in 1 .. m : \A j \in 1 .. k - 1 : key[j] <= key[k]
    <3> TAKE k \in 1 .. m
    <3> TAKE j \in 1 .. k - 1
    <3>1. j \in 1 .. m
      BY <1>1
    <3>2. /\ KeyEnd(j) <= EndOf(recs, j) /\ EndOf(recs, j) <= recs[k].keyOffset
          /\ recs[k].keyOffset <= KeyEnd(k)
          /\ KeyEnd(j) \in Nat /\ EndOf(recs, j) \in Nat
          /\ recs[k].keyOffset \in Nat /\ KeyEnd(k) \in Nat
      BY <1>3, <3>1
    <3> QED
      BY SMTT(60), <2>1, <3>1, <3>2
  <2> HIDE DEF key, m
  <2>3. \E n \in 0 .. m : \A k \in 1 .. m : key[k] <= N <=> k <= n
    BY ZenonT(60), <1>1, <2>1, <2>2, LastKey
  <2> QED
    BY <2>1, <2>3
<1>7. \A k \in 1 .. n - 1 : EndOf(recs, k) <= N
  <2> TAKE k \in 1 .. n - 1
  <2>1. n \in 1 .. m /\ k \in 1 .. m
    BY <1>1, <1>6
  <2>2. /\ EndOf(recs, k) <= recs[n].keyOffset /\ recs[n].keyOffset <= KeyEnd(n)
        /\ EndOf(recs, k) \in Nat /\ recs[n].keyOffset \in Nat /\ KeyEnd(n) \in Nat
        /\ KeyEnd(n) <= N
    BY <1>3, <1>6, <2>1
  <2> QED
    BY <2>2
<1>8. ASSUME NEW k \in 1 .. m, Code[k] # Empty
      PROVE  CodeSeen(k, N) <=> \/ \E h \in 1 .. n - 1 : Code[h] = Code[k]
                                \/ n \in 1 .. m /\ Code[n] = Code[k] /\ CodeSeen(n, N)
  <2> DEFINE at == [j \in 1 .. m |-> recs[j].codeOffset]
             key == [j \in 1 .. m |-> KeyEnd(j)]
             end == [j \in 1 .. m |-> EndOf(recs, j)]
  <2>1. \A j \in 1 .. m : at[j] = recs[j].codeOffset /\ key[j] = KeyEnd(j) /\ end[j] = EndOf(recs, j)
    OBVIOUS
  <2>2. \A h, j \in 1 .. m : Code[h] = Code[j] /\ Code[j] # Empty => at[h] = at[j]
    BY <1>1, <2>1, SharedInFile
  <2> HIDE DEF at, key, end, m, recs
  <2>3. \A j \in 1 .. m : /\ Code[j] \in Strings /\ at[j] \in Nat
                          /\ key[j] \in Nat /\ end[j] \in Nat
    BY <1>1, <1>2, <1>3, <2>1
  <2>4. \A j \in 1 .. m : Owns(Code, j) => key[j] <= at[j] /\ at[j] + Size(Code[j]) <= end[j]
    BY <1>3, <2>1
  <2>5. \A j \in 1 .. m : key[j] <= N <=> j <= n
    BY <1>6, <2>1
  <2>6. \A j \in 1 .. n - 1 : end[j] <= N
    BY <1>1, <1>6, <1>7, <2>1
  <2>7. Reaches(at[k], Code[k], N) <=>
          \/ \E h \in 1 .. n - 1 : Code[h] = Code[k]
          \/ n \in 1 .. m /\ Code[n] = Code[k] /\ Reaches(at[n], Code[n], N)
    <3>1. m \in Nat /\ n \in 0 .. m /\ k \in 1 .. m /\ Code[k] # Empty
      BY <1>1, <1>6, <1>8
    <3>2. Leaves(N, n, m, Code, at, key, end)
      BY <2>2, <2>3, <2>4, <2>5, <2>6 DEF Leaves
    <3> QED
      BY <3>1, <3>2, InSight
  <2> QED
    BY <2>1, <2>7 DEF CodeSeen, recs
<1>9. ASSUME NEW k \in 1 .. m, Refl[k] # Empty
      PROVE  ReflSeen(k, N) <=> \/ \E h \in 1 .. n - 1 : Refl[h] = Refl[k]
                                \/ n \in 1 .. m /\ Refl[n] = Refl[k] /\ ReflSeen(n, N)
  <2> DEFINE at == [j \in 1 .. m |-> recs[j].reflOffset]
             key == [j \in 1 .. m |-> KeyEnd(j)]
             end == [j \in 1 .. m |-> EndOf(recs, j)]
  <2>1. \A j \in 1 .. m : at[j] = recs[j].reflOffset /\ key[j] = KeyEnd(j) /\ end[j] = EndOf(recs, j)
    OBVIOUS
  <2>2. \A h, j \in 1 .. m : Refl[h] = Refl[j] /\ Refl[j] # Empty => at[h] = at[j]
    BY <1>1, <2>1, SharedInFile
  <2> HIDE DEF at, key, end, m, recs
  <2>3. \A j \in 1 .. m : /\ Refl[j] \in Strings /\ at[j] \in Nat
                          /\ key[j] \in Nat /\ end[j] \in Nat
    BY <1>1, <1>2, <1>3, <2>1
  <2>4. \A j \in 1 .. m : Owns(Refl, j) => key[j] <= at[j] /\ at[j] + Size(Refl[j]) <= end[j]
    BY <1>3, <2>1
  <2>5. \A j \in 1 .. m : key[j] <= N <=> j <= n
    BY <1>6, <2>1
  <2>6. \A j \in 1 .. n - 1 : end[j] <= N
    BY <1>1, <1>6, <1>7, <2>1
  <2>7. Reaches(at[k], Refl[k], N) <=>
          \/ \E h \in 1 .. n - 1 : Refl[h] = Refl[k]
          \/ n \in 1 .. m /\ Refl[n] = Refl[k] /\ Reaches(at[n], Refl[n], N)
    <3>1. m \in Nat /\ n \in 0 .. m /\ k \in 1 .. m /\ Refl[k] # Empty
      BY <1>1, <1>6, <1>9
    <3>2. Leaves(N, n, m, Refl, at, key, end)
      BY <2>2, <2>3, <2>4, <2>5, <2>6 DEF Leaves
    <3> QED
      BY <3>1, <3>2, InSight
  <2> QED
    BY <2>1, <2>7 DEF ReflSeen, recs
<1> DEFINE parts == PartsOf(Payload(queued[n]))
           kept == IF n = 0 THEN {}
                   ELSE {p \in parts : \/ p = <<"code", Code[n]>> /\ CodeSeen(n, N)
                                       \/ p = <<"refl", Refl[n]>> /\ ReflSeen(n, N)}
           earlier == UNION {PartsOf(Whole.entries[h].code) : h \in 1 .. n - 1}
           there == kept \cup earlier
<1>10. /\ Whole.deps = deps /\ DOMAIN Whole.entries = 1 .. m
       /\ \A k \in 1 .. m : /\ Whole.entries[k].key = queued[k].key
                            /\ Whole.entries[k].code = <<Code[k], Refl[k]>>
  BY <1>1 DEF Whole, AsQueued
<1>11. \A x : <<"code", x>> \in there <=> /\ x # Empty
                                          /\ \/ \E h \in 1 .. n - 1 : Code[h] = x
                                             \/ n \in 1 .. m /\ Code[n] = x /\ CodeSeen(n, N)
  <2> TAKE x
  <2>1. <<"code", x>> \in earlier <=> x # Empty /\ \E h \in 1 .. n - 1 : Code[h] = x
    <3>1. \A h \in 1 .. n - 1 : h \in 1 .. m
      BY <1>1, <1>6
    <3>2. \A h \in 1 .. n - 1 : <<"code", x>> \in PartsOf(Whole.entries[h].code)
                                  <=> x = Code[h] /\ Code[h] # Empty
      BY ZenonT(60), <1>10, <3>1, PartsThere
    <3> QED
      BY <3>2
  <2>2. <<"code", x>> \in kept <=> x # Empty /\ n \in 1 .. m /\ Code[n] = x /\ CodeSeen(n, N)
    <3>1. CASE n = 0
      BY <1>1, <3>1
    <3>2. CASE n # 0
      <4>1. n \in 1 .. m
        BY <1>1, <1>6, <3>2
      <4>2. <<"code", x>> \in parts <=> x = Code[n] /\ Code[n] # Empty
        BY <1>1, <4>1, PartsThere
      <4>3. <<"code", x>> # <<"refl", Refl[n]>>
        OBVIOUS
      <4> HIDE DEF parts, m
      <4> QED
        BY <3>2, <4>1, <4>2, <4>3
    <3> QED
      BY <3>1, <3>2
  <2> HIDE DEF kept, earlier, m
  <2> QED
    BY <2>1, <2>2
<1>12. \A x : <<"refl", x>> \in there <=> /\ x # Empty
                                          /\ \/ \E h \in 1 .. n - 1 : Refl[h] = x
                                             \/ n \in 1 .. m /\ Refl[n] = x /\ ReflSeen(n, N)
  <2> TAKE x
  <2>1. <<"refl", x>> \in earlier <=> x # Empty /\ \E h \in 1 .. n - 1 : Refl[h] = x
    <3>1. \A h \in 1 .. n - 1 : h \in 1 .. m
      BY <1>1, <1>6
    <3>2. \A h \in 1 .. n - 1 : <<"refl", x>> \in PartsOf(Whole.entries[h].code)
                                  <=> x = Refl[h] /\ Refl[h] # Empty
      BY ZenonT(60), <1>10, <3>1, PartsThere
    <3> QED
      BY <3>2
  <2>2. <<"refl", x>> \in kept <=> x # Empty /\ n \in 1 .. m /\ Refl[n] = x /\ ReflSeen(n, N)
    <3>1. CASE n = 0
      BY <1>1, <3>1
    <3>2. CASE n # 0
      <4>1. n \in 1 .. m
        BY <1>1, <1>6, <3>2
      <4>2. <<"refl", x>> \in parts <=> x = Refl[n] /\ Refl[n] # Empty
        BY <1>1, <4>1, PartsThere
      <4>3. <<"refl", x>> # <<"code", Code[n]>>
        OBVIOUS
      <4> HIDE DEF parts, m
      <4> QED
        BY <3>2, <4>1, <4>2, <4>3
    <3> QED
      BY <3>1, <3>2
  <2> HIDE DEF kept, earlier, m
  <2> QED
    BY <2>1, <2>2
<1> HIDE DEF there
<1>13. \A k \in 1 .. m : PartsOf(<<Code[k], Refl[k]>>) \subseteq there
                           <=> CodeSeen(k, N) /\ ReflSeen(k, N)
  <2> TAKE k \in 1 .. m
  <2>1. (Code[k] # Empty => <<"code", Code[k]>> \in there) <=> CodeSeen(k, N)
    <3>1. CASE Code[k] = Empty
      BY <3>1 DEF CodeSeen, Reaches
    <3>2. CASE Code[k] # Empty
      BY <1>8, <1>11, <3>2
    <3> QED
      BY <3>1, <3>2
  <2>2. (Refl[k] # Empty => <<"refl", Refl[k]>> \in there) <=> ReflSeen(k, N)
    <3>1. CASE Refl[k] = Empty
      BY <3>1 DEF ReflSeen, Reaches
    <3>2. CASE Refl[k] # Empty
      BY <1>9, <1>12, <3>2
    <3> QED
      BY <3>1, <3>2
  <2>3. PartsOf(<<Code[k], Refl[k]>>) \subseteq there <=>
          /\ Code[k] # Empty => <<"code", Code[k]>> \in there
          /\ Refl[k] # Empty => <<"refl", Refl[k]>> \in there
    BY ZenonT(60), PartsThere
  <2> QED
    BY <2>1, <2>2, <2>3
<1> DEFINE left == [k \in 1 .. m |->
             [key  |-> IF k <= n THEN queued[k].key ELSE Empty,
              code |-> IF PartsOf(<<Code[k], Refl[k]>>) \subseteq there
                       THEN <<Code[k], Refl[k]>> ELSE lost,
              deps |-> <<>>]]
<1>14. ShownNow = [entries |-> left, deps |-> <<>>]
  <2>1. \A k \in 1 .. m : AsShown(k) =
             [key  |-> IF k <= n THEN queued[k].key ELSE Empty,
              code |-> IF PartsOf(<<Code[k], Refl[k]>>) \subseteq there
                       THEN <<Code[k], Refl[k]>> ELSE lost,
              deps |-> <<>>]
    <3> TAKE k \in 1 .. m
    <3>1. AsShown(k) =
             [key  |-> IF KeyEnd(k) <= N THEN queued[k].key ELSE Empty,
              code |-> IF CodeSeen(k, N) /\ ReflSeen(k, N) THEN Payload(queued[k])
                       ELSE <<Empty, Empty>>,
              deps |-> IF DepsSeen(k, N) THEN queued[k].deps ELSE <<>>]
      BY <1>1, ShownEntry
    <3>2. /\ KeyEnd(k) <= N <=> k <= n
          /\ CodeSeen(k, N) /\ ReflSeen(k, N) <=> PartsOf(<<Code[k], Refl[k]>>) \subseteq there
          /\ ~DepsSeen(k, N) /\ Payload(queued[k]) = <<Code[k], Refl[k]>>
      BY <1>1, <1>5, <1>6, <1>13
    <3> HIDE DEF m
    <3> QED
      BY <3>1, <3>2
  <2>2. [k \in DOMAIN queued |-> AsShown(k)] = left
    BY <1>1, <2>1
  <2> QED
    BY <1>4, <2>2 DEF ShownNow
<1>15. Views!CutPayload(Whole, n, kept) = [entries |-> left, deps |-> <<>>]
  <2> DEFINE cut == [k \in DOMAIN Whole.entries |->
               [key  |-> IF k <= n THEN Whole.entries[k].key ELSE Empty,
                code |-> IF PartsOf(Whole.entries[k].code) \subseteq there
                         THEN Whole.entries[k].code ELSE lost,
                deps |-> <<>>]]
  <2>1. cut = left
    BY <1>10
  <2>2. Views!CutPayload(Whole, n, kept) = [Whole EXCEPT !.entries = cut, !.deps = <<>>]
    BY DEF Views!CutPayload, there
  <2> HIDE DEF cut, left
  <2>3. [Whole EXCEPT !.entries = cut, !.deps = <<>>] = [entries |-> cut, deps |-> <<>>]
    BY WithBoth DEF Whole
  <2> QED
    BY <2>1, <2>2, <2>3
<1>16. Views!CutPayload(Whole, n, kept) \in Views!Cuts(Whole)
  <2>1. CASE n = 0
    BY <2>1 DEF Views!Cuts
  <2>2. CASE n # 0
    <3>1. n \in DOMAIN Whole.entries
      BY <1>1, <1>6, <1>10, <2>2
    <3>2. kept \in SUBSET PartsOf(Whole.entries[n].code)
      <4>1. Whole.entries[n].code = Payload(queued[n])
        BY <1>1, <1>10, <3>1
      <4> QED
        BY <2>2, <4>1
    <3> HIDE DEF kept
    <3> QED
      BY <3>1, <3>2 DEF Views!Cuts
  <2> QED
    BY <2>1, <2>2
<1> HIDE DEF left, kept
<1> QED
  BY <1>14, <1>15, <1>16

\* Wherever the file ends, the reader refuses it, or shows all that was
\* queued, or one of the cuts of BlobViews, for any entries, dependencies and
\* sizes and any place of the end (BlobReader::rebind, at and dependencies,
\* slangmake_blob.cpp:332-473).
THEOREM CutsOnlyLose == Spec => []CutsAreViews
<1> DEFINE Inv == TInv /\ RInv /\ AInv /\ SInv /\ OInv
<1>1. Init => Inv
  <2> SUFFICES ASSUME Init PROVE Inv
    OBVIOUS
  <2>1. TInv
    BY TypeInit
  <2>2. /\ Stage = 0 /\ ~Finalized /\ records = <<>> /\ slots = <<>> /\ i = 1 /\ onDisk = 0
    BY Stages DEF Init, Stage, Finalized
  <2>3. RInv
    BY <2>1, <2>2 DEF RInv, TInv, LayoutRight, EmitRight, Emitted, FileRight
  <2> QED
    BY <2>1, <2>2, <2>3 DEF AInv, RecordsAligned, SInv, Shared, OInv, EmitOrdered, FileOrdered
<1>2. Inv /\ [Next]_vars => Inv'
  <2> SUFFICES ASSUME Inv, [Next]_vars PROVE Inv'
    OBVIOUS
  <2>1. LaidOut /\ LayoutRight /\ EmitRight /\ Emitted /\ FileRight /\ EmitOrdered /\ FileOrdered
    BY DEF RInv, OInv
  <2>2. TInv'
    BY TypeStep
  <2>3. LayoutRight' /\ EmitRight' /\ Emitted' /\ FileRight'
    BY <2>1, <2>2, LayoutRightStep, EmitRightStep, EmittedStep, FileRightStep
  <2>4. AInv' /\ SInv'
    BY <2>2, AlignedStep, SharedStep
  <2>5. EmitOrdered' /\ FileOrdered'
    BY <2>1, <2>2, <2>3, EmitOrderedStep, FileOrderedStep
  <2> QED
    BY <2>2, <2>3, <2>4, <2>5 DEF RInv, OInv, TInv
<1>3. Inv => CutsAreViews
  <2> SUFFICES ASSUME Inv, Finalized, file.size < Wrap, NoCollision, Valid(file, onDisk)
               PROVE  ShownNow \in {Whole} \cup Views!Cuts(Whole)
    BY DEF CutsAreViews, ShownNow, Whole
  <2>1. CutContext
    BY DEF CutContext, TInv, RInv, OInv
  <2>2. BlobSize(file, onDisk) \in Nat
    BY <2>1, FileTypes DEF BlobSize, CutContext, TypeOK
  <2> QED
    BY <2>1, <2>2, CutInPool, CutBeforePool
<1> QED
  BY <1>1, <1>2, <1>3, PTL DEF Spec
=============================================================================
