----------------------------- MODULE BlobFormat -----------------------------
(***************************************************************************)
(* The blob file (src/src/slangmake_blob.cpp:87-473): BlobWriter queues    *)
(* entries, finalize first computes every offset and then appends the      *)
(* bytes in a second pass of its own, writeToFile puts them on disk, and   *)
(* BlobReader finds its way by the offsets alone, in a file that may end   *)
(* anywhere.                                                               *)
(*                                                                         *)
(* Byte strings are abstract values with a size.  `out' holds them as      *)
(* chunks, at the offset where the append happens.  Entries, dependencies  *)
(* and dependency indices are numbered from 1.                             *)
(***************************************************************************)
EXTENDS Integers, Sequences

CONSTANTS
    Strings,     \* byte strings: keys, code, reflection, paths
    Empty,       \* the one of no bytes
    Garbage,     \* any other bytes of a file, read as a string
    Size(_),     \* number of bytes
    Digest(_),   \* FNV-1a
    Hashes,      \* option and content hashes
    Queueable,   \* what addEntry is called with
    DepLists,    \* what setDependencies is called with
    MaxEntries,  \* bound on the number of entries
    Wrap,        \* offsets and sizes are stored modulo this: 2^32
    PackedSize   \* bytes of a compressed payload

Entries == [key : Strings, code : Strings, refl : Strings, deps : Seq(Nat)]
Deps    == [path : Strings, hash : Hashes]
Codecs  == {"none", "lz4", "zstd"}

ASSUME BlobAssumption ==
    /\ Empty \in Strings /\ Garbage \notin Strings
    /\ \A s \in Strings : Size(s) \in Nat /\ (Size(s) = 0 <=> s = Empty)
    /\ 0 \in Hashes
    /\ Queueable \subseteq Entries
    /\ DepLists \subseteq Seq(Deps)
    /\ MaxEntries \in Nat /\ PackedSize \in Nat \ {0}
    /\ Wrap \in Nat \ {0} /\ Wrap % 8 = 0

HeaderSize == 56
RecordSize == 32
DepSize    == 16
WordSize   == 4

VARIABLES
    queued,      \* m_entries
    deps,        \* m_deps
    optionsHash, \* m_optionsHash
    codec,       \* m_compression
    pc,          \* where finalize or writeToFile is
    i,           \* index of the running loop
    cursor,      \* the layout pass
    records,     \* EntryRecords
    slots,       \* depPathSlots
    running,     \* runningEntryDepsCount
    hdr,         \* the counts and offsets in the BlobHeader
    out,         \* the bytes appended so far
    file,        \* the bytes handed to ofstream::write
    onDisk       \* how many of them the file has

writer == <<queued, deps, optionsHash, codec>>
layout == <<cursor, records, slots, running, hdr>>
vars   == <<writer, pc, i, layout, out, file, onDisk>>

NoHeader == [entryCount |-> 0, depsCount |-> 0, depsStringsOffset |-> 0,
             depsOffset |-> 0, entryDepsIdxOffset |-> 0]
NoBytes  == [size |-> 0, strings |-> {}, rows |-> {}, words |-> {}]
NoFile   == [length |-> 0]

Init ==
    /\ queued = <<>> /\ deps = <<>> /\ optionsHash = 0 /\ codec = "none"
    /\ pc = "queue" /\ i = 1
    /\ cursor = 0 /\ records = <<>> /\ slots = <<>> /\ running = 0
    /\ hdr = NoHeader /\ out = NoBytes /\ file = NoFile /\ onDisk = 0

\* Mutant: an offset is stored in full.
U32Unbounded(x) == x

\* static_cast<uint32_t>
U32(x) == IF x < Wrap THEN x ELSE x % Wrap

\* align4, align8.
Align4(x) == 4 * ((x + 3) \div 4)

\* Mutant: payloads are aligned to words.
Align8Short(x) == Align4(x)

Align8(x) == 8 * ((x + 7) \div 8)

-----------------------------------------------------------------------------
(* BlobWriter's setters.                                                   *)

AddEntry(e) ==
    /\ pc = "queue" /\ Len(queued) < MaxEntries
    /\ queued' = Append(queued, e)
    /\ UNCHANGED <<deps, optionsHash, codec, pc, i, layout, out, file, onDisk>>

SetDependencies(ds) ==
    /\ pc = "queue"
    /\ deps' = ds
    /\ UNCHANGED <<queued, optionsHash, codec, pc, i, layout, out, file, onDisk>>

SetOptionsHash(h) ==
    /\ pc = "queue"
    /\ optionsHash' = h
    /\ UNCHANGED <<queued, deps, codec, pc, i, layout, out, file, onDisk>>

SetCompression(c) ==
    /\ pc = "queue"
    /\ codec' = c
    /\ UNCHANGED <<queued, deps, optionsHash, pc, i, layout, out, file, onDisk>>

-----------------------------------------------------------------------------
(* finalize: payload sharing and the layout pass.                          *)

Code == [k \in DOMAIN queued |-> queued[k].code]
Refl == [k \in DOMAIN queued |-> queued[k].refl]

\* The earlier entries with the hash of s[k].
Bucket(s, k) == {h \in 1 .. k - 1 : s[h] # Empty /\ Digest(s[h]) = Digest(s[k])}

\* The entry a hash bucket remembers.
IsFirst(h, S) == h \in S /\ \A g \in S : h <= g

\* Mutant: equal hashes are taken for equal bytes.
SharesByDigest(s, k, h) == s[k] # Empty /\ IsFirst(h, Bucket(s, k))

\* Mutant: only neighbours share.
SharesWithNeighbour(s, k, h) == s[k] # Empty /\ h = k - 1 /\ h > 0 /\ s[h] = s[k]

\* Entry k uses the payload of h, the first one with that hash, if it has the
\* same bytes.
Shares(s, k, h) == s[k] # Empty /\ IsFirst(h, Bucket(s, k)) /\ s[h] = s[k]

\* Whether entry k stores a payload of its own.
Owns(s, k) == \A h \in 1 .. k - 1 : ~Shares(s, k, h)

\* codeCanonical, reflCanonical.
Canonical(s, k) == IF Owns(s, k) THEN k ELSE CHOOSE h \in 1 .. k - 1 : Shares(s, k, h)

DataStart == Align8(HeaderSize + Len(queued) * RecordSize)

Finalize ==
    /\ pc = "queue"
    /\ pc' = "layout" /\ i' = 1 /\ cursor' = DataStart
    /\ hdr' = [hdr EXCEPT !.entryCount = U32(Len(queued))]
    /\ UNCHANGED <<writer, records, slots, running, out, file, onDisk>>

LayoutEntry ==
    /\ pc = "layout" /\ i \in DOMAIN queued
    /\ LET afterKey  == cursor + Size(queued[i].key) + 1
           codeAt    == Align8(afterKey)
           afterCode == IF Owns(Code, i) THEN codeAt + Size(Code[i]) ELSE afterKey
           reflAt    == Align8(afterCode)
           c         == Canonical(Code, i)
           r         == Canonical(Refl, i)
       IN  /\ records' = Append(records,
                [keyOffset    |-> U32(cursor),
                 keySize      |-> U32(Size(queued[i].key) + 1),
                 codeOffset   |-> IF Owns(Code, i) THEN U32(codeAt) ELSE records[c].codeOffset,
                 codeSize     |-> IF Owns(Code, i) THEN U32(Size(Code[i])) ELSE records[c].codeSize,
                 reflOffset   |-> IF Owns(Refl, i) THEN U32(reflAt) ELSE records[r].reflOffset,
                 reflSize     |-> IF Owns(Refl, i) THEN U32(Size(Refl[i])) ELSE records[r].reflSize,
                 depsIdxOff   |-> 0,
                 depsIdxCount |-> 0])
           /\ cursor' = IF Owns(Refl, i) THEN reflAt + Size(Refl[i]) ELSE afterCode
    /\ i' = i + 1
    /\ UNCHANGED <<writer, pc, slots, running, hdr, out, file, onDisk>>

LayoutEntriesDone ==
    /\ pc = "layout" /\ i \notin DOMAIN queued
    /\ pc' = "layoutPaths" /\ i' = 1 /\ cursor' = Align8(cursor)
    /\ hdr' = [hdr EXCEPT !.depsStringsOffset = U32(cursor')]
    /\ UNCHANGED <<writer, records, slots, running, out, file, onDisk>>

LayoutPath ==
    /\ pc = "layoutPaths" /\ i \in DOMAIN deps
    /\ slots' = Append(slots, [off |-> U32(cursor), len |-> U32(Size(deps[i].path))])
    /\ cursor' = cursor + Size(deps[i].path)
    /\ i' = i + 1
    /\ UNCHANGED <<writer, pc, records, running, hdr, out, file, onDisk>>

LayoutPathsDone ==
    /\ pc = "layoutPaths" /\ i \notin DOMAIN deps
    /\ cursor' = Align4(Align8(cursor) + Len(deps) * DepSize)
    /\ hdr' = [hdr EXCEPT !.depsOffset = U32(Align8(cursor)),
                          !.depsCount = U32(Len(deps)),
                          !.entryDepsIdxOffset = U32(cursor')]
    /\ pc' = "layoutPool" /\ i' = 1
    /\ UNCHANGED <<writer, records, slots, running, out, file, onDisk>>

LayoutIndices ==
    /\ pc = "layoutPool" /\ i \in DOMAIN queued
    /\ records' = [records EXCEPT ![i] =
                    [@ EXCEPT !.depsIdxOff = running,
                              !.depsIdxCount = U32(Len(queued[i].deps))]]
    /\ running' = U32(running + U32(Len(queued[i].deps)))
    /\ i' = i + 1
    /\ UNCHANGED <<writer, pc, cursor, slots, hdr, out, file, onDisk>>

\* The header and the records are appended.
LayoutDone ==
    /\ pc = "layoutPool" /\ i \notin DOMAIN queued
    /\ cursor' = cursor + running * WordSize
    /\ out' = [NoBytes EXCEPT !.size = DataStart]
    /\ pc' = "emit" /\ i' = 1
    /\ UNCHANGED <<writer, records, slots, running, hdr, file, onDisk>>

-----------------------------------------------------------------------------
(* finalize: the second pass appends, without a look at the layout.        *)

Chunk(off, len, str) == [off |-> off, len |-> len, str |-> str]

\* The key with its NUL, then the payloads the entry owns, each padded to 8.
EmitEntry ==
    /\ pc = "emit" /\ i \in DOMAIN queued
    /\ LET afterKey  == out.size + Size(queued[i].key) + 1
           codeAt    == Align8(afterKey)
           afterCode == IF Owns(Code, i) THEN codeAt + Size(Code[i]) ELSE afterKey
           reflAt    == Align8(afterCode)
           key       == {Chunk(out.size, Size(queued[i].key) + 1, queued[i].key)}
           code      == IF Owns(Code, i) THEN {Chunk(codeAt, Size(Code[i]), Code[i])} ELSE {}
           refl      == IF Owns(Refl, i) THEN {Chunk(reflAt, Size(Refl[i]), Refl[i])} ELSE {}
       IN  out' = [out EXCEPT
                     !.strings = @ \cup key \cup code \cup refl,
                     !.size = IF Owns(Refl, i) THEN reflAt + Size(Refl[i]) ELSE afterCode]
    /\ i' = i + 1
    /\ UNCHANGED <<writer, pc, layout, file, onDisk>>

EmitEntriesDone ==
    /\ pc = "emit" /\ i \notin DOMAIN queued
    /\ out' = [out EXCEPT !.size = Align8(@)]
    /\ pc' = "emitPaths" /\ i' = 1
    /\ UNCHANGED <<writer, layout, file, onDisk>>

EmitPath ==
    /\ pc = "emitPaths" /\ i \in DOMAIN deps
    /\ LET path == deps[i].path
       IN  out' = [out EXCEPT !.strings = @ \cup {Chunk(out.size, Size(path), path)},
                              !.size = @ + Size(path)]
    /\ i' = i + 1
    /\ UNCHANGED <<writer, pc, layout, file, onDisk>>

EmitPathsDone ==
    /\ pc = "emitPaths" /\ i \notin DOMAIN deps
    /\ out' = [out EXCEPT !.size = Align8(@)]
    /\ pc' = "emitRows" /\ i' = 1
    /\ UNCHANGED <<writer, layout, file, onDisk>>

EmitRow ==
    /\ pc = "emitRows" /\ i \in DOMAIN deps
    /\ out' = [out EXCEPT
                 !.rows = @ \cup {[off |-> out.size, path |-> slots[i], hash |-> deps[i].hash]},
                 !.size = @ + DepSize]
    /\ i' = i + 1
    /\ UNCHANGED <<writer, pc, layout, file, onDisk>>

EmitRowsDone ==
    /\ pc = "emitRows" /\ i \notin DOMAIN deps
    /\ out' = [out EXCEPT !.size = Align4(@)]
    /\ pc' = "emitPool" /\ i' = 1
    /\ UNCHANGED <<writer, layout, file, onDisk>>

EmitIndices ==
    /\ pc = "emitPool" /\ i \in DOMAIN queued
    /\ LET idx == queued[i].deps
       IN  out' = [out EXCEPT
                     !.words = @ \cup {[off |-> out.size + (j - 1) * WordSize, idx |-> idx[j]] :
                                           j \in DOMAIN idx},
                     !.size = @ + Len(idx) * WordSize]
    /\ i' = i + 1
    /\ UNCHANGED <<writer, pc, layout, file, onDisk>>

\* The bytes are padded up to cursor, and compressed behind the header.  A
\* payload of no bytes stays one.  finalize returns.
Return ==
    /\ pc = "emitPool" /\ i \notin DOMAIN queued
    /\ LET size   == IF out.size < cursor THEN cursor ELSE out.size
           packed == IF size = HeaderSize THEN 0 ELSE PackedSize
       IN  file' = [length      |-> IF codec = "none" THEN size ELSE HeaderSize + packed,
                    codec       |-> codec,
                    size        |-> size,
                    payloadSize |-> U32(size - HeaderSize),
                    optionsHash |-> optionsHash,
                    hdr         |-> hdr,
                    records     |-> records,
                    out         |-> out]
    /\ pc' = "write" /\ i' = 1
    /\ cursor' = 0 /\ records' = <<>> /\ slots' = <<>> /\ running' = 0
    /\ hdr' = NoHeader /\ out' = NoBytes
    /\ UNCHANGED <<writer, onDisk>>

-----------------------------------------------------------------------------
(* writeToFile.                                                            *)

\* The ends of the pieces of an uncompressed file: a reader compares the end
\* of the file with these only.
Ends(f) ==
    {0, HeaderSize - 1, HeaderSize, HeaderSize + f.hdr.entryCount * RecordSize,
     f.hdr.depsOffset, f.hdr.depsOffset + f.hdr.depsCount * DepSize,
     f.hdr.entryDepsIdxOffset, f.length}
    \cup {c.off + c.len : c \in f.out.strings}
    \cup {w.off + WordSize : w \in f.out.words}

\* Bound: the file grows from one of these places, or the byte before it, to
\* the next.
CutPoints(f) ==
    LET ends == Ends(f)
    IN  {n \in 0 .. f.length : n \in ends \/ n + 1 \in ends}

\* More bytes reach the disk.
Grow(n) ==
    /\ pc = "write"
    /\ n > onDisk /\ n <= file.length
    /\ onDisk' = n
    /\ UNCHANGED <<writer, pc, i, layout, out, file>>

\* The stream is closed, and its state not looked at.
Close ==
    /\ pc = "write"
    /\ pc' = "written"
    /\ UNCHANGED <<writer, i, layout, out, file, onDisk>>

\* The writer goes out of scope; the next one starts from nothing.
Destroy ==
    /\ pc = "written"
    /\ queued' = <<>> /\ deps' = <<>> /\ optionsHash' = 0 /\ codec' = "none"
    /\ pc' = "queue" /\ file' = NoFile /\ onDisk' = 0
    /\ UNCHANGED <<i, layout, out>>

Next ==
    \/ \E e \in Queueable : AddEntry(e)
    \/ \E ds \in DepLists : SetDependencies(ds)
    \/ \E h \in Hashes : SetOptionsHash(h)
    \/ \E c \in Codecs : SetCompression(c)
    \/ Finalize
    \/ LayoutEntry \/ LayoutEntriesDone \/ LayoutPath \/ LayoutPathsDone
    \/ LayoutIndices \/ LayoutDone
    \/ EmitEntry \/ EmitEntriesDone \/ EmitPath \/ EmitPathsDone
    \/ EmitRow \/ EmitRowsDone \/ EmitIndices \/ Return
    \/ (pc = "write" /\ \E n \in CutPoints(file) : Grow(n))
    \/ Close \/ Destroy

Spec == Init /\ [][Next]_vars

-----------------------------------------------------------------------------
(* BlobReader, on the first n bytes of f.                                  *)

\* Decompression succeeds on the whole payload only; LZ4_decompress_safe
\* refuses an input of no bytes.
Unpacks(f, n) ==
    \/ f.codec = "none"
    \/ /\ n = f.length
       /\ f.payloadSize = f.size - HeaderSize
       /\ f.codec = "lz4" => f.length > HeaderSize

\* m_blob.size() after rebind.
BlobSize(f, n) == IF f.codec = "none" THEN n ELSE f.size

\* rebind: valid().
Valid(f, n) ==
    /\ n >= HeaderSize
    /\ Unpacks(f, n)
    /\ BlobSize(f, n) >= HeaderSize + f.hdr.entryCount * RecordSize

\* What the len > 0 bytes at off hold: memory behind the end is anything.
StringAt(f, n, off, len) ==
    IF /\ off + len <= BlobSize(f, n)
       /\ \E c \in f.out.strings : c.off = off /\ c.len = len
    THEN (CHOOSE c \in f.out.strings : c.off = off /\ c.len = len).str
    ELSE Garbage

\* Mutant: only the start of a span is checked.
StartInBounds(f, n, off, len) == off <= BlobSize(f, n)

\* The lambda in at().
InBounds(f, n, off, len) == off + len <= BlobSize(f, n)

Span(f, n, off, len) ==
    IF len > 0 /\ InBounds(f, n, off, len) THEN StringAt(f, n, off, len) ELSE Empty

WordAt(f, off) == (CHOOSE w \in f.out.words : w.off = off).idx
RowAt(f, off)  == CHOOSE r \in f.out.rows : r.off = off

\* at(k).depIndices
IndicesAt(f, n, k) ==
    LET off   == f.hdr.entryDepsIdxOffset + f.records[k].depsIdxOff * WordSize
        count == f.records[k].depsIdxCount
    IN  IF off + count * WordSize <= BlobSize(f, n)
        THEN [j \in 1 .. count |-> WordAt(f, off + (j - 1) * WordSize)]
        ELSE <<>>

\* at(k)
At(f, n, k) ==
    LET r == f.records[k]
    IN  [key  |-> Span(f, n, r.keyOffset, r.keySize),
         code |-> Span(f, n, r.codeOffset, r.codeSize),
         refl |-> Span(f, n, r.reflOffset, r.reflSize),
         deps |-> IndicesAt(f, n, k)]

\* dependencies()
Dependencies(f, n) ==
    IF f.hdr.depsOffset + f.hdr.depsCount * DepSize > BlobSize(f, n)
    THEN <<>>
    ELSE [d \in 1 .. f.hdr.depsCount |->
            LET row == RowAt(f, f.hdr.depsOffset + (d - 1) * DepSize)
            IN  [path |-> Span(f, n, row.path.off, row.path.len), hash |-> row.hash]]

-----------------------------------------------------------------------------
(* Properties.                                                             *)

Offsets == 0 .. Wrap - 1
Records == [keyOffset : Offsets, keySize : Offsets, codeOffset : Offsets,
            codeSize : Offsets, reflOffset : Offsets, reflSize : Offsets,
            depsIdxOff : Offsets, depsIdxCount : Offsets]
Slots   == [off : Offsets, len : Offsets]
Headers == [entryCount : Offsets, depsCount : Offsets, depsStringsOffset : Offsets,
            depsOffset : Offsets, entryDepsIdxOffset : Offsets]
Chunks  == [off : Nat, len : Nat, str : Strings]
Bytes   == [size : Nat, strings : SUBSET Chunks,
            rows : SUBSET [off : Nat, path : Slots, hash : Hashes],
            words : SUBSET [off : Nat, idx : Nat]]
Files   == [length : Nat, codec : Codecs, size : Nat, payloadSize : Offsets,
            optionsHash : Hashes, hdr : Headers,
            records : Seq(Records), out : Bytes]

\* The types of the variables.  Stored offsets fit into 32 bits, whatever
\* the size of the blob (slangmake_blob.cpp:161-189).
TypeOK ==
    /\ queued \in Seq(Queueable) /\ deps \in DepLists \cup {<<>>}
    /\ optionsHash \in Hashes /\ codec \in Codecs
    /\ pc \in {"queue", "layout", "layoutPaths", "layoutPool", "emit", "emitPaths",
               "emitRows", "emitPool", "write", "written"}
    /\ i \in Nat \ {0} /\ cursor \in Nat /\ running \in Offsets
    /\ records \in Seq(Records) /\ slots \in Seq(Slots) /\ hdr \in Headers
    /\ out \in Bytes
    /\ file \in Files \cup {NoFile}
    /\ onDisk \in Nat

Finalized == pc \in {"write", "written"}

\* Once all bytes are on disk the reader returns every entry and dependency
\* that was queued, in that order, with its own key, code, reflection and
\* indices, whatever payloads share bytes or hashes (BlobWriter::finalize and
\* BlobReader::at, slangmake_blob.cpp:98-473).  Two exceptions: offsets wrap
\* from 4 GiB on, and LZ4 does not decompress a payload of no bytes.
RoundTrip ==
    Finalized /\ onDisk = file.length /\ file.size < Wrap
    /\ (codec = "lz4" => file.size > HeaderSize) =>
        /\ Valid(file, onDisk)
        /\ [k \in 1 .. file.hdr.entryCount |-> At(file, onDisk, k)] = queued
        /\ Dependencies(file, onDisk) = deps
        /\ file.optionsHash = optionsHash

\* No two queued payloads collide.
NoCollision ==
    \A s \in {Code, Refl} : \A j, k \in DOMAIN queued :
        Digest(s[j]) = Digest(s[k]) => s[j] = s[k]

\* The payload of an entry, and the parts of it that can be shared.
Payload(e)  == <<e.code, e.refl>>
PartsOf(p)  == {<<"code", c>> : c \in {p[1]} \ {Empty}} \cup {<<"refl", r>> : r \in {p[2]} \ {Empty}}
Views == INSTANCE BlobViews WITH
    EmptyKey <- Empty, EmptyCode <- <<Empty, Empty>>, Parts <- PartsOf

\* An entry as it was queued, and as the reader shows it: one that lost its
\* code or its reflection counts as having lost both.
AsQueued(e) == [key |-> e.key, code |-> Payload(e), deps |-> e.deps]
AsShown(k) ==
    LET e    == At(file, onDisk, k)
        lost == \/ queued[k].code # Empty /\ e.code = Empty
                \/ queued[k].refl # Empty /\ e.refl = Empty
    IN  [key |-> e.key, code |-> IF lost THEN <<Empty, Empty>> ELSE Payload(e),
         deps |-> e.deps]

\* Wherever the file ends, the reader refuses it, or shows all that was
\* queued, or shows it with everything behind some point lost in one of the
\* ways of BlobViews: no byte of one section is ever taken for another
\* (rebind, at and dependencies, slangmake_blob.cpp:332-473).
CutsAreViews ==
    Finalized /\ file.size < Wrap /\ NoCollision /\ Valid(file, onDisk) =>
        LET whole == [entries |-> [k \in DOMAIN queued |-> AsQueued(queued[k])],
                      deps |-> deps]
            shown == [entries |-> [k \in DOMAIN queued |-> AsShown(k)],
                      deps |-> Dependencies(file, onDisk)]
        IN  shown \in {whole} \cup Views!Cuts(whole)

\* What the readers cast to structs or arrays is aligned in the file: the
\* payloads and the dependency table to 8, the index pool to 4.
Aligned ==
    Finalized =>
        /\ \A k \in DOMAIN file.records :
              file.records[k].codeOffset % 8 = 0 /\ file.records[k].reflOffset % 8 = 0
        /\ file.hdr.depsOffset % 8 = 0
        /\ file.hdr.entryDepsIdxOffset % 4 = 0

\* Entries with the same code, or the same reflection, share one payload in
\* the file (the comments at slangmake_blob.cpp:114-116 and 133-138).
PayloadsShared ==
    Finalized /\ NoCollision => \A j, k \in DOMAIN queued :
        LET a == file.records[j]
            b == file.records[k]
        IN  /\ Code[j] = Code[k] /\ Code[k] # Empty => a.codeOffset = b.codeOffset
            /\ Refl[j] = Refl[k] /\ Refl[k] # Empty => a.reflOffset = b.reflOffset
=============================================================================
