------------------------------ MODULE BlobViews ------------------------------
(***************************************************************************)
(* What a BlobReader makes of a blob file that was cut short               *)
(* (src/src/slangmake_blob.cpp:332-473).  writeToFile writes the header,   *)
(* the records, each entry's key and payloads, the dependency table and    *)
(* the pool of dependency indices, in this order.  rebind accepts the file *)
(* once the records are there, and the accessors then show what lies       *)
(* behind the end as empty.  A compressed file that was cut is refused.    *)
(*                                                                         *)
(* A blob here is a record with the fields entries, a sequence of records  *)
(* [key, code, deps], and deps.                                            *)
(***************************************************************************)
EXTENDS Integers, Sequences

CONSTANTS
    EmptyKey,  \* the key ""
    EmptyCode, \* a payload of no bytes
    Parts(_)   \* the stored parts of a payload, each of which may be shared

\* BlobReader::at when the file ends behind the key of entry n, with the
\* parts in kept of that entry's payload: the entries before n are whole,
\* the later ones have no key, and their payload survives if all its parts
\* are shared with earlier ones.  Neither dependency section is there.
CutPayload(b, n, kept) ==
    LET there == kept \cup (UNION {Parts(b.entries[h].code) : h \in 1 .. n - 1})
    IN  [b EXCEPT
           !.entries = [i \in DOMAIN b.entries |->
               [key  |-> IF i <= n THEN b.entries[i].key ELSE EmptyKey,
                code |-> IF Parts(b.entries[i].code) \subseteq there
                         THEN b.entries[i].code ELSE EmptyCode,
                deps |-> <<>>]],
           !.deps = <<>>]

\* The file ends inside the pool of dependency indices: the entries from n
\* on have lost theirs.
CutPool(b, n) ==
    [b EXCEPT !.entries = [i \in DOMAIN b.entries |->
        IF i < n THEN b.entries[i] ELSE [b.entries[i] EXCEPT !.deps = <<>>]]]

\* Every way b can be cut without being refused.
Cuts(b) ==
    {CutPayload(b, 0, {})}
    \cup (UNION {{CutPayload(b, n, kept) : kept \in SUBSET Parts(b.entries[n].code)} :
                    n \in DOMAIN b.entries})
    \cup {CutPool(b, n) : n \in DOMAIN b.entries}
=============================================================================
