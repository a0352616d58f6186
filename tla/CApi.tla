-------------------------------- MODULE CApi --------------------------------
(***************************************************************************)
(* The C API (src/src/slangmake_c.cpp, slangmake_c_compiler.cpp and        *)
(* slangmake_c_internal.h): opaque handles on a heap, pointers into them   *)
(* that the client keeps, caches filled on first use, and one error        *)
(* message per thread.                                                     *)
(*                                                                         *)
(* The functions are grouped as in the source.  What a handle holds is a   *)
(* value; two values tell an edited handle from the one before.  A client  *)
(* uses handles it has, ends no handle while a call in progress or another *)
(* handle that was made from it or from a pointer it gave out is there,    *)
(* and edits a handle from one thread at a time.                           *)
(***************************************************************************)
EXTENDS Naturals, FiniteSets

CONSTANTS
    Threads,
    Handles,   \* addresses of handles
    NoHandle   \* NULL

ASSUME CApiAssumption == NoHandle \notin Handles

VARIABLES
    heap,    \* the objects that were created and not deleted
    err,     \* g_last_error of a thread, as seen by its last reporting call
    last,    \* how that call ended
    ptr,     \* a pointer a thread got from an accessor and still may use
    filling, \* the handle whose cache a thread is filling
    read     \* what the last read of a cache returned, and should have

vars == <<heap, err, last, ptr, filling, read>>

Live  == DOMAIN heap
Free  == Handles \ Live
NoPtr == [via |-> NoHandle, mem |-> NoHandle]
Unread == [got |-> 0, want |-> 0]

Has(kind)   == {h \in Live : heap[h].held /\ heap[h].kind = kind}
Busy(h)     == \E t \in Threads : filling[t] = h
Borrowed(h) == \E x \in Live : heap[x].base = h

-----------------------------------------------------------------------------
(* The functions that return a new handle, by section of the source.  from *)
(* is the handle they read, "bytes" a pointer; early: the handle is there  *)
(* before the call that may throw; null: what happens to the error message *)
(* when an argument is missing or out of range; refuses: they also fail    *)
(* with a message of their own.                                            *)

Makes(kind, from, early, null, refuses) ==
    [kind |-> kind, from |-> from, early |-> early, null |-> null, refuses |-> refuses]

OptionsApi     == {Makes("options", "none", FALSE, "never", FALSE)}
PermutationApi == {Makes("permutation", "none", FALSE, "never", FALSE)}

\* sm_parse_permutations_*, sm_merge_permutations and the list of its own.
DefineListApi ==
    {Makes("defines", "none", FALSE, "never", FALSE),
     Makes("defines", "none", TRUE, "clears", FALSE),
     Makes("defines", "defines", TRUE, "never", FALSE)}

\* sm_expand_permutations, sm_permutation_list_clone_at.
ExpandApi ==
    {Makes("perms", "defines", TRUE, "never", FALSE),
     Makes("permutation", "perms", TRUE, "keeps", FALSE)}

WriterApi ==
    {Makes("writer", "none", FALSE, "never", FALSE),
     Makes("buffer", "writer", TRUE, "keeps", FALSE)}

\* sm_blob_reader_open_borrowed, of bytes as they are and of compressed ones,
\* _copy, _file.
ReaderApi ==
    {Makes("reader", "bytes", TRUE, "keeps", TRUE),
     Makes("readerExpanded", "bytes", TRUE, "keeps", TRUE),
     Makes("readerCopy", "bytes", TRUE, "keeps", TRUE),
     Makes("readerFile", "none", FALSE, "keeps", TRUE)}

ReflectionApi == {Makes("reflection", "bytes", FALSE, "keeps", TRUE)}

CompilerApi ==
    {Makes("compiler", "none", FALSE, "never", FALSE),
     Makes("result", "compiler", TRUE, "sets", FALSE)}

\* sm_batch_compiler_create, sm_batch_compile_file, sm_batch_output_compiled_clone.
BatchApi ==
    {Makes("batch", "compiler", FALSE, "keeps", FALSE),
     Makes("output", "batch", TRUE, "sets", FALSE),
     Makes("permutation", "output", TRUE, "keeps", FALSE)}

Constructors == OptionsApi \cup PermutationApi \cup DefineListApi \cup ExpandApi
    \cup WriterApi \cup ReaderApi \cup ReflectionApi \cup CompilerApi \cup BatchApi

\* Handles whose accessors return pointers.
PointerKinds == {"permutation", "defines", "buffer", "reader", "reflection",
                 "result", "output"}

\* Builders that change in place; only the writer's calls report errors.
Builders == {"options", "permutation", "defines", "writer", "batch"}

IsReader(kind) == kind \in {"reader", "readerExpanded", "readerCopy", "readerFile"}
KindOf(c)      == IF IsReader(c.kind) THEN "reader" ELSE c.kind

\* What a client keeps as long as the new handle: whatever gave it the pointer
\* it passes, for a borrowing reader and a reflection view, and the compiler of
\* a batch compiler.
BaseOf(c, t, src) ==
    CASE c.kind \in {"reader", "readerExpanded", "reflection"} -> ptr[t].via
      [] c.kind = "batch" -> src
      [] OTHER -> NoHandle

\* The memory the accessors of a new handle point into, if it is not its own:
\* a borrowing reader and a reflection view keep the pointer they are given.
\* Bytes that are compressed are expanded into the reader's own memory.
MemOf(c, t, src) ==
    CASE c.kind \in {"reader", "reflection"} -> ptr[t].mem
      [] c.kind = "batch" -> src
      [] OTHER -> NoHandle

\* Mutant: a new handle starts with a valid cache.
FreshBuilt(c, t, src) ==
    [kind |-> KindOf(c), held |-> TRUE, thrown |-> FALSE, value |-> 1,
     cache |-> 0, built |-> TRUE, raced |-> FALSE, base |-> BaseOf(c, t, src),
     mem |-> MemOf(c, t, src)]

\* Mutant: the copying reader keeps the caller's pointer.
FreshOnCaller(c, t, src) ==
    [kind |-> KindOf(c), held |-> TRUE, thrown |-> FALSE, value |-> 1,
     cache |-> 0, built |-> FALSE, raced |-> FALSE, base |-> BaseOf(c, t, src),
     mem |-> IF c.kind = "readerCopy" THEN ptr[t].mem ELSE MemOf(c, t, src)]

\* A handle as its constructor leaves it: no cache yet.
Fresh(c, t, src) ==
    [kind |-> KindOf(c), held |-> TRUE, thrown |-> FALSE, value |-> 1,
     cache |-> 0, built |-> FALSE, raced |-> FALSE, base |-> BaseOf(c, t, src),
     mem |-> MemOf(c, t, src)]

\* An object nobody has the address of: what it was does not matter any more.
Lost == [kind |-> "lost", held |-> FALSE, thrown |-> TRUE, value |-> 1,
         cache |-> 0, built |-> FALSE, raced |-> FALSE, base |-> NoHandle,
         mem |-> NoHandle]

Init ==
    /\ heap = <<>>
    /\ err = [t \in Threads |-> "none"]
    /\ last = [t \in Threads |-> "ok"]
    /\ ptr = [t \in Threads |-> NoPtr]
    /\ filling = [t \in Threads |-> NoHandle]
    /\ read = Unread

Put(h, o) == heap' = [x \in Live \cup {h} |-> IF x = h THEN o ELSE heap[x]]

\* A thread is in one call at a time.
Idle(t) == filling[t] = NoHandle

\* Handles with bytes of a blob, or of a reflection section.
SourcesOf(kind) == IF kind = "reflection" THEN {"reader", "result"} ELSE {"buffer", "output"}

\* The argument a constructor needs is there.
Given(c, t, src) ==
    CASE c.from = "none"  -> src = NoHandle
      [] c.from = "bytes" -> /\ src = NoHandle /\ ptr[t] # NoPtr
                             /\ heap[ptr[t].via].kind \in SourcesOf(c.kind)
      [] OTHER            -> src \in Has(c.from)

Report(t, e, outcome) ==
    err' = [err EXCEPT ![t] = e] /\ last' = [last EXCEPT ![t] = outcome]

\* Mutant: the message of an earlier call is left.
ConstructUncleared(t, c, src, h) ==
    /\ Idle(t) /\ Given(c, t, src) /\ h \in Free
    /\ Put(h, Fresh(c, t, src))
    /\ Report(t, IF err[t] = "none" THEN "none" ELSE "stale", "ok")
    /\ read' = Unread /\ UNCHANGED <<ptr, filling>>

Construct(t, c, src, h) ==
    /\ Idle(t) /\ Given(c, t, src) /\ h \in Free
    /\ Put(h, Fresh(c, t, src))
    /\ Report(t, "none", "ok")
    /\ read' = Unread /\ UNCHANGED <<ptr, filling>>

\* The work throws: NULL and a message.  A handle that was created before is
\* not deleted, and nobody has its address.
ConstructThrows(t, c, src, h) ==
    /\ Idle(t) /\ Given(c, t, src) /\ h \in Free
    /\ IF c.early THEN Put(h, Lost) ELSE UNCHANGED heap
    /\ Report(t, "own", "failed")
    /\ read' = Unread /\ UNCHANGED <<ptr, filling>>

\* Mutant: the handle of bytes that are no blob is not deleted.
ConstructRefusedKept(t, c, src, h) ==
    /\ Idle(t) /\ Given(c, t, src) /\ h \in Free /\ c.refuses
    /\ Put(h, [Fresh(c, t, src) EXCEPT !.held = FALSE])
    /\ Report(t, "own", "failed")
    /\ read' = Unread /\ UNCHANGED <<ptr, filling>>

\* Bytes that are no blob and no reflection section, a file that cannot be
\* opened: the handle is deleted and a message set.
ConstructRefused(t, c, src, h) ==
    /\ Idle(t) /\ Given(c, t, src) /\ h \in Free /\ c.refuses
    /\ Report(t, "own", "failed")
    /\ read' = Unread /\ UNCHANGED <<heap, ptr, filling>>

\* A missing argument or an index out of range: NULL.  Most functions leave
\* the message of the call before, two set their own, and
\* sm_parse_permutations_file leaves none.
BadArgument(t, c) ==
    /\ Idle(t)
    /\ \/ c.null = "sets"   /\ Report(t, "own", "failed")
       \/ c.null = "clears" /\ Report(t, "none", "refused")
       \/ c.null = "keeps"  /\ UNCHANGED <<err, last>>
    /\ read' = Unread /\ UNCHANGED <<heap, ptr, filling>>

\* sm_*_destroy.
Destroy(t, h) ==
    /\ Idle(t) /\ h \in Live /\ heap[h].held /\ ~Busy(h) /\ ~Borrowed(h)
    /\ heap' = [x \in Live \ {h} |-> heap[x]]
    /\ ptr' = [u \in Threads |-> IF ptr[u].via = h THEN NoPtr ELSE ptr[u]]
    /\ read' = Unread /\ UNCHANGED <<err, last, filling>>

-----------------------------------------------------------------------------
(* Builders and accessors.                                                 *)

\* What an edit changes: only of a permutation is a value kept elsewhere.
Edited(o) == IF o.kind = "permutation" THEN [o EXCEPT !.value = 3 - @, !.built = FALSE] ELSE o

\* Mutant: an edit does not invalidate the key.
EditUntouched(t, h) ==
    /\ Idle(t) /\ h \in Live /\ heap[h].held /\ ~Busy(h)
    /\ heap[h].kind \in Builders
    /\ heap' = [heap EXCEPT ![h].value = IF heap[h].kind = "permutation" THEN 3 - @ ELSE @]
    /\ ptr' = [u \in Threads |-> IF ptr[u].via = h THEN NoPtr ELSE ptr[u]]
    /\ IF heap[h].kind = "writer"
       THEN Report(t, "none", "ok") ELSE UNCHANGED <<err, last>>
    /\ read' = Unread /\ UNCHANGED <<filling>>

\* sm_*_set_*, sm_*_add_*, sm_perm_define_list_push: the client drops what it
\* got from the handle before.
Edit(t, h) ==
    /\ Idle(t) /\ h \in Live /\ heap[h].held /\ ~Busy(h)
    /\ heap[h].kind \in Builders
    /\ heap' = [heap EXCEPT ![h] = Edited(@)]
    /\ ptr' = [u \in Threads |-> IF ptr[u].via = h THEN NoPtr ELSE ptr[u]]
    /\ IF heap[h].kind = "writer"
       THEN Report(t, "none", "ok") ELSE UNCHANGED <<err, last>>
    /\ read' = Unread /\ UNCHANGED <<filling>>

\* An edit that throws, sm_blob_writer_write_to_file that cannot write.
EditFails(t, h) ==
    /\ Idle(t) /\ h \in Has("writer")
    /\ Report(t, "own", "failed")
    /\ read' = Unread /\ UNCHANGED <<heap, ptr, filling>>

\* The accessors that return a pointer into what the handle has.
Access(t, h) ==
    /\ Idle(t) /\ h \in Live /\ heap[h].held /\ heap[h].kind \in PointerKinds
    /\ ptr' = [ptr EXCEPT ![t] =
                [via |-> h, mem |-> IF heap[h].mem = NoHandle THEN h ELSE heap[h].mem]]
    /\ read' = Unread /\ UNCHANGED <<heap, err, last, filling>>

Cached(h) == heap[h].held /\ heap[h].kind \in {"permutation", "reader"}

\* Mutant: the flag is not looked at.
FillBeginAlways(t, h) ==
    /\ Idle(t) /\ h \in Live /\ Cached(h)
    /\ heap' = [heap EXCEPT ![h].raced = @ \/ Busy(h)]
    /\ filling' = [filling EXCEPT ![t] = h]
    /\ read' = Unread /\ UNCHANGED <<err, last, ptr>>

\* key_cstr, build_dep_path_cache: the flag is down.  Nothing keeps a second
\* thread out; what the two make of the cache is undefined.
FillBegin(t, h) ==
    /\ Idle(t) /\ h \in Live /\ Cached(h) /\ ~heap[h].built
    /\ heap' = [heap EXCEPT ![h].raced = @ \/ Busy(h)]
    /\ filling' = [filling EXCEPT ![t] = h]
    /\ read' = Unread /\ UNCHANGED <<err, last, ptr>>

\* The cache after a fill: a key is assigned, dependency paths are appended
\* to what is there.
Filled(o) == IF o.kind = "permutation" THEN o.value ELSE o.cache + o.value

Seen(o) == IF o.raced THEN Unread ELSE [got |-> o.cache, want |-> o.value]

\* The fill, the flag and the read.
FillEnd(t) ==
    /\ filling[t] # NoHandle
    /\ LET h == filling[t]
           o == [heap[h] EXCEPT !.cache = IF heap[h].raced THEN 0 ELSE Filled(heap[h]),
                                !.built = TRUE]
       IN  heap' = [heap EXCEPT ![h] = o] /\ read' = Seen(o)
    /\ filling' = [filling EXCEPT ![t] = NoHandle]
    /\ UNCHANGED <<err, last, ptr>>

\* The same functions with the flag up.
Read(t, h) ==
    /\ Idle(t) /\ h \in Live /\ Cached(h) /\ heap[h].built
    /\ heap' = [heap EXCEPT ![h].raced = @ \/ Busy(h)]
    /\ read' = Seen(heap'[h])
    /\ UNCHANGED <<err, last, ptr, filling>>

Next ==
    \E t \in Threads :
      \/ \E c \in Constructors :
           \/ BadArgument(t, c)
           \/ \E src \in Live \cup {NoHandle}, h \in Free :
                \/ Construct(t, c, src, h)
                \/ ConstructThrows(t, c, src, h)
                \/ ConstructRefused(t, c, src, h)
      \/ \E h \in Live : Destroy(t, h) \/ Edit(t, h) \/ EditFails(t, h) \/ Access(t, h)
      \/ \E h \in Live : FillBegin(t, h) \/ Read(t, h)
      \/ FillEnd(t)

Spec == Init /\ [][Next]_vars

-----------------------------------------------------------------------------
\* Threads and caches refer to objects that exist, and a cache that is marked
\* as built has been filled, unless two threads filled it.
TypeOK ==
    /\ Live \subseteq Handles
    /\ \A t \in Threads : filling[t] \in Live \cup {NoHandle}
    /\ \A h \in Live : heap[h].built => heap[h].raced \/ heap[h].cache > 0

\* A key is the key of what the permutation holds now, through every edit and
\* clone, and a dependency path is the one the reader has at that index, in
\* whatever order threads ask (unless two of them filled the cache at once).
ReadsExact == read.got = read.want

\* Only the first use of a cache is a hazard for other threads: a cache that
\* one thread has filled alone is not written again before the next edit.
WarmCacheNotWritten ==
    \A t \in Threads :
      filling[t] # NoHandle => heap[filling[t]].raced \/ ~heap[filling[t]].built

\* sm_last_error belongs to this thread's last call that reports errors: after
\* a failure its own message, after a success none.  A call that returns NULL
\* for its arguments may do so without a message: with none, or with that of
\* the call before.
ErrorIsOwn ==
    \A t \in Threads :
      /\ last[t] = "failed" => err[t] = "own"
      /\ last[t] \in {"ok", "refused"} => err[t] = "none"

\* A pointer from an accessor is good until its handle is destroyed or
\* edited, and so is the memory that a handle borrows: it is enough that the
\* client destroys a borrowing reader, a reflection view and a batch compiler
\* before the handles whose pointers they were made from.  It need not know
\* where the bytes are: the entries of a borrowing reader lie in the buffer
\* or, when the blob is compressed, in the reader itself.
PointersLive ==
    /\ \A t \in Threads : ptr[t] # NoPtr => {ptr[t].via, ptr[t].mem} \subseteq Live
    /\ \A h \in Live : heap[h].mem # NoHandle => heap[h].mem \in Live

\* Every object is a handle the client can destroy, or was created by a call
\* that then threw.
HandlesAccounted == \A h \in Live : heap[h].held \/ heap[h].thrown
=============================================================================
