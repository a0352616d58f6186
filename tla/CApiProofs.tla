----------------------------- MODULE CApiProofs -----------------------------
(***************************************************************************)
(* TLAPS proofs about CApi, for any number of threads and handles.         *)
(***************************************************************************)
EXTENDS CApi, TLAPS

Addresses == Handles \cup {NoHandle}

Kinds == {KindOf(c) : c \in Constructors} \cup {"lost"}

Objects == [kind : Kinds, held : BOOLEAN, thrown : BOOLEAN, value : 1..2,
            cache : Nat, built : BOOLEAN, raced : BOOLEAN,
            base : Addresses, mem : Addresses]

Types ==
    /\ Live \subseteq Handles
    /\ heap \in [Live -> Objects]
    /\ err \in [Threads -> {"none", "own"}]
    /\ last \in [Threads -> {"ok", "failed", "refused"}]
    /\ ptr \in [Threads -> [via : Addresses, mem : Addresses]]
    /\ filling \in [Threads -> Live \cup {NoHandle}]
    /\ read \in [got : Nat, want : Nat]

\* A cache that one thread has filled is right, and one that nobody has filled
\* is as the constructor left it.
CacheRight(o) ==
    ~o.raced =>
      /\ o.built => o.cache = o.value
      /\ o.kind # "permutation" => o.value = 1 /\ (~o.built => o.cache = 0)

\* Two threads that fill one cache are noticed.
Fillers ==
    \A t, u \in Threads :
      t # u /\ filling[t] = filling[u] /\ filling[t] # NoHandle => heap[filling[t]].raced

CInv ==
    /\ Fillers
    /\ WarmCacheNotWritten
    /\ \A h \in Live : CacheRight(heap[h])
    /\ ReadsExact

\* What an object is made from is there, and the memory it borrows is that or
\* what that borrows in its turn.  Only three kinds borrow.
Sound(h) ==
    /\ heap[h].base \in Live \cup {NoHandle}
    /\ heap[h].mem # NoHandle =>
         /\ heap[h].mem \in Live /\ heap[h].base \in Live
         /\ heap[h].mem = heap[h].base \/ heap[heap[h].base].base = heap[h].mem
    /\ heap[h].kind \notin {"reader", "reflection", "batch"} => heap[h].mem = NoHandle
    /\ heap[h].kind = "reader" => heap[h].mem \in {NoHandle, heap[h].base}

\* A pointer points into its handle or into what that handle borrows.
Borrows ==
    /\ \A h \in Live : Sound(h)
    /\ \A t \in Threads : ptr[t] # NoPtr =>
         /\ ptr[t].via \in Live
         /\ ptr[t].mem = IF heap[ptr[t].via].mem = NoHandle THEN ptr[t].via
                         ELSE heap[ptr[t].via].mem

PInv == Borrows /\ PointersLive

-----------------------------------------------------------------------------

\* What a constructor makes is an object with an empty cache.
LEMMA FreshIsObject ==
    ASSUME Types, NEW c \in Constructors, NEW t \in Threads, NEW src \in Live \cup {NoHandle}
    PROVE  Fresh(c, t, src) \in Objects /\ Lost \in Objects
<1>1. KindOf(c) \in Kinds /\ "lost" \in Kinds
  BY DEF Kinds
<1>2. BaseOf(c, t, src) \in Addresses /\ MemOf(c, t, src) \in Addresses
  BY DEF BaseOf, MemOf, Types, Addresses
<1>3. Fresh(c, t, src) \in Objects
  BY <1>1, <1>2 DEF Fresh, Objects
<1>4. Lost \in Objects
  BY <1>1 DEF Lost, Objects, Addresses
<1> QED
  BY <1>3, <1>4

LEMMA FreshCache ==
    ASSUME NEW c, NEW t, NEW src
    PROVE  /\ CacheRight(Fresh(c, t, src)) /\ CacheRight(Lost)
           /\ ~Fresh(c, t, src).built /\ ~Fresh(c, t, src).raced
BY DEF Fresh, Lost, CacheRight

LEMMA EditedIsObject ==
    ASSUME NEW o \in Objects
    PROVE  /\ Edited(o) \in Objects
           /\ CacheRight(o) => CacheRight(Edited(o))
           /\ Edited(o).raced = o.raced
           /\ Edited(o).mem = o.mem /\ Edited(o).base = o.base
           /\ Edited(o).held = o.held /\ Edited(o).thrown = o.thrown
           /\ Edited(o).kind = o.kind
<1>1. CASE o.kind = "permutation"
  <2>1. 3 - o.value \in 1..2
    BY DEF Objects
  <2>2. Edited(o) = [o EXCEPT !.value = 3 - o.value, !.built = FALSE]
    BY <1>1 DEF Edited
  <2>3. Edited(o) \in Objects
    BY <2>1, <2>2 DEF Objects
  <2>4. /\ ~Edited(o).built /\ Edited(o).raced = o.raced /\ Edited(o).kind = o.kind
        /\ Edited(o).mem = o.mem /\ Edited(o).base = o.base
        /\ Edited(o).held = o.held /\ Edited(o).thrown = o.thrown
    BY <2>2 DEF Objects
  <2> QED
    BY <1>1, <2>3, <2>4 DEF CacheRight
<1>2. CASE o.kind # "permutation"
  BY <1>2 DEF Edited
<1> QED
  BY <1>1, <1>2

-----------------------------------------------------------------------------

LEMMA TypesInit == Init => Types
BY DEF Init, Types, Live, Addresses, NoPtr, Unread

\* Replacing one object.
LEMMA PutTyped ==
    ASSUME Types, NEW h \in Handles, NEW o \in Objects, Put(h, o)
    PROVE  DOMAIN heap' = Live \cup {h} /\ heap' \in [DOMAIN heap' -> Objects]
                                        /\ DOMAIN heap' \subseteq Handles
BY DEF Types, Put, Live

LEMMA ReplaceTyped ==
    ASSUME Types, NEW h \in Live, NEW o \in Objects, heap' = [heap EXCEPT ![h] = o]
    PROVE  DOMAIN heap' = Live /\ heap' \in [DOMAIN heap' -> Objects]
                               /\ DOMAIN heap' \subseteq Handles
BY DEF Types, Live

\* Threads and handles for which the actions are stated.
LEMMA NextActions ==
    ASSUME Next
    PROVE  \E t \in Threads :
             \/ \E c \in Constructors : BadArgument(t, c)
             \/ \E c \in Constructors, src \in Live \cup {NoHandle}, h \in Free :
                  \/ Construct(t, c, src, h)
                  \/ ConstructThrows(t, c, src, h)
                  \/ ConstructRefused(t, c, src, h)
             \/ \E h \in Live :
                  \/ Destroy(t, h) \/ Edit(t, h) \/ EditFails(t, h) \/ Access(t, h)
                  \/ FillBegin(t, h) \/ Read(t, h)
             \/ FillEnd(t)
BY DEF Next

LEMMA RacedIsObject ==
    ASSUME NEW o \in Objects, NEW h
    PROVE  [o EXCEPT !.raced = @ \/ Busy(h)] \in Objects
<1>1. (o.raced \/ Busy(h)) \in BOOLEAN
  OBVIOUS
<1> QED
  BY <1>1 DEF Objects

LEMMA FilledIsObject ==
    ASSUME NEW o \in Objects
    PROVE  [o EXCEPT !.cache = IF o.raced THEN 0 ELSE Filled(o), !.built = TRUE] \in Objects
<1>1. Filled(o) \in Nat
  BY DEF Filled, Objects
<1> QED
  BY <1>1 DEF Objects

LEMMA SeenTyped ==
    ASSUME NEW o \in Objects
    PROVE  Seen(o) \in [got : Nat, want : Nat]
BY DEF Seen, Unread, Objects

LEMMA UnreadTyped == Unread \in [got : Nat, want : Nat]
BY DEF Unread

LEMMA ReportTyped ==
    ASSUME Types, NEW t \in Threads, NEW e \in {"none", "own"}, NEW o \in {"ok", "failed", "refused"},
           Report(t, e, o)
    PROVE  err' \in [Threads -> {"none", "own"}] /\ last' \in [Threads -> {"ok", "failed", "refused"}]
BY DEF Types, Report

\* The pointers left when those into h are dropped.
LEMMA DropTyped ==
    ASSUME Types, NEW h, ptr' = [u \in Threads |-> IF ptr[u].via = h THEN NoPtr ELSE ptr[u]]
    PROVE  ptr' \in [Threads -> [via : Addresses, mem : Addresses]]
BY DEF Types, NoPtr, Addresses

\* Every step keeps the types.
THEOREM TypesStep == Types /\ [Next]_vars => Types'
<1> SUFFICES ASSUME Types, [Next]_vars
             PROVE  Types'
  OBVIOUS
<1>1. CASE UNCHANGED vars
  BY <1>1 DEF vars, Types, Live
<1>2. ASSUME NEW t \in Threads, NEW c \in Constructors, BadArgument(t, c)
      PROVE  Types'
  <2>1. err' \in [Threads -> {"none", "own"}] /\ last' \in [Threads -> {"ok", "failed", "refused"}]
    BY <1>2, ReportTyped DEF BadArgument, Types
  <2> QED
    BY <1>2, <2>1, UnreadTyped DEF BadArgument, Types, Live
<1>3. ASSUME NEW t \in Threads, NEW c \in Constructors, NEW src \in Live \cup {NoHandle},
             NEW h \in Free, Construct(t, c, src, h)
      PROVE  Types'
  <2>1. h \in Handles /\ Fresh(c, t, src) \in Objects
    BY FreshIsObject DEF Free
  <2>2. /\ Live \subseteq DOMAIN heap' /\ DOMAIN heap' \subseteq Handles
        /\ heap' \in [DOMAIN heap' -> Objects]
    BY <1>3, <2>1, PutTyped DEF Construct
  <2>3. err' \in [Threads -> {"none", "own"}] /\ last' \in [Threads -> {"ok", "failed", "refused"}]
    BY <1>3, ReportTyped DEF Construct
  <2>4. filling' \in [Threads -> DOMAIN heap' \cup {NoHandle}]
    BY <1>3, <2>2 DEF Construct, Types
  <2> QED
    BY <1>3, <2>2, <2>3, <2>4, UnreadTyped DEF Construct, Types, Live
<1>4. ASSUME NEW t \in Threads, NEW c \in Constructors, NEW src \in Live \cup {NoHandle},
             NEW h \in Free, ConstructThrows(t, c, src, h)
      PROVE  Types'
  <2>1. h \in Handles /\ Lost \in Objects
    BY FreshIsObject DEF Free
  <2>2. /\ Live \subseteq DOMAIN heap' /\ DOMAIN heap' \subseteq Handles
        /\ heap' \in [DOMAIN heap' -> Objects]
    BY <1>4, <2>1, PutTyped DEF ConstructThrows, Types, Live
  <2>3. err' \in [Threads -> {"none", "own"}] /\ last' \in [Threads -> {"ok", "failed", "refused"}]
    BY <1>4, ReportTyped DEF ConstructThrows
  <2>4. filling' \in [Threads -> DOMAIN heap' \cup {NoHandle}]
    BY <1>4, <2>2 DEF ConstructThrows, Types
  <2> QED
    BY <1>4, <2>2, <2>3, <2>4, UnreadTyped DEF ConstructThrows, Types, Live
<1>5. ASSUME NEW t \in Threads, NEW c \in Constructors, NEW src \in Live \cup {NoHandle},
             NEW h \in Free, ConstructRefused(t, c, src, h)
      PROVE  Types'
  <2>1. err' \in [Threads -> {"none", "own"}] /\ last' \in [Threads -> {"ok", "failed", "refused"}]
    BY <1>5, ReportTyped DEF ConstructRefused
  <2> QED
    BY <1>5, <2>1, UnreadTyped DEF ConstructRefused, Types, Live
<1>6. ASSUME NEW t \in Threads, NEW h \in Live, Destroy(t, h)
      PROVE  Types'
  <2>1. DOMAIN heap' \subseteq Handles /\ heap' \in [DOMAIN heap' -> Objects]
    BY <1>6 DEF Destroy, Types, Live
  <2>2. ptr' \in [Threads -> [via : Addresses, mem : Addresses]]
    BY <1>6, DropTyped DEF Destroy
  <2>3. filling' \in [Threads -> DOMAIN heap' \cup {NoHandle}]
    BY <1>6 DEF Destroy, Types, Busy
  <2> QED
    BY <1>6, <2>1, <2>2, <2>3, UnreadTyped DEF Destroy, Types, Live
<1>7. ASSUME NEW t \in Threads, NEW h \in Live, Edit(t, h)
      PROVE  Types'
  <2>1. heap[h] \in Objects
    BY DEF Types
  <2>2. DOMAIN heap' \subseteq Handles /\ heap' \in [DOMAIN heap' -> Objects]
    BY <1>7, <2>1, EditedIsObject, ReplaceTyped DEF Edit
  <2>3. ptr' \in [Threads -> [via : Addresses, mem : Addresses]]
    BY <1>7, DropTyped DEF Edit
  <2>4. err' \in [Threads -> {"none", "own"}] /\ last' \in [Threads -> {"ok", "failed", "refused"}]
    BY <1>7, ReportTyped DEF Edit, Types
  <2> QED
    BY <1>7, <2>2, <2>3, <2>4, UnreadTyped DEF Edit, Types, Live
<1>8. ASSUME NEW t \in Threads, NEW h \in Live, EditFails(t, h)
      PROVE  Types'
  <2>1. err' \in [Threads -> {"none", "own"}] /\ last' \in [Threads -> {"ok", "failed", "refused"}]
    BY <1>8, ReportTyped DEF EditFails
  <2> QED
    BY <1>8, <2>1, UnreadTyped DEF EditFails, Types, Live
<1>9. ASSUME NEW t \in Threads, NEW h \in Live, Access(t, h)
      PROVE  Types'
  <2>1. heap[h] \in Objects /\ h \in Handles
    BY DEF Types
  <2>2. [via |-> h, mem |-> IF heap[h].mem = NoHandle THEN h ELSE heap[h].mem]
          \in [via : Addresses, mem : Addresses]
    BY <2>1 DEF Objects, Addresses
  <2>3. ptr' \in [Threads -> [via : Addresses, mem : Addresses]]
    BY <1>9, <2>2 DEF Access, Types
  <2> QED
    BY <1>9, <2>3, UnreadTyped DEF Access, Types, Live
<1>10. ASSUME NEW t \in Threads, NEW h \in Live, FillBegin(t, h)
       PROVE  Types'
  <2>1. [heap[h] EXCEPT !.raced = @ \/ Busy(h)] \in Objects
    BY RacedIsObject DEF Types
  <2>2. DOMAIN heap' = Live /\ DOMAIN heap' \subseteq Handles
        /\ heap' \in [DOMAIN heap' -> Objects]
    BY <1>10, <2>1 DEF FillBegin, Types, Live
  <2>3. filling' \in [Threads -> Live \cup {NoHandle}]
    BY <1>10 DEF FillBegin, Types
  <2> QED
    BY <1>10, <2>2, <2>3, UnreadTyped DEF FillBegin, Types, Live
<1>11. ASSUME NEW t \in Threads, FillEnd(t)
       PROVE  Types'
  <2> DEFINE h == filling[t]
             o == [heap[h] EXCEPT !.cache = IF heap[h].raced THEN 0 ELSE Filled(heap[h]),
                                  !.built = TRUE]
  <2>1. h \in Live
    BY <1>11 DEF FillEnd, Types
  <2>2. o \in Objects
    BY <2>1, FilledIsObject DEF Types
  <2>3. heap' = [heap EXCEPT ![h] = o] /\ read' = Seen(o)
    BY <1>11 DEF FillEnd
  <2>4. DOMAIN heap' = Live /\ DOMAIN heap' \subseteq Handles
        /\ heap' \in [DOMAIN heap' -> Objects]
    BY <2>1, <2>2, <2>3, ReplaceTyped
  <2>5. read' \in [got : Nat, want : Nat]
    BY <2>2, <2>3, SeenTyped
  <2>6. filling' \in [Threads -> Live \cup {NoHandle}]
    BY <1>11 DEF FillEnd, Types
  <2> QED
    BY <1>11, <2>4, <2>5, <2>6 DEF FillEnd, Types, Live
<1>12. ASSUME NEW t \in Threads, NEW h \in Live, Read(t, h)
       PROVE  Types'
  <2>1. [heap[h] EXCEPT !.raced = @ \/ Busy(h)] \in Objects
    BY RacedIsObject DEF Types
  <2>2. DOMAIN heap' = Live /\ DOMAIN heap' \subseteq Handles
        /\ heap' \in [DOMAIN heap' -> Objects]
    BY <1>12, <2>1 DEF Read, Types, Live
  <2>3. read' \in [got : Nat, want : Nat]
    BY <1>12, <2>2, SeenTyped DEF Read
  <2> QED
    BY <1>12, <2>2, <2>3 DEF Read, Types, Live
<1> QED
  BY <1>1, <1>2, <1>3, <1>4, <1>5, <1>6, <1>7, <1>8, <1>9, <1>10, <1>11, <1>12, NextActions

-----------------------------------------------------------------------------
(* Errors and handles.                                                     *)

LEMMA ReportIsOwn ==
    ASSUME Types, ErrorIsOwn, NEW t \in Threads, NEW e, NEW o, Report(t, e, o),
           o = "failed" => e = "own", o \in {"ok", "refused"} => e = "none"
    PROVE  ErrorIsOwn'
BY DEF Types, ErrorIsOwn, Report

LEMMA ErrorStep == Types /\ ErrorIsOwn /\ [Next]_vars => ErrorIsOwn'
<1> SUFFICES ASSUME Types, ErrorIsOwn, [Next]_vars
             PROVE  ErrorIsOwn'
  OBVIOUS
<1>1. CASE UNCHANGED <<err, last>>
  BY <1>1 DEF ErrorIsOwn
<1>2. ASSUME NEW t \in Threads, Report(t, "own", "failed")
      PROVE  ErrorIsOwn'
  BY <1>2, ReportIsOwn
<1>3. ASSUME NEW t \in Threads, Report(t, "none", "ok")
      PROVE  ErrorIsOwn'
  BY <1>3, ReportIsOwn
<1>4. ASSUME NEW t \in Threads, NEW c \in Constructors, BadArgument(t, c)
      PROVE  ErrorIsOwn'
  <2>1. ASSUME Report(t, "none", "refused")
        PROVE  ErrorIsOwn'
    BY <2>1, ReportIsOwn
  <2> QED
    BY <1>1, <1>2, <1>4, <2>1 DEF BadArgument
<1>5. ASSUME NEW t \in Threads, NEW c \in Constructors, NEW src \in Live \cup {NoHandle},
             NEW h \in Free,
             Construct(t, c, src, h) \/ ConstructThrows(t, c, src, h)
               \/ ConstructRefused(t, c, src, h)
      PROVE  Report(t, "own", "failed") \/ Report(t, "none", "ok")
  BY <1>5 DEF Construct, ConstructThrows, ConstructRefused
<1>6. ASSUME NEW t \in Threads, NEW h \in Live, Edit(t, h) \/ EditFails(t, h)
      PROVE  ErrorIsOwn'
  BY <1>1, <1>2, <1>3, <1>6 DEF Edit, EditFails
<1>7. ASSUME NEW t \in Threads, NEW h \in Live,
             Destroy(t, h) \/ Access(t, h) \/ FillBegin(t, h) \/ Read(t, h)
      PROVE  UNCHANGED <<err, last>>
  BY <1>7 DEF Destroy, Access, FillBegin, Read
<1>8. ASSUME NEW t \in Threads, FillEnd(t)
      PROVE  UNCHANGED <<err, last>>
  BY <1>8 DEF FillEnd
<1> QED
  BY <1>1, <1>2, <1>3, <1>4, <1>5, <1>6, <1>7, <1>8, NextActions DEF vars

LEMMA HandlesStep == Types /\ HandlesAccounted /\ [Next]_vars => HandlesAccounted'
<1> SUFFICES ASSUME Types, HandlesAccounted, [Next]_vars
             PROVE  HandlesAccounted'
  OBVIOUS
<1>1. CASE UNCHANGED heap
  BY <1>1 DEF HandlesAccounted, Live
<1>2. ASSUME NEW t \in Threads, NEW c \in Constructors, NEW src \in Live \cup {NoHandle},
             NEW h \in Free, Put(h, Fresh(c, t, src)) \/ Put(h, Lost)
      PROVE  HandlesAccounted'
  BY <1>2 DEF HandlesAccounted, Live, Put, Fresh, Lost
<1>3. ASSUME NEW h \in Live, heap' = [x \in Live \ {h} |-> heap[x]]
      PROVE  HandlesAccounted'
  BY <1>3 DEF HandlesAccounted, Live
<1>4. ASSUME NEW h \in Live, NEW o \in Objects, heap' = [heap EXCEPT ![h] = o],
             o.held = heap[h].held, o.thrown = heap[h].thrown
      PROVE  HandlesAccounted'
  BY <1>4 DEF HandlesAccounted, Live, Types
<1>5. ASSUME NEW t \in Threads, NEW h \in Live, FillBegin(t, h) \/ Read(t, h)
      PROVE  HandlesAccounted'
  <2> DEFINE o == [heap[h] EXCEPT !.raced = @ \/ Busy(h)]
  <2>1. o \in Objects /\ heap[h] \in Objects
    BY RacedIsObject DEF Types
  <2>2. o.held = heap[h].held /\ o.thrown = heap[h].thrown
    BY <2>1 DEF Objects
  <2>3. heap' = [heap EXCEPT ![h] = o]
    BY <1>5 DEF FillBegin, Read
  <2> QED
    BY <1>4, <2>1, <2>2, <2>3
<1>6. ASSUME NEW t \in Threads, NEW h \in Live, Edit(t, h)
      PROVE  HandlesAccounted'
  <2>1. heap[h] \in Objects
    BY DEF Types
  <2> QED
    BY <1>4, <1>6, <2>1, EditedIsObject DEF Edit
<1>7. ASSUME NEW t \in Threads, FillEnd(t)
      PROVE  HandlesAccounted'
  <2> DEFINE h == filling[t]
             o == [heap[h] EXCEPT !.cache = IF heap[h].raced THEN 0 ELSE Filled(heap[h]),
                                  !.built = TRUE]
  <2>1. h \in Live
    BY <1>7 DEF FillEnd, Types
  <2>2. o \in Objects /\ heap[h] \in Objects
    BY <2>1, FilledIsObject DEF Types
  <2>3. o.held = heap[h].held /\ o.thrown = heap[h].thrown
    BY <2>2 DEF Objects
  <2>4. heap' = [heap EXCEPT ![h] = o]
    BY <1>7 DEF FillEnd
  <2> HIDE DEF h, o
  <2> QED
    BY <1>4, <2>1, <2>2, <2>3, <2>4
<1>8. ASSUME NEW t \in Threads, NEW c \in Constructors, BadArgument(t, c)
      PROVE  HandlesAccounted'
  BY <1>1, <1>8 DEF BadArgument
<1>9. ASSUME NEW t \in Threads, NEW c \in Constructors, NEW src \in Live \cup {NoHandle},
             NEW h \in Free,
             Construct(t, c, src, h) \/ ConstructThrows(t, c, src, h)
               \/ ConstructRefused(t, c, src, h)
      PROVE  HandlesAccounted'
  BY <1>1, <1>2, <1>9 DEF Construct, ConstructThrows, ConstructRefused
<1>10. ASSUME NEW t \in Threads, NEW h \in Live, Destroy(t, h) \/ EditFails(t, h) \/ Access(t, h)
       PROVE  HandlesAccounted'
  BY <1>1, <1>3, <1>10 DEF Destroy, EditFails, Access
<1> QED
  BY <1>1, <1>5, <1>6, <1>7, <1>8, <1>9, <1>10, NextActions DEF vars

\* The error a thread reads is that of its own last reporting call, whatever
\* the other threads do and however often calls fail, for any number of threads
\* (g_last_error, clear_error, set_error).
THEOREM ErrorsStayOwn == Spec => []ErrorIsOwn
<1>1. Init => Types /\ ErrorIsOwn
  BY TypesInit DEF Init, ErrorIsOwn
<1>2. Types /\ ErrorIsOwn /\ [Next]_vars => (Types /\ ErrorIsOwn)'
  BY TypesStep, ErrorStep
<1> QED
  BY <1>1, <1>2, PTL DEF Spec

\* The only objects a client cannot destroy are those whose constructor threw
\* after it had allocated them.
THEOREM OnlyThrownAreLost == Spec => []HandlesAccounted
<1>1. Init => Types /\ HandlesAccounted
  BY TypesInit DEF Init, HandlesAccounted, Live
<1>2. Types /\ HandlesAccounted /\ [Next]_vars => (Types /\ HandlesAccounted)'
  BY TypesStep, HandlesStep
<1> QED
  BY <1>1, <1>2, PTL DEF Spec

-----------------------------------------------------------------------------
(* Caches.                                                                 *)

\* An object changes that no thread is filling.
LEMMA IdleObject ==
    ASSUME Types, CInv, NEW h, ~Busy(h), UNCHANGED filling, read' = Unread,
           Live \ {h} \subseteq DOMAIN heap',
           \A x \in Live \ {h} : heap'[x] = heap[x],
           \A x \in DOMAIN heap' : CacheRight(heap'[x])
    PROVE  CInv'
<1>1. \A t \in Threads : filling[t] # NoHandle =>
                           filling[t] \in Live \ {h} /\ heap'[filling[t]] = heap[filling[t]]
  BY DEF Types, Busy
<1>2. Fillers'
  BY <1>1 DEF CInv, Fillers
<1>3. WarmCacheNotWritten'
  BY <1>1 DEF CInv, WarmCacheNotWritten
<1>4. ReadsExact'
  BY DEF ReadsExact, Unread
<1> QED
  BY <1>2, <1>3, <1>4 DEF CInv, Live, CacheRight

\* A call that touches no object.
LEMMA IdleCall ==
    ASSUME Types, CInv, UNCHANGED <<heap, filling>>, read' = Unread
    PROVE  CInv'
<1>1. Fillers' /\ WarmCacheNotWritten'
  BY DEF CInv, Fillers, WarmCacheNotWritten
<1>2. \A h \in Live' : CacheRight(heap[h])'
  BY DEF CInv, Live, CacheRight
<1>3. ReadsExact'
  BY DEF ReadsExact, Unread
<1> QED
  BY <1>1, <1>2, <1>3 DEF CInv

LEMMA CacheConstruct ==
    ASSUME Types, CInv, NEW h \in Free, NEW o \in Objects, Put(h, o), CacheRight(o),
           UNCHANGED filling, read' = Unread
    PROVE  CInv'
<1>1. h # NoHandle /\ h \notin Live
  BY CApiAssumption DEF Free
<1>2. ~Busy(h)
  BY <1>1 DEF Busy, Types
<1>3. DOMAIN heap' = Live \cup {h} /\ heap'[h] = o /\ \A x \in Live : heap'[x] = heap[x]
  BY <1>1 DEF Put
<1>4. \A x \in DOMAIN heap' : CacheRight(heap'[x])
  BY <1>3 DEF CInv
<1> QED
  BY <1>1, <1>2, <1>3, <1>4, IdleObject

LEMMA CacheDestroy ==
    ASSUME Types, CInv, NEW t \in Threads, NEW h \in Live, Destroy(t, h)
    PROVE  CInv'
<1>1. DOMAIN heap' = Live \ {h} /\ \A x \in Live \ {h} : heap'[x] = heap[x]
  BY DEF Destroy
<1>2. \A x \in DOMAIN heap' : CacheRight(heap'[x])
  BY <1>1 DEF CInv
<1> QED
  BY <1>1, <1>2, IdleObject DEF Destroy

LEMMA CacheEdit ==
    ASSUME Types, CInv, NEW t \in Threads, NEW h \in Live, Edit(t, h)
    PROVE  CInv'
<1>1. heap[h] \in Objects /\ CacheRight(heap[h])
  BY DEF Types, CInv
<1>2. /\ DOMAIN heap' = Live /\ heap'[h] = Edited(heap[h])
      /\ \A x \in Live \ {h} : heap'[x] = heap[x]
  BY DEF Edit, Types, Live
<1>3. \A x \in DOMAIN heap' : CacheRight(heap'[x])
  BY <1>1, <1>2, EditedIsObject DEF CInv
<1> QED
  BY <1>2, <1>3, IdleObject DEF Edit

\* A second thread in a cache marks it as raced, a first one leaves it.
LEMMA CacheFillBegin ==
    ASSUME Types, CInv, NEW t \in Threads, NEW h \in Live, FillBegin(t, h)
    PROVE  CInv'
<1> DEFINE o == [heap[h] EXCEPT !.raced = @ \/ Busy(h)]
<1>1. heap[h] \in Objects /\ h # NoHandle
  BY CApiAssumption DEF Types
<1>2. /\ o.raced = (heap[h].raced \/ Busy(h)) /\ o.built = heap[h].built
      /\ o.cache = heap[h].cache /\ o.value = heap[h].value /\ o.kind = heap[h].kind
  BY <1>1 DEF Objects
<1>3. heap' = [heap EXCEPT ![h] = o]
  BY DEF FillBegin
<1>4. filling[t] = NoHandle /\ filling' = [filling EXCEPT ![t] = h] /\ ~heap[h].built
  BY DEF FillBegin, Idle
<1> HIDE DEF o
<1>5. DOMAIN heap' = Live /\ heap'[h] = o /\ \A x \in Live \ {h} : heap'[x] = heap[x]
  BY <1>3 DEF Types, Live
<1>6. filling'[t] = h /\ \A u \in Threads \ {t} : filling'[u] = filling[u]
  BY <1>4 DEF Types
<1>7. \A u \in Threads : filling[u] # NoHandle => filling[u] \in Live
  BY DEF Types
<1>8. Fillers'
  <2> SUFFICES ASSUME NEW u \in Threads, NEW v \in Threads, u # v,
                      filling'[u] = filling'[v], filling'[u] # NoHandle
               PROVE  heap'[filling'[u]].raced
    BY DEF Fillers
  <2>1. CASE u = t \/ v = t
    <3>1. Busy(h) /\ filling'[u] = h
      BY <1>6, <2>1 DEF Busy
    <3> QED
      BY <1>2, <1>5, <3>1
  <2>2. CASE u # t /\ v # t
    <3>1. filling[u] = filling'[u] /\ filling[u] = filling[v]
      BY <1>6, <2>2
    <3>2. heap[filling[u]].raced /\ filling[u] \in Live
      BY <1>7, <3>1 DEF CInv, Fillers
    <3> QED
      BY <1>2, <1>5, <3>1, <3>2
  <2> QED
    BY <2>1, <2>2
<1>9. WarmCacheNotWritten'
  <2> SUFFICES ASSUME NEW u \in Threads, filling'[u] # NoHandle
               PROVE  heap'[filling'[u]].raced \/ ~heap'[filling'[u]].built
    BY DEF WarmCacheNotWritten
  <2>1. CASE u = t
    BY <1>2, <1>4, <1>5, <1>6, <2>1
  <2>2. CASE u # t
    <3>1. filling[u] = filling'[u] /\ filling[u] \in Live
      BY <1>6, <1>7, <2>2
    <3>2. heap[filling[u]].raced \/ ~heap[filling[u]].built
      BY <3>1 DEF CInv, WarmCacheNotWritten
    <3> QED
      BY <1>2, <1>5, <3>1, <3>2
  <2> QED
    BY <2>1, <2>2
<1>10. CacheRight(o)
  BY <1>2 DEF CInv, CacheRight
<1>11. \A x \in Live' : CacheRight(heap[x])'
  BY <1>5, <1>10 DEF CInv, Live, CacheRight
<1>12. ReadsExact'
  BY DEF FillBegin, ReadsExact, Unread
<1> QED
  BY <1>8, <1>9, <1>11, <1>12 DEF CInv

\* A thread that was alone leaves a right cache; another one would have been
\* noticed.
LEMMA CacheFillEnd ==
    ASSUME Types, CInv, NEW t \in Threads, FillEnd(t)
    PROVE  CInv'
<1> DEFINE h == filling[t]
           o == [heap[h] EXCEPT !.cache = IF heap[h].raced THEN 0 ELSE Filled(heap[h]),
                                !.built = TRUE]
<1>1. h \in Live /\ h # NoHandle /\ heap[h] \in Objects
  BY DEF FillEnd, Types
<1>2. /\ o.raced = heap[h].raced /\ o.built /\ o.value = heap[h].value
      /\ o.kind = heap[h].kind /\ (~o.raced => o.cache = Filled(heap[h]))
  BY <1>1 DEF Objects
<1>3. heap' = [heap EXCEPT ![h] = o] /\ read' = Seen(o)
  BY DEF FillEnd
<1>4. filling' = [filling EXCEPT ![t] = NoHandle]
  BY DEF FillEnd
<1>5. /\ heap[h].raced \/ ~heap[h].built
      /\ \A u \in Threads \ {t} : filling[u] = h => heap[h].raced
  BY <1>1 DEF CInv, WarmCacheNotWritten, Fillers
<1>6. \A u \in Threads : filling[u] # NoHandle => filling[u] \in Live
  BY DEF Types
<1>7. filling'[t] = NoHandle /\ \A u \in Threads \ {t} : filling'[u] = filling[u]
  BY <1>4 DEF Types
<1>8. CacheRight(heap[h]) /\ heap[h].value \in 1..2
  BY <1>1 DEF CInv, Objects
<1> HIDE DEF h, o
<1>9. DOMAIN heap' = Live /\ heap'[h] = o /\ \A x \in Live \ {h} : heap'[x] = heap[x]
  BY <1>1, <1>3 DEF Types, Live
<1>10. Fillers'
  <2> SUFFICES ASSUME NEW u \in Threads, NEW v \in Threads, u # v,
                      filling'[u] = filling'[v], filling'[u] # NoHandle
               PROVE  heap'[filling'[u]].raced
    BY DEF Fillers
  <2>1. filling[u] = filling'[u] /\ filling[v] = filling'[v]
    BY <1>7
  <2>2. heap[filling[u]].raced /\ filling[u] \in Live
    BY <1>6, <2>1 DEF CInv, Fillers
  <2> QED
    BY <1>2, <1>9, <2>1, <2>2
<1>11. WarmCacheNotWritten'
  <2> SUFFICES ASSUME NEW u \in Threads, filling'[u] # NoHandle
               PROVE  heap'[filling'[u]].raced \/ ~heap'[filling'[u]].built
    BY DEF WarmCacheNotWritten
  <2>1. u # t /\ filling[u] = filling'[u] /\ filling[u] \in Live
    BY <1>6, <1>7
  <2>2. heap[filling[u]].raced \/ ~heap[filling[u]].built
    BY <2>1 DEF CInv, WarmCacheNotWritten
  <2> QED
    BY <1>2, <1>5, <1>9, <2>1, <2>2
<1>12. CacheRight(o) /\ (~o.raced => o.cache = o.value)
  BY <1>2, <1>5, <1>8 DEF CacheRight, Filled
<1>13. \A x \in Live' : CacheRight(heap[x])'
  BY <1>9, <1>12 DEF CInv, Live, CacheRight
<1>14. ReadsExact'
  BY <1>3, <1>12 DEF ReadsExact, Seen, Unread
<1> QED
  BY <1>10, <1>11, <1>13, <1>14 DEF CInv

\* A filled cache has no other thread in it, unless it was raced before.
LEMMA CacheRead ==
    ASSUME Types, CInv, NEW t \in Threads, NEW h \in Live, Read(t, h)
    PROVE  CInv'
<1>1. heap[h] \in Objects /\ h # NoHandle /\ heap[h].built
  BY CApiAssumption DEF Types, Read
<1>2. Busy(h) => heap[h].raced
  BY <1>1 DEF Busy, CInv, WarmCacheNotWritten
<1>3. (heap[h].raced \/ Busy(h)) = heap[h].raced
  BY <1>1, <1>2 DEF Objects
<1>4. [heap[h] EXCEPT !.raced = heap[h].raced] = heap[h]
  BY <1>1 DEF Objects
<1>5. heap' = [heap EXCEPT ![h] = heap[h]]
  BY <1>3, <1>4 DEF Read
<1>6. heap' = heap
  BY <1>5 DEF Types
<1>7. read' = Seen(heap[h]) /\ UNCHANGED filling
  BY <1>6 DEF Read
<1>8. ReadsExact'
  BY <1>1, <1>7 DEF ReadsExact, Seen, Unread, CInv, CacheRight
<1>9. Fillers' /\ WarmCacheNotWritten'
  BY <1>6, <1>7 DEF CInv, Fillers, WarmCacheNotWritten
<1>10. \A x \in Live' : CacheRight(heap[x])'
  BY <1>6 DEF CInv, Live, CacheRight
<1> QED
  BY <1>8, <1>9, <1>10 DEF CInv

LEMMA CacheStep == Types /\ CInv /\ [Next]_vars => CInv'
<1> SUFFICES ASSUME Types, CInv, [Next]_vars
             PROVE  CInv'
  OBVIOUS
<1>1. CASE UNCHANGED vars
  <2>1. Fillers' /\ WarmCacheNotWritten' /\ ReadsExact'
    BY <1>1 DEF vars, CInv, Fillers, WarmCacheNotWritten, ReadsExact
  <2>2. \A h \in Live' : CacheRight(heap[h])'
    BY <1>1 DEF vars, CInv, Live, CacheRight
  <2> QED
    BY <2>1, <2>2 DEF CInv
<1>2. ASSUME NEW t \in Threads, NEW c \in Constructors, BadArgument(t, c)
      PROVE  CInv'
  BY <1>2, IdleCall DEF BadArgument
<1>3. ASSUME NEW t \in Threads, NEW c \in Constructors, NEW src \in Live \cup {NoHandle},
             NEW h \in Free, Construct(t, c, src, h)
      PROVE  CInv'
  BY <1>3, FreshIsObject, FreshCache, CacheConstruct DEF Construct
<1>4. ASSUME NEW t \in Threads, NEW c \in Constructors, NEW src \in Live \cup {NoHandle},
             NEW h \in Free, ConstructThrows(t, c, src, h)
      PROVE  CInv'
  BY <1>4, FreshIsObject, FreshCache, CacheConstruct, IdleCall DEF ConstructThrows
<1>5. ASSUME NEW t \in Threads, NEW c \in Constructors, NEW src \in Live \cup {NoHandle},
             NEW h \in Free, ConstructRefused(t, c, src, h)
      PROVE  CInv'
  BY <1>5, IdleCall DEF ConstructRefused
<1>6. ASSUME NEW t \in Threads, NEW h \in Live, EditFails(t, h) \/ Access(t, h)
      PROVE  CInv'
  BY <1>6, IdleCall DEF EditFails, Access
<1> QED
  BY <1>1, <1>2, <1>3, <1>4, <1>5, <1>6, CacheDestroy, CacheEdit, CacheFillBegin,
     CacheFillEnd, CacheRead, NextActions

LEMMA CacheInit == Init => CInv
BY DEF Init, CInv, Fillers, WarmCacheNotWritten, ReadsExact, Live, Unread

LEMMA CacheAlways == Spec => [](Types /\ CInv)
<1>1. Init => Types /\ CInv
  BY TypesInit, CacheInit
<1>2. Types /\ CInv /\ [Next]_vars => (Types /\ CInv)'
  BY TypesStep, CacheStep
<1> QED
  BY <1>1, <1>2, PTL DEF Spec

\* Objects and threads refer to each other as they should, and a cache marked
\* as built holds something.
THEOREM HandlesTyped == Spec => []TypeOK
<1>1. Types /\ CInv => TypeOK
  <2> SUFFICES ASSUME Types, CInv
               PROVE  TypeOK
    OBVIOUS
  <2>1. ASSUME NEW h \in Live, heap[h].built
        PROVE  heap[h].raced \/ heap[h].cache > 0
    BY <2>1 DEF Types, CInv, CacheRight, Objects
  <2> QED
    BY <2>1 DEF TypeOK, Types
<1> QED
  BY <1>1, CacheAlways, PTL

\* Whatever the threads do, a key or a path that is read is the one the handle
\* has now, unless two threads made the first use of that handle at once
\* (key_cstr, build_dep_path_cache).
THEOREM CachesAreExact == Spec => []ReadsExact
<1>1. Types /\ CInv => ReadsExact
  BY DEF CInv
<1> QED
  BY <1>1, CacheAlways, PTL

\* After the first use by one thread alone, readers share a handle safely.
THEOREM WarmCachesAreShared == Spec => []WarmCacheNotWritten
<1>1. Types /\ CInv => WarmCacheNotWritten
  BY DEF CInv
<1> QED
  BY <1>1, CacheAlways, PTL

-----------------------------------------------------------------------------
(* Pointers.                                                               *)

\* No object moves: what the pointers need of the heap is as before.
LEMMA PointersKept ==
    ASSUME PInv, UNCHANGED ptr, Live \subseteq DOMAIN heap',
           \A x \in Live : heap'[x].mem = heap[x].mem,
           \A x \in DOMAIN heap' : Sound(x)'
    PROVE  PInv'
<1>1. ASSUME NEW t \in Threads, ptr[t] # NoPtr
      PROVE  /\ ptr[t].via \in DOMAIN heap' /\ ptr[t].mem \in DOMAIN heap'
             /\ ptr[t].mem = IF heap'[ptr[t].via].mem = NoHandle THEN ptr[t].via
                             ELSE heap'[ptr[t].via].mem
  BY <1>1 DEF PInv, Borrows, PointersLive
<1>2. Borrows'
  BY <1>1 DEF Borrows, Live, NoPtr
<1>3. ASSUME NEW x \in DOMAIN heap', heap'[x].mem # NoHandle
      PROVE  heap'[x].mem \in DOMAIN heap'
  BY <1>3 DEF Sound, Live
<1>4. PointersLive'
  BY <1>1, <1>3 DEF PointersLive, Live, NoPtr
<1> QED
  BY <1>2, <1>4 DEF PInv

\* An object that is kept as it was is sound, as long as what it needs is.
LEMMA SoundKept ==
    ASSUME PInv, NEW x \in Live, Live \subseteq DOMAIN heap',
           \A y \in Live : /\ heap'[y].mem = heap[y].mem /\ heap'[y].base = heap[y].base
                           /\ heap'[y].kind = heap[y].kind
    PROVE  Sound(x)'
<1>1. Sound(x)
  BY DEF PInv, Borrows
<1>2. /\ heap'[x].mem = heap[x].mem /\ heap'[x].base = heap[x].base
      /\ heap'[x].kind = heap[x].kind
  OBVIOUS
<1>3. heap[x].base \in Live => heap'[heap[x].base].base = heap[heap[x].base].base
  OBVIOUS
<1> QED
  BY <1>1, <1>2, <1>3 DEF Sound, Live

\* What a new object borrows, and what it is made from.
Fitting(o) ==
    /\ o.base \in Live \cup {NoHandle}
    /\ o.mem # NoHandle =>
         /\ o.mem \in Live /\ o.base \in Live
         /\ o.mem = o.base \/ heap[o.base].base = o.mem
    /\ o.kind \notin {"reader", "reflection", "batch"} => o.mem = NoHandle
    /\ o.kind = "reader" => o.mem \in {NoHandle, o.base}

\* A new object borrows from one that is there.
LEMMA FreshBorrows ==
    ASSUME Types, PInv, NEW t \in Threads, NEW c \in Constructors,
           NEW src \in Live \cup {NoHandle}, Given(c, t, src)
    PROVE  Fitting(Fresh(c, t, src))
<1> DEFINE via == ptr[t].via
           mem == ptr[t].mem
<1>1. /\ c.kind \in {"reader", "readerExpanded", "reflection"} => c.from = "bytes"
      /\ c.kind = "batch" => c.from = "compiler"
      /\ KindOf(c) = "reader" => c.kind \in {"reader", "readerExpanded", "readerCopy", "readerFile"}
      /\ KindOf(c) # "reader" => KindOf(c) = c.kind
      /\ c.kind = "reader" => KindOf(c) = "reader"
  BY DEF Constructors, OptionsApi, PermutationApi, DefineListApi, ExpandApi, WriterApi,
     ReaderApi, ReflectionApi, CompilerApi, BatchApi, Makes, KindOf, IsReader
<1>2. CASE c.kind \in {"reader", "readerExpanded", "reflection"}
  <2>1. /\ ptr[t] # NoPtr /\ via \in Live /\ mem \in Live
        /\ heap[via].kind \in SourcesOf(c.kind)
        /\ mem = IF heap[via].mem = NoHandle THEN via ELSE heap[via].mem
    BY <1>1, <1>2 DEF Given, PInv, PointersLive, Borrows
  <2>2. Sound(via)
    BY <2>1 DEF PInv, Borrows
  <2>3. mem = via \/ heap[via].base = mem
    BY <2>1, <2>2 DEF Sound, SourcesOf
  <2>4. c.kind = "reader" => mem = via
    BY <2>1, <2>2 DEF Sound, SourcesOf
  <2>5. /\ BaseOf(c, t, src) = via
        /\ MemOf(c, t, src) = IF c.kind = "readerExpanded" THEN NoHandle ELSE mem
    BY <1>2 DEF BaseOf, MemOf
  <2>6. KindOf(c) \in {"reader", "reflection"}
    BY <1>2 DEF KindOf, IsReader
  <2>7. c.kind = "reflection" => KindOf(c) # "reader"
    BY <1>1
  <2> HIDE DEF via, mem
  <2> QED
    BY <1>2, <2>1, <2>3, <2>4, <2>5, <2>6, <2>7 DEF Fresh, Fitting
<1>3. CASE c.kind = "batch"
  <2>1. src \in Live
    BY <1>1, <1>3 DEF Given, Has
  <2>2. BaseOf(c, t, src) = src /\ MemOf(c, t, src) = src /\ KindOf(c) = "batch"
    BY <1>3 DEF BaseOf, MemOf, KindOf, IsReader
  <2> QED
    BY <2>1, <2>2 DEF Fresh, Fitting
<1>4. CASE c.kind \notin {"reader", "readerExpanded", "reflection", "batch"}
  <2>1. BaseOf(c, t, src) = NoHandle /\ MemOf(c, t, src) = NoHandle
    BY <1>4 DEF BaseOf, MemOf
  <2> QED
    BY <2>1 DEF Fresh, Fitting
<1> QED
  BY <1>2, <1>3, <1>4

LEMMA PointersPut ==
    ASSUME PInv, NEW h \in Free, NEW o, Put(h, o), Fitting(o), UNCHANGED ptr
    PROVE  PInv'
<1>1. h \notin Live
  BY DEF Free
<1>2. DOMAIN heap' = Live \cup {h} /\ heap'[h] = o /\ \A x \in Live : heap'[x] = heap[x]
  BY <1>1 DEF Put
<1>3. ASSUME NEW x \in Live
      PROVE  Sound(x)'
  BY <1>2, SoundKept
<1>4. Sound(h)'
  BY <1>1, <1>2 DEF Sound, Fitting, Live
<1> QED
  BY <1>2, <1>3, <1>4, PointersKept

\* One object changes, and not what it borrows.
LEMMA PointersReplace ==
    ASSUME Types, PInv, NEW h \in Live, NEW o, heap' = [heap EXCEPT ![h] = o],
           o.mem = heap[h].mem, o.base = heap[h].base, o.kind = heap[h].kind, UNCHANGED ptr
    PROVE  PInv'
<1>1. DOMAIN heap' = Live /\ heap'[h] = o /\ \A x \in Live \ {h} : heap'[x] = heap[x]
  BY DEF Types, Live
<1>2. ASSUME NEW x \in Live
      PROVE  Sound(x)'
  BY <1>1, SoundKept
<1> QED
  BY <1>1, <1>2, PointersKept

\* A handle goes, with the pointers into it; nothing that stays borrows it.
LEMMA PointersDestroy ==
    ASSUME Types, PInv, NEW t \in Threads, NEW h \in Live, Destroy(t, h)
    PROVE  PInv'
<1>1. DOMAIN heap' = Live \ {h} /\ \A x \in Live \ {h} : heap'[x] = heap[x]
  BY DEF Destroy
<1>2. ASSUME NEW x \in Live
      PROVE  heap[x].base # h /\ heap[x].mem # h
  <2>1. heap[x].base # h
    BY DEF Destroy, Borrowed
  <2>2. Sound(x)
    BY DEF PInv, Borrows
  <2>3. heap[x].base \in Live => heap[heap[x].base].base # h
    BY DEF Destroy, Borrowed
  <2>4. h # NoHandle
    BY CApiAssumption DEF Types
  <2> QED
    BY <2>1, <2>2, <2>3, <2>4 DEF Sound
<1>3. ASSUME NEW u \in Threads, ptr'[u] # NoPtr
      PROVE  ptr'[u] = ptr[u] /\ ptr[u].via # h /\ ptr[u] # NoPtr
  BY <1>3 DEF Destroy
<1>4. ASSUME NEW u \in Threads, ptr'[u] # NoPtr
      PROVE  /\ ptr'[u].via \in DOMAIN heap' /\ ptr'[u].mem \in DOMAIN heap'
             /\ ptr'[u].mem = IF heap'[ptr'[u].via].mem = NoHandle THEN ptr'[u].via
                              ELSE heap'[ptr'[u].via].mem
  BY <1>1, <1>2, <1>3, <1>4 DEF PInv, Borrows, PointersLive
<1>5. ASSUME NEW x \in Live \ {h}
      PROVE  Sound(x)'
  <2>1. Sound(x) /\ heap[x].base # h /\ heap[x].mem # h
    BY <1>2 DEF PInv, Borrows
  <2>2. heap[x].base \in Live => heap'[heap[x].base] = heap[heap[x].base]
    BY <1>1, <2>1
  <2> QED
    BY <1>1, <2>1, <2>2 DEF Sound, Live
<1>6. Borrows'
  BY <1>1, <1>4, <1>5 DEF Borrows, Live, NoPtr
<1>7. PointersLive'
  BY <1>1, <1>2, <1>4 DEF PInv, PointersLive, Live, NoPtr
<1> QED
  BY <1>6, <1>7 DEF PInv

\* An edit ends the pointers into the handle and borrows nothing else.
LEMMA PointersEdit ==
    ASSUME Types, PInv, NEW t \in Threads, NEW h \in Live, Edit(t, h)
    PROVE  PInv'
<1>1. heap[h] \in Objects
  BY DEF Types
<1>2. /\ DOMAIN heap' = Live /\ heap'[h] = Edited(heap[h])
      /\ \A x \in Live \ {h} : heap'[x] = heap[x]
  BY DEF Edit, Types, Live
<1>3. \A x \in Live : /\ heap'[x].mem = heap[x].mem /\ heap'[x].base = heap[x].base
                      /\ heap'[x].kind = heap[x].kind
  BY <1>1, <1>2, EditedIsObject
<1>4. ASSUME NEW u \in Threads, ptr'[u] # NoPtr
      PROVE  ptr'[u] = ptr[u] /\ ptr[u] # NoPtr
  BY <1>4 DEF Edit
<1>5. ASSUME NEW x \in Live
      PROVE  Sound(x)'
  BY <1>2, <1>3, SoundKept
<1>6. Borrows'
  BY <1>2, <1>3, <1>4, <1>5 DEF PInv, Borrows, PointersLive, Live, NoPtr
<1>7. PointersLive'
  BY <1>2, <1>3, <1>4 DEF PInv, Borrows, PointersLive, Live, NoPtr
<1> QED
  BY <1>6, <1>7 DEF PInv

\* An accessor hands out the handle's own memory or what the handle borrows.
LEMMA PointersAccess ==
    ASSUME Types, PInv, NEW t \in Threads, NEW h \in Live, Access(t, h)
    PROVE  PInv'
<1> DEFINE p == [via |-> h, mem |-> IF heap[h].mem = NoHandle THEN h ELSE heap[h].mem]
<1>1. ptr' = [ptr EXCEPT ![t] = p] /\ UNCHANGED heap
  BY DEF Access
<1>2. p.via = h /\ p.mem = (IF heap[h].mem = NoHandle THEN h ELSE heap[h].mem)
  OBVIOUS
<1> HIDE DEF p
<1>3. ptr'[t] = p /\ \A u \in Threads \ {t} : ptr'[u] = ptr[u]
  BY <1>1 DEF Types
<1>4. p.via \in Live /\ p.mem \in Live
  BY <1>2 DEF PInv, PointersLive
<1>5. ASSUME NEW x \in Live
      PROVE  Sound(x)'
  BY <1>1 DEF PInv, Borrows, Sound, Live
<1>6. Borrows'
  BY <1>1, <1>2, <1>3, <1>4, <1>5 DEF PInv, Borrows, Live, NoPtr
<1>7. PointersLive'
  BY <1>1, <1>3, <1>4 DEF PInv, PointersLive, Live, NoPtr
<1> QED
  BY <1>6, <1>7 DEF PInv

LEMMA PointersStep == Types /\ PInv /\ [Next]_vars => PInv'
<1> SUFFICES ASSUME Types, PInv, [Next]_vars
             PROVE  PInv'
  OBVIOUS
<1>1. CASE UNCHANGED <<heap, ptr>>
  <2>1. Live' = Live /\ NoPtr' = NoPtr
    BY <1>1 DEF Live, NoPtr
  <2>2. Borrows' /\ PointersLive'
    BY <1>1, <2>1 DEF PInv, Borrows, PointersLive, Sound
  <2> QED
    BY <2>2 DEF PInv
<1>2. ASSUME NEW t \in Threads, NEW c \in Constructors, NEW src \in Live \cup {NoHandle},
             NEW h \in Free, Construct(t, c, src, h)
      PROVE  PInv'
  BY <1>2, FreshBorrows, PointersPut DEF Construct
<1>3. ASSUME NEW t \in Threads, NEW c \in Constructors, NEW src \in Live \cup {NoHandle},
             NEW h \in Free, ConstructThrows(t, c, src, h)
      PROVE  PInv'
  <2>1. Fitting(Lost)
    BY DEF Lost, Fitting
  <2>2. Put(h, Lost) \/ UNCHANGED heap
    BY <1>3 DEF ConstructThrows
  <2>3. UNCHANGED ptr
    BY <1>3 DEF ConstructThrows
  <2> QED
    BY <1>1, <2>1, <2>2, <2>3, PointersPut
<1>4. ASSUME NEW t \in Threads, NEW h \in Live, FillBegin(t, h) \/ Read(t, h)
      PROVE  PInv'
  <2> DEFINE o == [heap[h] EXCEPT !.raced = @ \/ Busy(h)]
  <2>1. heap' = [heap EXCEPT ![h] = o] /\ UNCHANGED ptr
    BY <1>4 DEF FillBegin, Read
  <2>2. o.mem = heap[h].mem /\ o.base = heap[h].base /\ o.kind = heap[h].kind
    BY DEF Types, Objects
  <2> HIDE DEF o
  <2> QED
    BY <2>1, <2>2, PointersReplace
<1>5. ASSUME NEW t \in Threads, FillEnd(t)
      PROVE  PInv'
  <2> DEFINE h == filling[t]
             o == [heap[h] EXCEPT !.cache = IF heap[h].raced THEN 0 ELSE Filled(heap[h]),
                                  !.built = TRUE]
  <2>1. h \in Live
    BY <1>5 DEF FillEnd, Types
  <2>2. heap' = [heap EXCEPT ![h] = o] /\ UNCHANGED ptr
    BY <1>5 DEF FillEnd
  <2>3. o.mem = heap[h].mem /\ o.base = heap[h].base /\ o.kind = heap[h].kind
    BY <2>1 DEF Types, Objects
  <2> HIDE DEF h, o
  <2> QED
    BY <2>1, <2>2, <2>3, PointersReplace
<1>6. ASSUME NEW t \in Threads, NEW c \in Constructors,
             BadArgument(t, c) \/ (\E src \in Live \cup {NoHandle}, h \in Free :
                                     ConstructRefused(t, c, src, h))
      PROVE  UNCHANGED <<heap, ptr>>
  BY <1>6 DEF BadArgument, ConstructRefused
<1>7. ASSUME NEW t \in Threads, NEW h \in Live, EditFails(t, h)
      PROVE  UNCHANGED <<heap, ptr>>
  BY <1>7 DEF EditFails
<1>8. CASE UNCHANGED vars
  BY <1>1, <1>8 DEF vars
<1> QED
  BY <1>1, <1>2, <1>3, <1>4, <1>5, <1>6, <1>7, <1>8, PointersDestroy, PointersEdit,
     PointersAccess, NextActions

\* A client that ends borrowing readers, reflection views and batch compilers
\* before the handles whose pointers they were made from, and does not ask
\* whether a blob is compressed, holds no pointer into freed memory, however
\* many threads, handles and borrowings there are.
THEOREM PointersStayLive == Spec => []PointersLive
<1>1. Init => Types /\ PInv
  BY TypesInit DEF Init, PInv, Borrows, PointersLive, Live
<1>2. Types /\ PInv /\ [Next]_vars => (Types /\ PInv)'
  BY TypesStep, PointersStep
<1>3. PInv => PointersLive
  BY DEF PInv
<1> QED
  BY <1>1, <1>2, <1>3, PTL DEF Spec
=============================================================================
