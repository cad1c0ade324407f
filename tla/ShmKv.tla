------------------------------- MODULE ShmKv -------------------------------
(***************************************************************************)
(* The shared-memory key/value store of src/common/shm/ngx_wa_shm_kv.c and *)
(* its proxy-wasm host functions: a tree of versioned entries, kept in     *)
(* slab memory, with the LRU and SLRU eviction queues.                     *)
(*                                                                         *)
(* Every operation on the tree runs under the zone's mutex and is one      *)
(* step.  A get, though, only finds the entry under the mutex: the host    *)
(* function reads the value's length and bytes through a pointer into the  *)
(* entry after it has released the mutex, with a call of the Wasm          *)
(* allocator in between, so these are steps of their own.                  *)
(*                                                                         *)
(* The tree is searched by the key's hash alone: Keys are the hashes.      *)
(***************************************************************************)
EXTENDS Integers, FiniteSets, Sequences, Functions

CONSTANTS
    Workers,    \* worker processes attached to the zone
    Keys,       \* hashes of the keys
    Values,     \* values the filters store
    ValLen,     \* length of each value
    NodeSize,   \* sizeof(ngx_wa_shm_kv_node_t) + the length of a key
    MinShift,   \* shpool->min_shift
    PageShift,  \* ngx_pagesize_shift
    Pages,      \* pages of the zone
    CasWidth,   \* 2^32: the versions an uint32_t tells apart
    Garbage     \* the bytes of memory that holds no value

ASSUME ValuesAssumption == ValLen \in [Values -> Nat] /\ Garbage \notin Values
ASSUME SizesAssumption ==
    /\ NodeSize \in Nat \ {0}
    /\ MinShift \in Nat \ {0}
    /\ PageShift \in Nat
    /\ MinShift < PageShift
    /\ Pages \in Nat \ {0}
ASSUME CasAssumption == CasWidth \in Nat /\ CasWidth > 1

VARIABLES
    eviction,   \* shm->eviction
    tree,       \* kv->rbtree: key |-> its node
    queues,     \* the eviction queues: keys, head first; LRU has only one
    nelts,      \* kv->nelts
    reading,    \* the gets that have left the mutex and not yet returned
    recent,     \* history: <<x, y>> if x has been used more recently than y
    torn,       \* history: a freed node was used as if it were in the tree
    reply       \* history: the answer given by the last operation

zone == <<tree, queues, nelts>>
vars == <<eviction, zone, reading, recent, torn, reply>>

PageSize == 2 ^ PageShift
SlabMax == PageSize \div 2
NQueues == PageShift - MinShift + 1

Evicting == eviction # "none"
Size(v) == NodeSize + ValLen[v]

----------------------------------------------------------------------------
\* Slot n has the sizes up to 2^(MinShift + n), the last one those of pages.
slru_index_for_size(size) ==
    IF size > SlabMax THEN NQueues - 1
    ELSE Cardinality({s \in MinShift .. PageShift - 1 : 2 ^ s < size})

(***************************************************************************)
(* The nginx slab allocator, which is not part of the repository: a node   *)
(* larger than half a page takes whole pages in a row, a smaller one a     *)
(* chunk of a page that only holds chunks of its slot.                     *)
(***************************************************************************)
OnPage(nodes, p) == {k \in DOMAIN nodes : p \in nodes[k].pages}

\* The places there are for a node of that size, beside the nodes; the
\* allocator takes one of them.
SlabPlaces(nodes, size) ==
    LET slot == slru_index_for_size(size)
        free == {p \in 1 .. Pages : OnPage(nodes, p) = {}}
        shared == {p \in (1 .. Pages) \ free :
                      /\ \A k \in OnPage(nodes, p) : nodes[k].slot = slot
                      /\ Cardinality(OnPage(nodes, p)) < PageSize \div 2 ^ (MinShift + slot)}
        row == (size + PageSize - 1) \div PageSize
    IN IF size > SlabMax
       THEN {P \in {p .. p + row - 1 : p \in 1 .. Pages} : P \subseteq free}
       ELSE {{p} : p \in IF shared # {} THEN shared ELSE free}

SlabPlace(nodes, size) ==
    LET places == SlabPlaces(nodes, size)
    IN  {P \in places : \A Q \in places : \A q \in Q : \E p \in P : p <= q}

----------------------------------------------------------------------------
queue_for_node(v) ==
    IF eviction = "lru" THEN 0 ELSE slru_index_for_size(Size(v))

\* ngx_queue_remove() of the node of k.
Unlink(q, k) ==
    LET p == CHOOSE p \in DOMAIN q : q[p] = k
    IN  IF k \in Range(q) THEN SubSeq(q, 1, p - 1) \o SubSeq(q, p + 1, Len(q)) ELSE q

Unlinked(qs, k) == [i \in DOMAIN qs |-> Unlink(qs[i], k)]

\* ... and ngx_queue_insert_head() of the node of k, whose value is v.
Requeued(qs, k, v) ==
    IF Evicting
    THEN [Unlinked(qs, k) EXCEPT ![queue_for_node(v)] = <<k>> \o @]
    ELSE qs

Queued(qs) == UNION {Range(qs[i]) : i \in DOMAIN qs}

(***************************************************************************)
(* Calling lru_expire() or slru_expire() again and again takes the nodes   *)
(* from the tail of the queue of the new node's size, then of the larger   *)
(* sizes, then of the smaller ones.  A cut <<d, n>> is how far this may    *)
(* have got: the queues before the d-th are empty, and that one has n      *)
(* nodes left.                                                             *)
(***************************************************************************)
Visited(size, d) ==
    LET start == IF eviction = "lru" THEN 0 ELSE slru_index_for_size(size)
    IN  IF start + d <= NQueues THEN start + d - 1 ELSE NQueues - d

Cuts(size) ==
    UNION {{d} \X (0 .. Len(queues[Visited(size, d)])) : d \in 1 .. NQueues}

Left(size, cut) ==
    [i \in DOMAIN queues |->
        IF \E d \in 1 .. cut[1] - 1 : Visited(size, d) = i THEN <<>>
        ELSE IF Visited(size, cut[1]) = i THEN SubSeq(queues[i], 1, cut[2])
        ELSE queues[i]]

Lost(size, cut) == Queued(queues) \ Queued(Left(size, cut))

Kept(K) == [k \in DOMAIN tree \ K |-> tree[k]]

\* The cuts at which ngx_slab_calloc_locked() succeeds.
Enough(size) ==
    {cut \in Cuts(size) : SlabPlaces(Kept(Lost(size, cut)), size) # {}}

\* The loop evicts one node at a time and stops at the first that is enough.
Expired(size) ==
    LET enough == Enough(size)
    IN  {cut \in enough : \A c \in enough :
            cut[1] < c[1] \/ (cut[1] = c[1] /\ cut[2] >= c[2])}

CasOf(k) == IF k \in DOMAIN tree THEN tree[k].cas ELSE 0

\* Fault: the version is not kept to its width.
FaultNextCas(c) == c + 1

NextCas(c) == (c + 1) % CasWidth

\* Fault: version 0 writes whether the entry exists or not.
FaultCasMatches(k, c) == c = CasOf(k) \/ c = 0

CasMatches(k, c) == c = CasOf(k)

\* Entries go, or k is used.
Forgotten(K) == {p \in recent : p[1] \notin K /\ p[2] \notin K}
Used(K, k) == Forgotten(K \cup {k}) \cup ({k} \X (DOMAIN tree \ (K \cup {k})))

\* The gets whose pointer leads into a node of K that is freed.
Dangling(K) ==
    [w \in Workers |->
        {[r EXCEPT !.live = @ /\ r.key \notin K] : r \in reading[w]}]

----------------------------------------------------------------------------
Init ==
    /\ eviction \in {"lru", "slru", "none"}
    /\ tree = [k \in {} |-> {}]
    /\ queues = [i \in 0 .. NQueues - 1 |-> <<>>]
    /\ nelts = 0
    /\ reading = [w \in Workers |-> {}]
    /\ recent = {}
    /\ torn = FALSE
    /\ reply = [rc |-> "none"]

Idle(w) == ~torn /\ reading[w] = {}

GetMiss(w, k) ==
    /\ Idle(w)
    /\ k \notin DOMAIN tree
    /\ reply' = [rc |-> "notfound"]
    /\ UNCHANGED <<eviction, zone, reading, recent, torn>>

\* Fault: a get leaves the entry where it is in its queue.
FaultGetLocked(w, k) ==
    /\ Idle(w)
    /\ k \in DOMAIN tree
    /\ recent' = Used({}, k)
    /\ reading' = [reading EXCEPT ![w] =
           {[key |-> k, val |-> tree[k].val, cas |-> tree[k].cas,
             live |-> TRUE, room |-> -1]}]
    /\ UNCHANGED <<eviction, zone, torn, reply>>

\* Under the mutex: find the entry, refresh its place, read its version.
GetLocked(w, k) ==
    /\ Idle(w)
    /\ k \in DOMAIN tree
    /\ queues' = Requeued(queues, k, tree[k].val)
    /\ recent' = Used({}, k)
    /\ reading' = [reading EXCEPT ![w] =
           {[key |-> k, val |-> tree[k].val, cas |-> tree[k].cas,
             live |-> TRUE, room |-> -1]}]
    /\ UNCHANGED <<eviction, tree, nelts, torn, reply>>

\* What the pointer into the node leads to, once the mutex is released.
Pointed(r) == IF r.live THEN {tree[r.key].val} ELSE Values \cup {Garbage}

LenOf(v) == IF v = Garbage THEN 0 ELSE ValLen[v]

\* The value's length is read and the Wasm allocator called.
GetAlloc(w) ==
    /\ ~torn
    /\ \E r \in reading[w] :
          /\ r.room = -1
          /\ \E v \in Pointed(r) :
                reading' = [reading EXCEPT ![w] = {[r EXCEPT !.room = LenOf(v)]}]
    /\ UNCHANGED <<eviction, zone, recent, torn, reply>>

GetTrap(w) ==
    /\ ~torn
    /\ \E r \in reading[w] : r.room = -1
    /\ reading' = [reading EXCEPT ![w] = {}]
    /\ reply' = [rc |-> "trap"]
    /\ UNCHANGED <<eviction, zone, recent, torn>>

\* Length and bytes are read again and handed to the filter.
GetCopy(w) ==
    /\ ~torn
    /\ \E r \in reading[w] :
          /\ r.room # -1
          /\ \E v \in Pointed(r) :
                reply' = [rc |-> "read", val |-> v, of |-> r.val,
                          fits |-> LenOf(v) <= r.room]
    /\ reading' = [reading EXCEPT ![w] = {}]
    /\ UNCHANGED <<eviction, zone, recent, torn>>

SetMismatch(w, k, c) ==
    /\ Idle(w)
    /\ ~CasMatches(k, c)
    /\ reply' = [rc |-> "mismatch"]
    /\ UNCHANGED <<eviction, zone, reading, recent, torn>>

Delete(w, k, c) ==
    /\ Idle(w)
    /\ CasMatches(k, c)
    /\ k \in DOMAIN tree
    /\ tree' = Kept({k})
    /\ queues' = Unlinked(queues, k)
    /\ nelts' = nelts - 1
    /\ recent' = Forgotten({k})
    /\ reading' = Dangling({k})
    /\ reply' = [rc |-> "written", of |-> c]
    /\ UNCHANGED <<eviction, torn>>

DeleteMissing(w, k, c) ==
    /\ Idle(w)
    /\ CasMatches(k, c)
    /\ k \notin DOMAIN tree
    /\ reply' = [rc |-> "mismatch"]
    /\ UNCHANGED <<eviction, zone, reading, recent, torn>>

Fits(k, v) == k \in DOMAIN tree /\ ValLen[v] <= ValLen[tree[k].val]

\* A value no longer than the one stored takes its place.
SetInPlace(w, k, v, c) ==
    /\ Idle(w)
    /\ CasMatches(k, c)
    /\ Fits(k, v)
    /\ tree' = [tree EXCEPT ![k].val = v, ![k].cas = NextCas(@)]
    /\ queues' = Requeued(queues, k, v)
    /\ recent' = Used({}, k)
    /\ reply' = [rc |-> "written", of |-> c]
    /\ UNCHANGED <<eviction, nelts, reading, torn>>

\* Fault: the replaced entry is counted as a new one.
FaultCounted(lost, k) == nelts - Cardinality(lost) + 1

\* kv->nelts once the nodes of lost are gone and k is in the tree.
Counted(lost, k) ==
    nelts - Cardinality(lost) + (IF k \in DOMAIN tree THEN 0 ELSE 1)

(***************************************************************************)
(* Otherwise a new node is allocated beside the old one, evicting nodes    *)
(* until there is a place, and then replaces it.                           *)
(***************************************************************************)
Allocates(w, k, v, c) == Idle(w) /\ CasMatches(k, c) /\ ~Fits(k, v)

SetAlloc(w, k, v, c) ==
    /\ Allocates(w, k, v, c)
    /\ \E cut \in Expired(Size(v)) :
          LET lost == Lost(Size(v), cut)
          IN  /\ k \notin lost
              /\ \E pages \in SlabPlace(Kept(lost), Size(v)) :
                    tree' = [x \in (DOMAIN tree \ lost) \cup {k} |->
                                IF x = k
                                THEN [val |-> v, cas |-> NextCas(CasOf(k)),
                                      slot |-> slru_index_for_size(Size(v)), pages |-> pages]
                                ELSE tree[x]]
              /\ queues' = Requeued(Left(Size(v), cut), k, v)
              /\ nelts' = Counted(lost, k)
              /\ recent' = Used(lost, k)
              /\ reading' = Dangling(lost \cup {k})
    /\ reply' = [rc |-> "written", of |-> c]
    /\ UNCHANGED <<eviction, torn>>

(***************************************************************************)
(* The old node may be among the evicted: it is then unlinked, read and    *)
(* freed a second time.  What the zone holds afterwards is undefined, and  *)
(* nothing is said of it.                                                  *)
(***************************************************************************)
SetTorn(w, k, v, c) ==
    /\ Allocates(w, k, v, c)
    /\ \E cut \in Expired(Size(v)) : k \in Lost(Size(v), cut)
    /\ torn' = TRUE
    /\ tree' = Kept(DOMAIN tree)
    /\ queues' = [i \in DOMAIN queues |-> <<>>]
    /\ nelts' = 0
    /\ reading' = [x \in Workers |-> {}]
    /\ recent' = {}
    /\ reply' = [rc |-> "undefined"]
    /\ UNCHANGED eviction

\* No room even once everything the policy may evict is gone.
SetNoMem(w, k, v, c) ==
    LET lost == Queued(queues) IN
    /\ Allocates(w, k, v, c)
    /\ Enough(Size(v)) = {}
    /\ tree' = Kept(lost)
    /\ queues' = [i \in DOMAIN queues |-> <<>>]
    /\ nelts' = nelts - Cardinality(lost)
    /\ recent' = Forgotten(lost)
    /\ reading' = Dangling(lost)
    /\ reply' = [rc |-> "nomem"]
    /\ UNCHANGED <<eviction, torn>>

Undefined == torn /\ UNCHANGED vars

Next ==
    \/ \E w \in Workers, k \in Keys :
          \/ GetMiss(w, k)
          \/ GetLocked(w, k)
          \/ \E c \in 0 .. CasWidth - 1 :
                \/ SetMismatch(w, k, c)
                \/ Delete(w, k, c)
                \/ DeleteMissing(w, k, c)
                \/ \E v \in Values :
                      \/ SetInPlace(w, k, v, c)
                      \/ SetAlloc(w, k, v, c)
                      \/ SetTorn(w, k, v, c)
                      \/ SetNoMem(w, k, v, c)
    \/ \E w \in Workers : GetAlloc(w) \/ GetTrap(w) \/ GetCopy(w)
    \/ Undefined

Spec == Init /\ [][Next]_vars

----------------------------------------------------------------------------
Nodes == [val : Values, cas : 0 .. CasWidth - 1,
          slot : 0 .. NQueues - 1, pages : SUBSET (1 .. Pages)]

(***************************************************************************)
(* Versions keep the width of an uint32_t, nodes lie inside the zone, a    *)
(* worker runs one get at a time.                                          *)
(***************************************************************************)
TypeOK ==
    /\ eviction \in {"lru", "slru", "none"}
    /\ DOMAIN tree \subseteq Keys
    /\ \A k \in DOMAIN tree : tree[k] \in Nodes
    /\ \A i \in 0 .. NQueues - 1 : Range(queues[i]) \subseteq Keys
    /\ nelts \in Nat
    /\ \A w \in Workers : Cardinality(reading[w]) <= 1
    /\ torn \in BOOLEAN

(***************************************************************************)
(* The tree, the eviction queues and the counter tell the same story: with *)
(* a policy, every entry is queued exactly once, in the queue of the size  *)
(* it has now, nothing else is queued, and kv->nelts (which bounds the     *)
(* pages of keys handed to Lua) counts the entries.                        *)
(***************************************************************************)
QueuesMatchTree ==
    /\ nelts = Cardinality(DOMAIN tree)
    /\ \A i \in DOMAIN queues :
          /\ IsInjective(queues[i])
          /\ Range(queues[i]) =
                {k \in DOMAIN tree : Evicting /\ queue_for_node(tree[k].val) = i}

\* How late slru_expire() comes to queue i for a node of that size.
Distance(size, i) ==
    LET start == slru_index_for_size(size) IN
    IF eviction = "lru" THEN 0
    ELSE IF i >= start THEN i - start ELSE NQueues - i

\* To make room for a node of that size, y goes before x.
GoesBefore(size, y, x) ==
    LET dx == Distance(size, queue_for_node(tree[x].val))
        dy == Distance(size, queue_for_node(tree[y].val))
    IN  dy < dx \/ (dy = dx /\ <<x, y>> \in recent)

TakesLeastUseful ==
    \A k \in DOMAIN tree' :
        (k \notin DOMAIN tree \/ tree'[k] # tree[k]) =>
            \A y \in DOMAIN tree \ DOMAIN tree', x \in DOMAIN tree' \cap DOMAIN tree :
                GoesBefore(Size(tree'[k].val), y, x)

(***************************************************************************)
(* An eviction takes the right victims (docs/SLRU.md): while some entry    *)
(* survives a set, the evicted ones were of a size tried no later than     *)
(* the survivor's and, at the same size, used less recently, counting      *)
(* every get and set by any worker as a use.                               *)
(***************************************************************************)
VictimsLeastUseful == [][TakesLeastUseful]_vars

(***************************************************************************)
(* The store keeps the promise of the versioned map: whatever workers      *)
(* interleave, an entry changes only by a write naming its version, other  *)
(* entries are untouched but for evictions, and a refused write changes    *)
(* nothing.                                                                *)
(***************************************************************************)
Store == [k \in DOMAIN tree |-> [val |-> tree[k].val, cas |-> tree[k].cas]]
Answer == IF reply.rc = "written" THEN <<reply.rc, reply.of>> ELSE <<reply.rc>>
Map == INSTANCE ShmKvStore
           WITH store <- Store, evicting <- Evicting, sound <- ~torn,
                reply <- Answer
MapSpec == Map!Spec

(***************************************************************************)
(* docs/adr/004-shm.md promises "single-key transactions with the `cas`    *)
(* parameter": the value a get hands out is the one the version handed out *)
(* with it belongs to.                                                     *)
(***************************************************************************)
ReadIsVersioned == reply.rc = "read" => reply.val = reply.of

(***************************************************************************)
(* docs/DIRECTIVES.md: "Least recently used entries are evicted until      *)
(* enough space is available for storing the new item."  So a set that     *)
(* evicts goes on to store its item, and never works on an entry that its  *)
(* own evictions have freed.                                               *)
(***************************************************************************)
EvictionEndsInWrite == ~torn
============================================================================
