-------------------------- MODULE ShmKvInvariant ---------------------------
(***************************************************************************)
(* The inductive invariant of the shared-memory key/value store, for any   *)
(* number of workers, any keys, values and sizes, and each of the three    *)
(* eviction policies: it ties the tree, the eviction queues, the entry     *)
(* counter and the pointers of unfinished gets together.                   *)
(***************************************************************************)
EXTENDS ShmKv, FiniteSetTheorems, TLAPS

QueueIds == 0 .. NQueues - 1

\* x stands before y in the queue only if <<x, y>> is in the relation.
Sorted(q, before) == \A a, b \in DOMAIN q : a < b => <<q[a], q[b]>> \in before

\* The queues hold the keys of at, each once and in the queue at says.
Sound(qs, at, before) ==
    /\ qs \in [QueueIds -> Seq(Keys)]
    /\ \A i \in QueueIds :
          /\ IsInjective(qs[i])
          /\ Range(qs[i]) = {x \in DOMAIN at : at[x] = i}
          /\ Sorted(qs[i], before)

\* ... once the keys of K are gone, and once k is at the head of queue j.
Rest(at, K) == [x \in DOMAIN at \ K |-> at[x]]
Moved(at, k, j) == [x \in DOMAIN at \cup {k} |-> IF x = k THEN j ELSE at[x]]
Fronted(qs, k, j) == [Unlinked(qs, k) EXCEPT ![j] = <<k>> \o @]

\* A new relation has what the old one had, among the elements of D.
Keeps(before, new, D) == \A x, y \in D : <<x, y>> \in before => <<x, y>> \in new
Newest(new, k, D) == \A x \in D : <<k, x>> \in new

\* The queue of each entry.
Place ==
    [x \in IF Evicting THEN DOMAIN tree ELSE {} |-> queue_for_node(tree[x].val)]

Gets == [key : Keys, val : Values, cas : 0 .. CasWidth - 1, live : BOOLEAN, room : Int]

Entries ==
    /\ DOMAIN tree \subseteq Keys
    /\ IsFiniteSet(DOMAIN tree)
    /\ \A x \in DOMAIN tree : tree[x] \in Nodes
    /\ nelts = Cardinality(DOMAIN tree)

Readers ==
    /\ reading \in [Workers -> SUBSET Gets]
    /\ \A w \in Workers : \A r, s \in reading[w] : r = s
    /\ \A w \in Workers : \A r \in reading[w] : r.live => r.key \in DOMAIN tree

Types ==
    /\ eviction \in {"lru", "slru", "none"}
    /\ torn \in BOOLEAN
    /\ Entries
    /\ Readers

KvInv == Types /\ Sound(queues, Place, recent)

----------------------------------------------------------------------------
(***************************************************************************)
(* slru_index_for_size() names one of the queues, whatever the size.       *)
(***************************************************************************)
LEMMA IndexInRange ==
    ASSUME NEW size
    PROVE  slru_index_for_size(size) \in QueueIds
<1> DEFINE A == MinShift .. PageShift - 1
           S == {s \in A : 2 ^ s < size}
<1>1. /\ MinShift \in Nat /\ PageShift \in Nat /\ MinShift < PageShift
    BY SizesAssumption, Zenon
<1>2. IsFiniteSet(A) /\ Cardinality(A) = PageShift - MinShift
    <2>1. /\ IsFiniteSet(MinShift .. PageShift - 1)
          /\ Cardinality(MinShift .. PageShift - 1) =
                IF MinShift > PageShift - 1 THEN 0 ELSE (PageShift - 1) - MinShift + 1
        BY <1>1, FS_Interval
    <2> QED
        BY <1>1, <2>1
<1>3. S \subseteq A
    BY Zenon
<1>4. IsFiniteSet(S) /\ Cardinality(S) <= Cardinality(A)
    <2> HIDE DEF A, S
    <2> QED
        BY <1>2, <1>3, FS_Subset, Zenon
<1>5. Cardinality(S) \in Nat
    BY <1>4, FS_CardinalityType, Zenon
<1>6. Cardinality(S) \in QueueIds
    <2> HIDE DEF S, A
    <2> QED
        BY <1>1, <1>2, <1>4, <1>5 DEF QueueIds, NQueues
<1>7. NQueues - 1 \in QueueIds
    BY <1>1 DEF QueueIds, NQueues
<1> QED
    BY <1>6, <1>7, Zenon DEF slru_index_for_size

(***************************************************************************)
(* ... and so does ngx_wa_shm_kv_queue_for_node(), for LRU and SLRU.       *)
(***************************************************************************)
LEMMA QueueInRange ==
    ASSUME NEW v
    PROVE  queue_for_node(v) \in QueueIds
<1>1. 0 \in QueueIds
    BY SizesAssumption DEF QueueIds, NQueues
<1> QED
    BY <1>1, IndexInRange, Zenon DEF queue_for_node

(***************************************************************************)
(* A queue in which no key stands has no places.                           *)
(***************************************************************************)
LEMMA NothingQueued ==
    ASSUME NEW q, Range(q) = {}
    PROVE  DOMAIN q = {}
<1> SUFFICES ASSUME NEW a \in DOMAIN q PROVE FALSE
    BY Zenon
<1>1. q[a] \in Range(q)
    BY Zenon DEF Range
<1> QED
    BY <1>1, Zenon

(***************************************************************************)
(* Two sequences in a row.                                                 *)
(***************************************************************************)
LEMMA InARow ==
    ASSUME NEW S, NEW q \in Seq(S), NEW r \in Seq(S)
    PROVE  /\ q \o r \in Seq(S) /\ Len(q \o r) = Len(q) + Len(r)
           /\ \A j \in 1 .. Len(q) + Len(r) :
                 (q \o r)[j] = IF j <= Len(q) THEN q[j] ELSE r[j - Len(q)]
OBVIOUS

(***************************************************************************)
(* A sequence without its p-th element: the elements from p on move one    *)
(* place forward.                                                          *)
(***************************************************************************)
LEMMA WithoutShape ==
    ASSUME NEW S, NEW q \in Seq(S), NEW p \in DOMAIN q
    PROVE  LET r == SubSeq(q, 1, p - 1) \o SubSeq(q, p + 1, Len(q))
           IN  /\ r \in Seq(S)
               /\ DOMAIN r = 1 .. Len(q) - 1
               /\ \A j \in 1 .. Len(q) - 1 : r[j] = IF j < p THEN q[j] ELSE q[j + 1]
<1> DEFINE u == SubSeq(q, 1, p - 1)
           w == SubSeq(q, p + 1, Len(q))
<1>1. p \in 1 .. Len(q) /\ Len(q) \in Nat
    OBVIOUS
<1>2. /\ u \in Seq(S) /\ Len(u) = p - 1
      /\ \A j \in 1 .. p - 1 : u[j] = q[j]
    BY <1>1
<1>3. /\ w \in Seq(S) /\ Len(w) = Len(q) - p
      /\ \A j \in 1 .. Len(q) - p : w[j] = q[p + j]
    BY <1>1
<1>4. /\ u \o w \in Seq(S) /\ Len(u \o w) = Len(q) - 1
      /\ \A j \in 1 .. Len(q) - 1 : (u \o w)[j] = IF j < p THEN u[j] ELSE w[j - (p - 1)]
    <2> HIDE DEF u, w
    <2>1. /\ u \o w \in Seq(S) /\ Len(u \o w) = Len(u) + Len(w)
          /\ \A j \in 1 .. Len(u) + Len(w) :
                (u \o w)[j] = IF j <= Len(u) THEN u[j] ELSE w[j - Len(u)]
        BY <1>2, <1>3, InARow, Zenon
    <2>2. /\ Len(u) = p - 1 /\ Len(u) + Len(w) = Len(q) - 1
          /\ \A j \in 1 .. Len(q) - 1 : (j <= Len(u)) = (j < p)
        BY <1>1, <1>2, <1>3, SMTT(30)
    <2> QED
        BY <2>1, <2>2, Zenon
<1>5. ASSUME NEW j \in 1 .. Len(q) - 1
      PROVE  (u \o w)[j] = IF j < p THEN q[j] ELSE q[j + 1]
    <2> HIDE DEF u, w
    <2>1. CASE j < p
        BY <1>1, <1>2, <1>4, <2>1
    <2>2. CASE ~(j < p)
        <3>1. j - (p - 1) \in 1 .. Len(q) - p
            BY <1>1, <2>2
        <3>2. w[j - (p - 1)] = q[p + (j - (p - 1))]
            BY <1>3, <3>1, Zenon
        <3>3. p + (j - (p - 1)) = j + 1 /\ ~(j < p)
            BY <1>1, <2>2
        <3>4. w[j - (p - 1)] = q[j + 1]
            BY <3>2, <3>3, Zenon
        <3> QED
            BY <1>4, <3>3, <3>4, Zenon
    <2> QED
        BY <2>1, <2>2, Zenon
<1>6. DOMAIN (u \o w) = 1 .. Len(q) - 1
    <2> HIDE DEF u, w
    <2> QED
        BY <1>4
<1> QED
    BY <1>4, <1>5, <1>6, Zenon

(***************************************************************************)
(* ngx_queue_remove() takes one key out and keeps the order of the others. *)
(***************************************************************************)
LEMMA UnlinkShape ==
    ASSUME NEW S, NEW q \in Seq(S), IsInjective(q), NEW k, NEW before, Sorted(q, before)
    PROVE  /\ Unlink(q, k) \in Seq(S)
           /\ IsInjective(Unlink(q, k))
           /\ Range(Unlink(q, k)) = Range(q) \ {k}
           /\ Sorted(Unlink(q, k), before)
<1>1. CASE k \notin Range(q)
    BY <1>1, Zenon DEF Unlink
<1>2. CASE k \in Range(q)
    <2> DEFINE p == CHOOSE p \in DOMAIN q : q[p] = k
               u == SubSeq(q, 1, p - 1) \o SubSeq(q, p + 1, Len(q))
    <2>1. p \in DOMAIN q /\ q[p] = k
        BY <1>2, Zenon DEF Range
    <2>2. Unlink(q, k) = u
        BY <1>2, Zenon DEF Unlink
    <2> HIDE DEF p
    <2>3. /\ u \in Seq(S)
          /\ DOMAIN u = 1 .. Len(q) - 1
          /\ \A j \in 1 .. Len(q) - 1 : u[j] = IF j < p THEN q[j] ELSE q[j + 1]
        BY <2>1, WithoutShape, Zenon
    <2> HIDE DEF u
    <2>4. DOMAIN q = 1 .. Len(q) /\ Len(q) \in Nat
        OBVIOUS
    <2> DEFINE at(j) == IF j < p THEN j ELSE j + 1
    <2>9. ASSUME NEW j \in DOMAIN u
          PROVE  at(j) \in DOMAIN q /\ at(j) # p /\ u[j] = q[at(j)]
        BY <2>1, <2>3, <2>4
    <2>10. \A i, j \in DOMAIN u : i < j <=> at(i) < at(j)
        BY <2>1, <2>3, <2>4
    <2>11. \A i, j \in DOMAIN u : at(i) = at(j) => i = j
        BY <2>1, <2>3, <2>4
    <2> HIDE DEF at
    <2>5. IsInjective(u)
        BY <2>9, <2>11, Zenon DEF IsInjective
    <2>6. Sorted(u, before)
        BY <2>9, <2>10, Zenon DEF Sorted
    <2>7. Range(u) \subseteq Range(q) \ {k}
        BY <2>1, <2>9 DEF Range, IsInjective
    <2>8. ASSUME NEW x \in Range(q) \ {k} PROVE x \in Range(u)
        <3>1. PICK j \in DOMAIN q : q[j] = x
            BY Zenon DEF Range
        <3>2. CASE j < p
            BY <2>1, <2>3, <2>4, <3>1, <3>2 DEF Range
        <3>3. CASE j > p
            <4>1. j - 1 \in 1 .. Len(q) - 1 /\ ~(j - 1 < p) /\ (j - 1) + 1 = j
                BY <2>1, <2>4, <3>3
            <4> QED
                BY <2>3, <3>1, <4>1, Zenon DEF Range
        <3> QED
            BY <2>1, <2>4, <3>1, <3>2, <3>3
    <2> QED
        BY <2>2, <2>3, <2>5, <2>6, <2>7, <2>8, Zenon
<1> QED
    BY <1>1, <1>2, Zenon

----------------------------------------------------------------------------
(***************************************************************************)
(* Removing a node from its queue, as a delete does, leaves the other      *)
(* nodes queued where they were.                                           *)
(***************************************************************************)
LEMMA UnlinkedSound ==
    ASSUME NEW qs, NEW at, NEW before, Sound(qs, at, before), NEW k,
           NEW new, Keeps(before, new, DOMAIN at \ {k})
    PROVE  Sound(Unlinked(qs, k), Rest(at, {k}), new)
<1> DEFINE u == Unlinked(qs, k)
           kept == Rest(at, {k})
<1>1. /\ qs \in [QueueIds -> Seq(Keys)]
      /\ \A i \in QueueIds :
            /\ IsInjective(qs[i])
            /\ Range(qs[i]) = {x \in DOMAIN at : at[x] = i}
            /\ Sorted(qs[i], before)
    BY Zenon DEF Sound
<1>2. DOMAIN u = QueueIds /\ \A i \in QueueIds : u[i] = Unlink(qs[i], k)
    BY <1>1, Zenon DEF Unlinked
<1>3. ASSUME NEW i \in QueueIds
      PROVE  /\ u[i] \in Seq(Keys)
             /\ IsInjective(u[i])
             /\ Range(u[i]) = {x \in DOMAIN kept : kept[x] = i}
             /\ Sorted(u[i], new)
    <2>1. /\ u[i] \in Seq(Keys)
          /\ IsInjective(u[i])
          /\ Range(u[i]) = Range(qs[i]) \ {k}
          /\ Sorted(u[i], before)
        BY <1>1, <1>2, UnlinkShape
    <2>2. Range(u[i]) = {x \in DOMAIN kept : kept[x] = i}
        BY <1>1, <2>1, Zenon DEF Rest
    <2>3. \A a \in DOMAIN u[i] : u[i][a] \in DOMAIN at \ {k}
        BY <1>1, <2>1, Zenon DEF Range
    <2>4. Sorted(u[i], new)
        BY <2>1, <2>3, Zenon DEF Sorted, Keeps
    <2> QED
        BY <2>1, <2>2, <2>4, Zenon
<1>4. u \in [QueueIds -> Seq(Keys)]
    BY <1>2, <1>3, Zenon DEF Unlinked
<1> HIDE DEF u, kept
<1>5. Sound(u, kept, new)
    BY <1>3, <1>4, Zenon DEF Sound
<1> QED
    BY <1>5, Zenon DEF u, kept

(***************************************************************************)
(* ngx_queue_insert_head() of a key that is not in the queue and was used  *)
(* after all that are.                                                     *)
(***************************************************************************)
LEMMA HeadShape ==
    ASSUME NEW S, NEW q \in Seq(S), NEW k \in S, IsInjective(q), k \notin Range(q),
           NEW before, Sorted(q, before), \A x \in Range(q) : <<k, x>> \in before
    PROVE  /\ <<k>> \o q \in Seq(S)
           /\ IsInjective(<<k>> \o q)
           /\ Range(<<k>> \o q) = Range(q) \cup {k}
           /\ Sorted(<<k>> \o q, before)
<1> DEFINE h == <<k>> \o q
<1>1. /\ h \in Seq(S) /\ Len(h) = 1 + Len(q)
      /\ \A j \in 1 .. 1 + Len(q) : h[j] = IF j <= 1 THEN k ELSE q[j - 1]
    <2>1. <<k>> \in Seq(S) /\ Len(<<k>>) = 1 /\ <<k>>[1] = k
        OBVIOUS
    <2>2. /\ h \in Seq(S) /\ Len(h) = Len(<<k>>) + Len(q)
          /\ \A j \in 1 .. Len(<<k>>) + Len(q) :
                h[j] = IF j <= Len(<<k>>) THEN <<k>>[j] ELSE q[j - Len(<<k>>)]
        BY <2>1, InARow, Zenon
    <2>3. \A j \in 1 .. 1 + Len(q) : j <= 1 => j = 1
        OBVIOUS
    <2> QED
        BY <2>1, <2>2, <2>3, Zenon
<1>2. DOMAIN h = 1 .. 1 + Len(q) /\ Len(q) \in Nat /\ DOMAIN q = 1 .. Len(q)
    BY <1>1
<1> HIDE DEF h
<1>3. h[1] = k /\ 1 \in DOMAIN h
    BY <1>1, <1>2
<1>4. \A j \in DOMAIN h : j # 1 => j - 1 \in DOMAIN q /\ h[j] = q[j - 1]
    BY <1>1, <1>2
<1>5. \A j \in DOMAIN q : j + 1 \in DOMAIN h /\ j + 1 # 1 /\ h[j + 1] = q[j]
    BY <1>1, <1>2
<1>6. IsInjective(h)
    <2> SUFFICES ASSUME NEW a \in DOMAIN h, NEW b \in DOMAIN h, h[a] = h[b] PROVE a = b
        BY Zenon DEF IsInjective
    <2>1. a # 1 => h[a] \in Range(q)
        BY <1>4, Zenon DEF Range
    <2>2. b # 1 => h[b] \in Range(q)
        BY <1>4, Zenon DEF Range
    <2>3. CASE a # 1 /\ b # 1
        <3>1. a - 1 = b - 1
            BY <1>4, <2>3, Zenon DEF IsInjective
        <3> QED
            BY <1>2, <3>1
    <2> QED
        BY <1>3, <2>1, <2>2, <2>3, Zenon
<1>7. Range(h) = Range(q) \cup {k}
    BY <1>3, <1>4, <1>5 DEF Range
<1>8. Sorted(h, before)
    <2> SUFFICES ASSUME NEW a \in DOMAIN h, NEW b \in DOMAIN h, a < b
                 PROVE  <<h[a], h[b]>> \in before
        BY Zenon DEF Sorted
    <2>1. b # 1 /\ h[b] \in Range(q)
        BY <1>2, <1>4 DEF Range
    <2>2. CASE a = 1
        BY <1>3, <2>1, <2>2, Zenon
    <2>3. CASE a # 1
        <3>1. a - 1 < b - 1
            BY <1>2
        <3> QED
            BY <1>4, <2>1, <2>3, <3>1, Zenon DEF Sorted
    <2> QED
        BY <2>2, <2>3, Zenon
<1> QED
    BY <1>1, <1>6, <1>7, <1>8, Zenon DEF h

(***************************************************************************)
(* Moving a node to the head of a queue, as every get and set does: the    *)
(* node is in that queue only, the others are where they were.             *)
(***************************************************************************)
LEMMA FrontedSound ==
    ASSUME NEW qs, NEW at, NEW before, Sound(qs, at, before),
           NEW k \in Keys, NEW j \in QueueIds,
           NEW new, Keeps(before, new, DOMAIN at \ {k}), Newest(new, k, DOMAIN at \ {k})
    PROVE  Sound(Fronted(qs, k, j), Moved(at, k, j), new)
<1> DEFINE u == Unlinked(qs, k)
           r == Fronted(qs, k, j)
           moved == Moved(at, k, j)
<1>1. Sound(u, Rest(at, {k}), new)
    BY UnlinkedSound, Zenon
<1>2. /\ r = [u EXCEPT ![j] = <<k>> \o @]
      /\ moved = [x \in DOMAIN at \cup {k} |-> IF x = k THEN j ELSE at[x]]
    BY Zenon DEF Fronted, Moved
<1> HIDE DEF u, r, moved
<1>3. /\ u \in [QueueIds -> Seq(Keys)]
      /\ \A i \in QueueIds :
            /\ IsInjective(u[i])
            /\ Range(u[i]) = {x \in DOMAIN at \ {k} : at[x] = i}
            /\ Sorted(u[i], new)
    BY <1>1, Zenon DEF Sound, Rest
<1>4. /\ r[j] \in Seq(Keys) /\ IsInjective(r[j])
      /\ Range(r[j]) = Range(u[j]) \cup {k}
      /\ Sorted(r[j], new)
    <2>1. r[j] = <<k>> \o u[j]
        BY <1>2, <1>3, Zenon
    <2>2. k \notin Range(u[j]) /\ \A x \in Range(u[j]) : <<k, x>> \in new
        BY <1>3, Zenon DEF Newest
    <2> QED
        BY <1>3, <2>1, <2>2, HeadShape
<1>5. \A i \in QueueIds : i # j => r[i] = u[i]
    BY <1>2, <1>3, Zenon
<1>6. r \in [QueueIds -> Seq(Keys)]
    BY <1>2, <1>3, <1>4, Zenon
<1>7. ASSUME NEW i \in QueueIds
      PROVE  /\ IsInjective(r[i])
             /\ Range(r[i]) = {x \in DOMAIN moved : moved[x] = i}
             /\ Sorted(r[i], new)
    <2>1. DOMAIN moved = DOMAIN at \cup {k} /\ moved[k] = j
        BY <1>2, Zenon
    <2>2. \A x \in DOMAIN at : x # k => moved[x] = at[x]
        BY <1>2, Zenon
    <2>3. CASE i = j
        <3>1. Range(r[j]) = {x \in DOMAIN moved : moved[x] = j}
            BY <1>3, <1>4, <2>1, <2>2, Zenon
        <3> QED
            BY <1>4, <2>3, <3>1, Zenon
    <2>4. CASE i # j
        <3>1. Range(u[i]) = {x \in DOMAIN moved : moved[x] = i}
            BY <1>3, <2>1, <2>2, <2>4
        <3> QED
            BY <1>3, <1>5, <2>4, <3>1, Zenon
    <2> QED
        BY <2>3, <2>4, Zenon
<1>8. Sound(r, moved, new)
    BY <1>6, <1>7, Zenon DEF Sound
<1> QED
    BY <1>8, Zenon DEF r, moved

(***************************************************************************)
(* What ngx_wa_shm_kv_queue_expire() leaves of a queue it takes nodes from *)
(* the tail of.                                                            *)
(***************************************************************************)
LEMMA PrefixShape ==
    ASSUME NEW S, NEW q \in Seq(S), NEW n \in 0 .. Len(q), IsInjective(q),
           NEW before, Sorted(q, before)
    PROVE  /\ SubSeq(q, 1, n) \in Seq(S)
           /\ IsInjective(SubSeq(q, 1, n))
           /\ Range(SubSeq(q, 1, n)) \subseteq Range(q)
           /\ Sorted(SubSeq(q, 1, n), before)
<1> DEFINE s == SubSeq(q, 1, n)
<1>1. n \in Nat /\ Len(q) \in Nat /\ n <= Len(q) /\ DOMAIN q = 1 .. Len(q)
    OBVIOUS
<1>2. /\ s \in Seq(S) /\ Len(s) = n
      /\ \A a \in 1 .. n : s[a] = q[a]
    BY <1>1
<1>3. DOMAIN s = 1 .. n
    BY <1>2
<1> HIDE DEF s
<1>4. \A a \in DOMAIN s : a \in DOMAIN q /\ s[a] = q[a]
    BY <1>1, <1>2, <1>3
<1>5. IsInjective(s)
    BY <1>4, Zenon DEF IsInjective
<1>6. Range(s) \subseteq Range(q)
    BY <1>4, Zenon DEF Range
<1>7. Sorted(s, before)
    BY <1>4, Zenon DEF Sorted
<1> QED
    BY <1>2, <1>5, <1>6, <1>7, Zenon DEF s

(***************************************************************************)
(* Evictions take queued nodes only, and leave the others queued where     *)
(* they were.                                                              *)
(***************************************************************************)
LEMMA LeftSound ==
    ASSUME NEW at, NEW before, Sound(queues, at, before),
           NEW size, NEW cut \in Cuts(size)
    PROVE  /\ Lost(size, cut) \subseteq DOMAIN at
           /\ Sound(Left(size, cut), Rest(at, Lost(size, cut)), before)
<1> DEFINE left == Left(size, cut)
           lost == Lost(size, cut)
           kept == Rest(at, lost)
<1>1. /\ queues \in [QueueIds -> Seq(Keys)]
      /\ \A i \in QueueIds :
            /\ IsInjective(queues[i])
            /\ Range(queues[i]) = {x \in DOMAIN at : at[x] = i}
            /\ Sorted(queues[i], before)
    BY Zenon DEF Sound
<1>2. DOMAIN left = QueueIds
    BY <1>1, Zenon DEF Left
<1>3. cut[2] \in 0 .. Len(queues[Visited(size, cut[1])])
    BY DEF Cuts
<1>4. ASSUME NEW i \in QueueIds
      PROVE  \/ left[i] = <<>>
             \/ left[i] = queues[i]
             \/ left[i] = SubSeq(queues[i], 1, cut[2]) /\ cut[2] \in 0 .. Len(queues[i])
    BY <1>1, <1>3, Zenon DEF Left
<1>5. ASSUME NEW i \in QueueIds
      PROVE  /\ left[i] \in Seq(Keys)
             /\ IsInjective(left[i])
             /\ Range(left[i]) \subseteq Range(queues[i])
             /\ Sorted(left[i], before)
    <2> HIDE DEF left
    <2>1. CASE left[i] = <<>>
        <3>1. <<>> \in Seq(Keys) /\ DOMAIN <<>> = {}
            OBVIOUS
        <3> QED
            BY <2>1, <3>1, Zenon DEF IsInjective, Range, Sorted
    <2>2. CASE left[i] = queues[i]
        BY <1>1, <2>2, Zenon
    <2>3. CASE left[i] = SubSeq(queues[i], 1, cut[2]) /\ cut[2] \in 0 .. Len(queues[i])
        BY <1>1, <2>3, PrefixShape
    <2> QED
        BY <1>4, <2>1, <2>2, <2>3, Zenon
<1>6. lost = Queued(queues) \ Queued(left)
    BY Zenon DEF Lost
<1> HIDE DEF left, lost
<1>7. /\ \A x : x \in Queued(queues) <=> \E i \in QueueIds : x \in Range(queues[i])
      /\ \A x : x \in Queued(left) <=> \E i \in QueueIds : x \in Range(left[i])
    BY <1>1, <1>2, Zenon DEF Queued
<1>8. lost \subseteq DOMAIN at
    BY <1>1, <1>6, <1>7
<1>9. ASSUME NEW i \in QueueIds
      PROVE  Range(left[i]) = {x \in DOMAIN kept : kept[x] = i}
    <2>1. Range(left[i]) \subseteq {x \in DOMAIN at \ lost : at[x] = i}
        BY <1>1, <1>5, <1>6, <1>7, Zenon
    <2>2. {x \in DOMAIN at \ lost : at[x] = i} \subseteq Range(left[i])
        BY <1>1, <1>5, <1>6, <1>7
    <2> QED
        BY <2>1, <2>2, Zenon DEF Rest
<1> HIDE DEF kept
<1>10. left \in [QueueIds -> Seq(Keys)]
    BY <1>2, <1>5, Zenon DEF left, Left
<1>11. Sound(left, kept, before)
    BY <1>5, <1>9, <1>10, Zenon DEF Sound
<1> QED
    BY <1>8, <1>11, Zenon DEF left, lost, kept

----------------------------------------------------------------------------
(***************************************************************************)
(* Counting the entries that evictions leave.                              *)
(***************************************************************************)
LEMMA SurvivorsCounted ==
    ASSUME NEW D, IsFiniteSet(D), NEW L, L \subseteq D
    PROVE  /\ IsFiniteSet(D \ L)
           /\ Cardinality(D \ L) = Cardinality(D) - Cardinality(L)
           /\ Cardinality(D \ L) \in Nat
<1>1. IsFiniteSet(L)
    BY FS_Subset, Zenon
<1>2. D \cap L = L
    BY Zenon
<1>3. IsFiniteSet(D \ L) /\ Cardinality(D \ L) = Cardinality(D) - Cardinality(D \cap L)
    BY <1>1, FS_Difference, Zenon
<1> QED
    BY <1>2, <1>3, FS_CardinalityType, Zenon

(***************************************************************************)
(* When the nodes of K are freed, a pointer that is still live leads to an *)
(* entry that stays.                                                       *)
(***************************************************************************)
LEMMA ReadersOfFreed ==
    ASSUME Readers, NEW K, reading' = Dangling(K), DOMAIN tree \ K \subseteq DOMAIN tree'
    PROVE  Readers'
<1> DEFINE cutoff(r) == [r EXCEPT !.live = @ /\ r.key \notin K]
<1>1. ASSUME NEW r \in Gets
      PROVE  /\ cutoff(r) \in Gets
             /\ cutoff(r).key = r.key
             /\ cutoff(r).live => r.live /\ r.key \notin K
    BY Zenon DEF Gets
<1>2. \A w \in Workers : reading'[w] = {cutoff(r) : r \in reading[w]}
    BY Zenon DEF Dangling
<1>3. reading' = [w \in Workers |-> reading'[w]]
    BY Zenon DEF Dangling
<1> HIDE DEF cutoff
<1>4. /\ reading \in [Workers -> SUBSET Gets]
      /\ \A w \in Workers : \A r, s \in reading[w] : r = s
      /\ \A w \in Workers : \A r \in reading[w] : r.live => r.key \in DOMAIN tree
    BY Zenon DEF Readers
<1>5. \A w \in Workers : reading'[w] \in SUBSET Gets
    BY <1>1, <1>2, <1>4
<1>6. \A w \in Workers : \A r, s \in reading'[w] : r = s
    BY <1>2, <1>4
<1>7. \A w \in Workers : \A r \in reading'[w] : r.live => r.key \in DOMAIN tree'
    BY <1>1, <1>2, <1>4
<1>8. reading' \in [Workers -> SUBSET Gets]
    BY <1>3, <1>5, Zenon
<1> QED
    BY <1>6, <1>7, <1>8, Zenon DEF Readers

(***************************************************************************)
(* A step of one get: the worker's pointer is replaced by one that leads   *)
(* to an entry, or is given up.                                            *)
(***************************************************************************)
LEMMA ReadersOfGet ==
    ASSUME Readers, NEW w \in Workers, NEW S \in SUBSET Gets,
           \A r, s \in S : r = s,
           \A r \in S : r.live => r.key \in DOMAIN tree,
           reading' = [reading EXCEPT ![w] = S], tree' = tree
    PROVE  Readers'
<1>1. reading \in [Workers -> SUBSET Gets]
    BY Zenon DEF Readers
<1>2. /\ reading' \in [Workers -> SUBSET Gets]
      /\ \A x \in Workers : reading'[x] = IF x = w THEN S ELSE reading[x]
    BY <1>1, Zenon
<1> QED
    BY <1>2, Zenon DEF Readers

(***************************************************************************)
(* A step that leaves the zone and the pointers alone.                     *)
(***************************************************************************)
LEMMA TypesKept ==
    ASSUME Types, UNCHANGED <<eviction, tree, nelts, reading, torn>>
    PROVE  Types'
BY Zenon DEF Types, Entries, Readers

(***************************************************************************)
(* The allocator returns memory of the zone.                               *)
(***************************************************************************)
LEMMA PlacesInZone ==
    ASSUME NEW nodes, NEW size, NEW P \in SlabPlace(nodes, size)
    PROVE  P \subseteq 1 .. Pages
<1>1. P \in SlabPlaces(nodes, size)
    BY Zenon DEF SlabPlace
<1> DEFINE slot == slru_index_for_size(size)
           free == {p \in 1 .. Pages : OnPage(nodes, p) = {}}
           shared == {p \in (1 .. Pages) \ free :
                         /\ \A k \in OnPage(nodes, p) : nodes[k].slot = slot
                         /\ Cardinality(OnPage(nodes, p))
                               < PageSize \div 2 ^ (MinShift + slot)}
           row == (size + PageSize - 1) \div PageSize
<1>2. P \in IF size > SlabMax
            THEN {R \in {p .. p + row - 1 : p \in 1 .. Pages} : R \subseteq free}
            ELSE {{p} : p \in IF shared # {} THEN shared ELSE free}
    BY <1>1, Zenon DEF SlabPlaces
<1>3. free \subseteq 1 .. Pages /\ shared \subseteq 1 .. Pages
    BY Zenon
<1> HIDE DEF free, shared, row
<1> QED
    BY <1>2, <1>3, Zenon

(***************************************************************************)
(* The version keeps the width of an uint32_t when a set increments it ... *)
(***************************************************************************)
LEMMA NextCasInRange ==
    ASSUME NEW c \in 0 .. CasWidth - 1
    PROVE  NextCas(c) \in 0 .. CasWidth - 1
BY CasAssumption DEF NextCas

(***************************************************************************)
(* ... and the version a set compares with, 0 for an absent entry, has     *)
(* that width.                                                             *)
(***************************************************************************)
LEMMA CasOfInRange ==
    ASSUME Entries, NEW k
    PROVE  CasOf(k) \in 0 .. CasWidth - 1
BY CasAssumption DEF Entries, Nodes, CasOf

(***************************************************************************)
(* A set or a get ends by placing the node of k in the queue of its        *)
(* value's size: if the queues were right for the entries the evictions    *)
(* left, they are right for the new tree.                                  *)
(***************************************************************************)
LEMMA RequeuedKeepsSound ==
    ASSUME NEW qs, NEW K, Sound(qs, Rest(Place, K), recent),
           NEW k \in Keys, NEW v,
           eviction' = eviction,
           DOMAIN tree' = (DOMAIN tree \ K) \cup {k},
           tree'[k].val = v,
           \A x \in DOMAIN tree \ (K \cup {k}) : tree'[x].val = tree[x].val,
           queues' = Requeued(qs, k, v),
           recent' = Used(K, k)
    PROVE  Sound(queues', Place', recent')
<1> DEFINE at == Rest(Place, K)
           j == queue_for_node(v)
<1>1. CASE Evicting
    <2>1. DOMAIN at = DOMAIN tree \ K
        BY <1>1, Zenon DEF Place, Rest
    <2>2. Keeps(recent, recent', DOMAIN at \ {k})
        BY <2>1, Zenon DEF Keeps, Used, Forgotten
    <2>3. Newest(recent', k, DOMAIN at \ {k})
        BY <2>1, Zenon DEF Newest, Used
    <2>4. queues' = Fronted(qs, k, j)
        BY <1>1, Zenon DEF Requeued, Fronted
    <2>5. Sound(queues', Moved(at, k, j), recent')
        <3>1. Sound(qs, at, recent) /\ j \in QueueIds
            BY QueueInRange, Zenon
        <3> HIDE DEF at, j
        <3> QED
            BY <2>2, <2>3, <2>4, <3>1, FrontedSound, Zenon
    <2>6. Place' = Moved(at, k, j)
        <3> DEFINE queue(x) == IF eviction = "lru" THEN 0
                               ELSE slru_index_for_size(Size(tree'[x].val))
        <3>1. Evicting'
            BY <1>1, Zenon DEF Evicting
        <3>2. Place' = [x \in DOMAIN tree' |-> queue(x)]
            BY <3>1, Zenon DEF Place, queue_for_node, Size
        <3>3. \A x \in DOMAIN tree' : x # k => queue(x) = at[x]
            BY <1>1, <2>1, Zenon DEF Place, Rest, queue_for_node
        <3>4. queue(k) = j
            BY Zenon DEF queue_for_node
        <3>5. DOMAIN at \cup {k} = DOMAIN tree'
            BY <2>1, Zenon
        <3> HIDE DEF queue, at, j
        <3> QED
            BY <3>2, <3>3, <3>4, <3>5, Zenon DEF Moved
    <2> QED
        BY <2>5, <2>6, Zenon
<1>2. CASE ~Evicting
    <2>1. DOMAIN Place = {} /\ DOMAIN Place' = {}
        BY <1>2, Zenon DEF Place, Evicting
    <2>2. queues' = qs
        BY <1>2, Zenon DEF Requeued
    <2>3. /\ qs \in [QueueIds -> Seq(Keys)]
          /\ \A i \in QueueIds : IsInjective(qs[i]) /\ Range(qs[i]) = {}
        BY <2>1, Zenon DEF Sound, Rest
    <2>4. ASSUME NEW i \in QueueIds PROVE Sorted(qs[i], recent')
        <3>1. DOMAIN qs[i] = {}
            BY <2>3, NothingQueued, Zenon
        <3> QED
            BY <3>1, Zenon DEF Sorted
    <2>5. \A i : {x \in DOMAIN Place' : Place'[x] = i} = {}
        BY <2>1, Zenon
    <2> QED
        BY <2>2, <2>3, <2>4, <2>5, Zenon DEF Sound
<1> QED
    BY <1>1, <1>2, Zenon

(***************************************************************************)
(* Without evictions, the entries are where they were.                     *)
(***************************************************************************)
LEMMA RestOfNothing ==
    ASSUME NEW qs, NEW before, Sound(qs, Place, before)
    PROVE  Sound(qs, Rest(Place, {}), before)
<1>1. Rest(Place, {}) = Place
    BY Zenon DEF Rest, Place
<1> QED
    BY <1>1, Zenon

(***************************************************************************)
(* Empty queues are right for a zone none of whose entries is queued.      *)
(***************************************************************************)
LEMMA EmptiedSound ==
    ASSUME Sound(queues, Place, recent),
           queues' = [i \in DOMAIN queues |-> <<>>], DOMAIN Place' = {}
    PROVE  Sound(queues', Place', recent')
<1>1. queues' \in [QueueIds -> Seq(Keys)] /\ \A i \in QueueIds : queues'[i] = <<>>
    BY DEF Sound
<1>2. \A i \in QueueIds : /\ IsInjective(queues'[i])
                          /\ Range(queues'[i]) = {x \in DOMAIN Place' : Place'[x] = i}
                          /\ Sorted(queues'[i], recent')
    BY <1>1 DEF IsInjective, Range, Sorted
<1> QED
    BY <1>1, <1>2, Zenon DEF Sound

(***************************************************************************)
(* The queues hold all entries the policy may evict, and only them.        *)
(***************************************************************************)
LEMMA QueuedArePlaced ==
    ASSUME NEW at, NEW before, Sound(queues, at, before), \A x \in DOMAIN at : at[x] \in QueueIds
    PROVE  Queued(queues) = DOMAIN at
<1>1. /\ DOMAIN queues = QueueIds
      /\ \A i \in QueueIds : Range(queues[i]) = {x \in DOMAIN at : at[x] = i}
    BY Zenon DEF Sound
<1>2. Queued(queues) = UNION {Range(queues[i]) : i \in QueueIds}
    BY <1>1, Zenon DEF Queued
<1>3. \A x : x \in Queued(queues) <=> \E i \in QueueIds : x \in Range(queues[i])
    BY <1>2, Zenon
<1>4. ASSUME NEW x \in Queued(queues) PROVE x \in DOMAIN at
    BY <1>1, <1>3
<1>5. ASSUME NEW x \in DOMAIN at PROVE x \in Queued(queues)
    <2>1. at[x] \in QueueIds /\ x \in Range(queues[at[x]])
        BY <1>1, Zenon
    <2> QED
        BY <1>3, <2>1, Zenon
<1> QED
    BY <1>4, <1>5, Zenon

(***************************************************************************)
(* A step that touches neither tree nor queues keeps them right.           *)
(***************************************************************************)
LEMMA ZoneKept ==
    ASSUME Sound(queues, Place, recent), UNCHANGED <<eviction, tree, queues, recent>>
    PROVE  Sound(queues', Place', recent')
<1>1. Place' = Place
    BY Zenon DEF Place, Evicting, queue_for_node, Size
<1> QED
    BY <1>1, Zenon

----------------------------------------------------------------------------
(***************************************************************************)
(* A new zone is empty: tree, queues and counter agree.                    *)
(***************************************************************************)
LEMMA KvInitial ==
    Init => KvInv
<1> SUFFICES ASSUME Init PROVE KvInv
    BY Zenon
<1>1. DOMAIN tree = {} /\ nelts = 0 /\ recent = {}
    BY Zenon DEF Init
<1>2. Types
    <2>1. reading \in [Workers -> SUBSET Gets] /\ \A w \in Workers : reading[w] = {}
        BY Zenon DEF Init
    <2> QED
        BY <1>1, <2>1, FS_EmptySet, Zenon DEF Init, Types, Entries, Readers
<1>3. queues \in [QueueIds -> Seq(Keys)] /\ \A i \in QueueIds : queues[i] = <<>>
    BY DEF Init, QueueIds
<1>4. DOMAIN Place = {}
    BY <1>1, Zenon DEF Place
<1>5. \A i \in QueueIds : /\ IsInjective(queues[i])
                          /\ Range(queues[i]) = {x \in DOMAIN Place : Place[x] = i}
                          /\ Sorted(queues[i], recent)
    BY <1>3, <1>4 DEF IsInjective, Range, Sorted
<1> QED
    BY <1>2, <1>3, <1>5, Zenon DEF KvInv, Sound

\* The node of k is replaced by one that holds v, once the nodes of lost are
\* evicted and left is what stays in the queues.
Replaces(lost, left, k, v) ==
    /\ k \notin lost
    /\ DOMAIN tree' = (DOMAIN tree \ lost) \cup {k}
    /\ tree'[k] \in Nodes /\ tree'[k].val = v /\ tree'[k].cas = NextCas(CasOf(k))
    /\ \A x \in DOMAIN tree \ (lost \cup {k}) : tree'[x] = tree[x]
    /\ queues' = Requeued(left, k, v)
    /\ nelts' = Counted(lost, k)
    /\ recent' = Used(lost, k)
    /\ reading' = Dangling(lost \cup {k})
    /\ UNCHANGED <<eviction, torn>>

(***************************************************************************)
(* What a set that allocates does to the zone: the loop of                 *)
(* ngx_wa_shm_kv_set_locked() has got to some cut, and the new node takes  *)
(* the place of the old one.                                               *)
(***************************************************************************)
LEMMA AllocReplaces ==
    ASSUME Entries, NEW w, NEW k, NEW v \in Values, NEW c, SetAlloc(w, k, v, c)
    PROVE  \E cut \in Cuts(Size(v)) : Replaces(Lost(Size(v), cut), Left(Size(v), cut), k, v)
<1> DEFINE size == Size(v)
           node(pages) == [val |-> v, cas |-> NextCas(CasOf(k)),
                           slot |-> slru_index_for_size(size), pages |-> pages]
<1>1. PICK cut \in Expired(size) :
         /\ k \notin Lost(size, cut)
         /\ \E pages \in SlabPlace(Kept(Lost(size, cut)), size) :
               tree' = [x \in (DOMAIN tree \ Lost(size, cut)) \cup {k} |->
                           IF x = k THEN node(pages) ELSE tree[x]]
         /\ queues' = Requeued(Left(size, cut), k, v)
         /\ nelts' = Counted(Lost(size, cut), k)
         /\ recent' = Used(Lost(size, cut), k)
         /\ reading' = Dangling(Lost(size, cut) \cup {k})
    BY Zenon DEF SetAlloc
<1>2. UNCHANGED <<eviction, torn>>
    BY Zenon DEF SetAlloc
<1>3. cut \in Cuts(size)
    BY Zenon DEF Expired, Enough
<1> DEFINE lost == Lost(size, cut)
<1>4. PICK pages \in SlabPlace(Kept(lost), size) :
         tree' = [x \in (DOMAIN tree \ lost) \cup {k} |->
                     IF x = k THEN node(pages) ELSE tree[x]]
    BY <1>1, Zenon
<1>5. /\ node(pages) \in Nodes
      /\ node(pages).val = v /\ node(pages).cas = NextCas(CasOf(k))
    <2>1. NextCas(CasOf(k)) \in 0 .. CasWidth - 1
        BY CasOfInRange, NextCasInRange, Zenon
    <2>2. slru_index_for_size(size) \in 0 .. NQueues - 1
        BY IndexInRange, Zenon DEF QueueIds
    <2>3. pages \in SUBSET (1 .. Pages)
        BY PlacesInZone, Zenon
    <2> QED
        BY <2>1, <2>2, <2>3, Zenon DEF Nodes
<1> HIDE DEF node, lost
<1>6. /\ DOMAIN tree' = (DOMAIN tree \ lost) \cup {k}
      /\ tree'[k] = node(pages)
      /\ \A x \in DOMAIN tree \ (lost \cup {k}) : tree'[x] = tree[x]
    BY <1>4, Zenon
<1>7. Replaces(Lost(size, cut), Left(size, cut), k, v)
    BY <1>1, <1>2, <1>5, <1>6, Zenon DEF Replaces, lost
<1> QED
    BY <1>3, <1>7, Zenon

(***************************************************************************)
(* A set that allocates keeps the zone in order, whatever it evicts.       *)
(***************************************************************************)
LEMMA ReplacesKeeps ==
    ASSUME Types, NEW k \in Keys, NEW v \in Values,
           NEW lost, lost \subseteq DOMAIN Place,
           NEW left, Sound(left, Rest(Place, lost), recent),
           Replaces(lost, left, k, v)
    PROVE  Types' /\ Sound(queues', Place', recent')
<1>1. lost \subseteq DOMAIN tree
    BY Zenon DEF Place
<1>2. /\ DOMAIN tree' = (DOMAIN tree \ lost) \cup {k}
      /\ tree'[k] \in Nodes /\ tree'[k].val = v
      /\ \A x \in DOMAIN tree \ (lost \cup {k}) : tree'[x] = tree[x]
    BY Zenon DEF Replaces
<1>3. IsFiniteSet(DOMAIN tree') /\ nelts' = Cardinality(DOMAIN tree')
    <2>1. IsFiniteSet(DOMAIN tree) /\ nelts = Cardinality(DOMAIN tree)
        BY Zenon DEF Types, Entries
    <2>2. /\ IsFiniteSet(DOMAIN tree \ lost)
          /\ Cardinality(DOMAIN tree \ lost) = nelts - Cardinality(lost)
          /\ Cardinality(DOMAIN tree \ lost) \in Nat
        BY <1>1, <2>1, SurvivorsCounted, Zenon
    <2>3. /\ IsFiniteSet((DOMAIN tree \ lost) \cup {k})
          /\ Cardinality((DOMAIN tree \ lost) \cup {k}) =
                IF k \in DOMAIN tree \ lost THEN Cardinality(DOMAIN tree \ lost)
                ELSE Cardinality(DOMAIN tree \ lost) + 1
        BY <2>2, FS_AddElement, Zenon
    <2>4. /\ nelts' = nelts - Cardinality(lost) + (IF k \in DOMAIN tree THEN 0 ELSE 1)
          /\ k \in DOMAIN tree \ lost <=> k \in DOMAIN tree
        BY Zenon DEF Replaces, Counted
    <2> QED
        BY <1>2, <2>2, <2>3, <2>4
<1>4. Readers'
    <2>1. reading' = Dangling(lost \cup {k})
        BY Zenon DEF Replaces
    <2>2. DOMAIN tree \ (lost \cup {k}) \subseteq DOMAIN tree'
        BY <1>2, Zenon
    <2> QED
        BY <2>1, <2>2, ReadersOfFreed, Zenon DEF Types
<1>5. Entries'
    BY <1>2, <1>3, Zenon DEF Types, Entries
<1>6. Types'
    BY <1>4, <1>5, Zenon DEF Types, Replaces
<1>7. Sound(queues', Place', recent')
    <2>1. \A x \in DOMAIN tree \ (lost \cup {k}) : tree'[x].val = tree[x].val
        BY <1>2, Zenon
    <2>2. queues' = Requeued(left, k, v) /\ recent' = Used(lost, k) /\ eviction' = eviction
        BY Zenon DEF Replaces
    <2> QED
        BY <1>2, <2>1, <2>2, RequeuedKeepsSound, Zenon
<1> QED
    BY <1>6, <1>7, Zenon

(***************************************************************************)
(* Every step of every worker, one host function or one part of a get at a *)
(* time, preserves the inductive invariant.                                *)
(***************************************************************************)
LEMMA KvStep ==
    KvInv /\ [Next]_vars => KvInv'
<1> SUFFICES ASSUME KvInv, [Next]_vars PROVE Types' /\ Sound(queues', Place', recent')
    BY Zenon DEF KvInv
<1>1. Types /\ Sound(queues, Place, recent)
    BY Zenon DEF KvInv
<1>2. CASE UNCHANGED vars
    <2>1. Types'
        BY <1>1, <1>2, TypesKept, Zenon DEF vars, zone
    <2> QED
        BY <1>1, <1>2, <2>1, ZoneKept, Zenon DEF vars, zone
<1>3. ASSUME NEW w \in Workers, NEW k \in Keys, GetMiss(w, k)
      PROVE  Types' /\ Sound(queues', Place', recent')
    <2>1. Types'
        BY <1>1, <1>3, TypesKept, Zenon DEF GetMiss, zone
    <2> QED
        BY <1>1, <1>3, <2>1, ZoneKept, Zenon DEF GetMiss, zone
<1>4. ASSUME NEW w \in Workers, NEW k \in Keys, GetLocked(w, k)
      PROVE  Types' /\ Sound(queues', Place', recent')
    <2> DEFINE get == [key |-> k, val |-> tree[k].val, cas |-> tree[k].cas,
                       live |-> TRUE, room |-> -1]
    <2>1. /\ k \in DOMAIN tree
          /\ queues' = Requeued(queues, k, tree[k].val)
          /\ recent' = Used({}, k)
          /\ reading' = [reading EXCEPT ![w] = {get}]
          /\ UNCHANGED <<eviction, tree, nelts, torn>>
        BY <1>4, Zenon DEF GetLocked
    <2>2. get \in Gets /\ get.key = k
        <3>1. tree[k] \in Nodes
            BY <1>1, <2>1, Zenon DEF Types, Entries
        <3> QED
            BY <3>1 DEF Nodes, Gets
    <2> HIDE DEF get
    <2>3. Readers'
        BY <1>1, <2>1, <2>2, ReadersOfGet, Zenon DEF Types
    <2>4. Types'
        BY <1>1, <2>1, <2>3, Zenon DEF Types, Entries
    <2>5. Sound(queues, Rest(Place, {}), recent)
        BY <1>1, RestOfNothing, Zenon
    <2>6. Sound(queues', Place', recent')
        BY <2>1, <2>5, RequeuedKeepsSound, Zenon
    <2> QED
        BY <2>4, <2>6, Zenon
<1>5. ASSUME NEW w \in Workers, NEW k \in Keys, NEW c \in 0 .. CasWidth - 1, SetMismatch(w, k, c)
      PROVE  Types' /\ Sound(queues', Place', recent')
    <2>1. Types'
        BY <1>1, <1>5, TypesKept, Zenon DEF SetMismatch, zone
    <2> QED
        BY <1>1, <1>5, <2>1, ZoneKept, Zenon DEF SetMismatch, zone
<1>6. ASSUME NEW w \in Workers, NEW k \in Keys, NEW c \in 0 .. CasWidth - 1, Delete(w, k, c)
      PROVE  Types' /\ Sound(queues', Place', recent')
    <2>1. /\ k \in DOMAIN tree
          /\ tree' = Kept({k})
          /\ queues' = Unlinked(queues, k)
          /\ nelts' = nelts - 1
          /\ recent' = Forgotten({k})
          /\ reading' = Dangling({k})
          /\ UNCHANGED <<eviction, torn>>
        BY <1>6, Zenon DEF Delete
    <2>2. /\ DOMAIN tree' = DOMAIN tree \ {k}
          /\ \A x \in DOMAIN tree' : tree'[x] = tree[x]
        BY <2>1, Zenon DEF Kept
    <2>3. IsFiniteSet(DOMAIN tree') /\ Cardinality(DOMAIN tree') = nelts - 1
        BY <1>1, <2>1, <2>2, FS_RemoveElement, Zenon DEF Types, Entries
    <2>4. Types'
        <3>1. Readers'
            BY <1>1, <2>1, <2>2, ReadersOfFreed, Zenon DEF Types
        <3>2. Entries'
            BY <1>1, <2>1, <2>2, <2>3, Zenon DEF Types, Entries
        <3> QED
            BY <1>1, <2>1, <3>1, <3>2, Zenon DEF Types
    <2>5. Keeps(recent, recent', DOMAIN Place \ {k})
        BY <2>1, Zenon DEF Keeps, Forgotten
    <2>6. Place' = Rest(Place, {k})
        BY <2>1, <2>2, Zenon DEF Place, Rest, Evicting, queue_for_node, Size
    <2>7. Sound(queues', Place', recent')
        BY <1>1, <2>1, <2>5, <2>6, UnlinkedSound, Zenon
    <2> QED
        BY <2>4, <2>7, Zenon
<1>7. ASSUME NEW w \in Workers, NEW k \in Keys, NEW c \in 0 .. CasWidth - 1, DeleteMissing(w, k, c)
      PROVE  Types' /\ Sound(queues', Place', recent')
    <2>1. Types'
        BY <1>1, <1>7, TypesKept, Zenon DEF DeleteMissing, zone
    <2> QED
        BY <1>1, <1>7, <2>1, ZoneKept, Zenon DEF DeleteMissing, zone
<1>8. ASSUME NEW w \in Workers, NEW k \in Keys, NEW c \in 0 .. CasWidth - 1, NEW v \in Values,
             SetInPlace(w, k, v, c)
      PROVE  Types' /\ Sound(queues', Place', recent')
    <2>1. /\ k \in DOMAIN tree
          /\ tree' = [tree EXCEPT ![k].val = v, ![k].cas = NextCas(@)]
          /\ queues' = Requeued(queues, k, v)
          /\ recent' = Used({}, k)
          /\ UNCHANGED <<eviction, nelts, reading, torn>>
        BY <1>8, Zenon DEF SetInPlace, Fits
    <2>2. /\ DOMAIN tree' = DOMAIN tree
          /\ \A x \in DOMAIN tree : x # k => tree'[x] = tree[x]
        BY <2>1, Zenon
    <2>3. tree'[k] \in Nodes /\ tree'[k].val = v
        <3>1. tree[k] \in Nodes /\ NextCas(tree[k].cas) \in 0 .. CasWidth - 1
            BY <1>1, <2>1, NextCasInRange, Zenon DEF Types, Entries, Nodes
        <3>2. tree'[k] = [[tree[k] EXCEPT !.val = v] EXCEPT !.cas = NextCas(tree[k].cas)]
            BY <2>1, <3>1, Zenon DEF Nodes
        <3> QED
            BY <3>1, <3>2, Zenon DEF Nodes
    <2>4. Types'
        <3>1. Readers'
            BY <1>1, <2>1, <2>2, Zenon DEF Types, Readers
        <3>2. Entries'
            BY <1>1, <2>1, <2>2, <2>3, Zenon DEF Types, Entries
        <3> QED
            BY <1>1, <2>1, <3>1, <3>2, Zenon DEF Types
    <2>5. Sound(queues, Rest(Place, {}), recent)
        BY <1>1, RestOfNothing, Zenon
    <2>6. DOMAIN tree' = (DOMAIN tree \ {}) \cup {k}
        BY <2>1, <2>2, Zenon
    <2>7. \A x \in DOMAIN tree \ ({} \cup {k}) : tree'[x].val = tree[x].val
        BY <2>2, Zenon
    <2>8. Sound(queues', Place', recent')
        BY <2>1, <2>3, <2>5, <2>6, <2>7, RequeuedKeepsSound, Zenon
    <2> QED
        BY <2>4, <2>8, Zenon
<1>9. ASSUME NEW w \in Workers, NEW k \in Keys, NEW c \in 0 .. CasWidth - 1, NEW v \in Values,
             SetAlloc(w, k, v, c)
      PROVE  Types' /\ Sound(queues', Place', recent')
    <2>1. Entries
        BY <1>1, Zenon DEF Types
    <2>2. PICK cut \in Cuts(Size(v)) : Replaces(Lost(Size(v), cut), Left(Size(v), cut), k, v)
        BY <1>9, <2>1, AllocReplaces, Zenon
    <2>3. /\ Lost(Size(v), cut) \subseteq DOMAIN Place
          /\ Sound(Left(Size(v), cut), Rest(Place, Lost(Size(v), cut)), recent)
        BY <1>1, LeftSound, Zenon
    <2> QED
        BY <1>1, <2>2, <2>3, ReplacesKeeps, Zenon
<1>10. ASSUME NEW w \in Workers, NEW k \in Keys, NEW c \in 0 .. CasWidth - 1, NEW v \in Values,
              SetTorn(w, k, v, c)
       PROVE  Types' /\ Sound(queues', Place', recent')
    <2>1. /\ torn' = TRUE
          /\ tree' = Kept(DOMAIN tree)
          /\ queues' = [i \in DOMAIN queues |-> <<>>]
          /\ nelts' = 0
          /\ reading' = [x \in Workers |-> {}]
          /\ eviction' = eviction
        BY <1>10, Zenon DEF SetTorn
    <2>2. DOMAIN tree' = {}
        BY <2>1, Zenon DEF Kept
    <2>3. reading' \in [Workers -> SUBSET Gets] /\ \A x \in Workers : reading'[x] = {}
        BY <2>1, Zenon
    <2>4. Types'
        <3>1. Readers'
            BY <2>3, Zenon DEF Readers
        <3>2. Entries'
            BY <2>1, <2>2, FS_EmptySet, Zenon DEF Entries
        <3> QED
            BY <1>1, <2>1, <3>1, <3>2, Zenon DEF Types
    <2>5. DOMAIN Place' = {}
        BY <2>2, Zenon DEF Place
    <2>6. Sound(queues', Place', recent')
        BY <1>1, <2>1, <2>5, EmptiedSound, Zenon
    <2> QED
        BY <2>4, <2>6, Zenon
<1>11. ASSUME NEW w \in Workers, NEW k \in Keys, NEW c \in 0 .. CasWidth - 1, NEW v \in Values,
              SetNoMem(w, k, v, c)
       PROVE  Types' /\ Sound(queues', Place', recent')
    <2> DEFINE lost == Queued(queues)
    <2>1. /\ tree' = Kept(lost)
          /\ queues' = [i \in DOMAIN queues |-> <<>>]
          /\ nelts' = nelts - Cardinality(lost)
          /\ reading' = Dangling(lost)
          /\ UNCHANGED <<eviction, torn>>
        BY <1>11, Zenon DEF SetNoMem
    <2>2. lost = DOMAIN Place
        <3>1. \A x \in DOMAIN Place : Place[x] \in QueueIds
            BY QueueInRange, Zenon DEF Place
        <3> QED
            BY <1>1, <3>1, QueuedArePlaced, Zenon
    <2>3. lost \subseteq DOMAIN tree
        BY <2>2, Zenon DEF Place
    <2> HIDE DEF lost
    <2>4. /\ DOMAIN tree' = DOMAIN tree \ lost
          /\ \A x \in DOMAIN tree' : tree'[x] = tree[x]
        BY <2>1, Zenon DEF Kept
    <2>5. IsFiniteSet(DOMAIN tree') /\ nelts' = Cardinality(DOMAIN tree')
        BY <1>1, <2>1, <2>3, <2>4, SurvivorsCounted DEF Types, Entries
    <2>6. Types'
        <3>1. Readers'
            BY <1>1, <2>1, <2>4, ReadersOfFreed, Zenon DEF Types
        <3>2. Entries'
            BY <1>1, <2>4, <2>5, Zenon DEF Types, Entries
        <3> QED
            BY <1>1, <2>1, <3>1, <3>2, Zenon DEF Types
    <2>7. DOMAIN Place' = {}
        BY <2>1, <2>2, <2>4, Zenon DEF Place, Evicting
    <2>8. Sound(queues', Place', recent')
        BY <1>1, <2>1, <2>7, EmptiedSound, Zenon
    <2> QED
        BY <2>6, <2>8, Zenon
<1>12. ASSUME NEW w \in Workers, GetAlloc(w)
       PROVE  Types' /\ Sound(queues', Place', recent')
    <2>0. PICK r \in reading[w] : \E v \in Pointed(r) :
             reading' = [reading EXCEPT ![w] = {[r EXCEPT !.room = LenOf(v)]}]
        BY <1>12, Zenon DEF GetAlloc
    <2>1. PICK v \in Pointed(r) :
             reading' = [reading EXCEPT ![w] = {[r EXCEPT !.room = LenOf(v)]}]
        BY <2>0, Zenon
    <2>2. UNCHANGED <<eviction, tree, queues, nelts, recent, torn>>
        BY <1>12, Zenon DEF GetAlloc, zone
    <2>3. r \in Gets /\ (r.live => r.key \in DOMAIN tree)
        BY <1>1, Zenon DEF Types, Readers
    <2>4. LenOf(v) \in Int
        BY <1>1, <2>3, ValuesAssumption DEF Types, Entries, Nodes, LenOf, Pointed
    <2> DEFINE get == [r EXCEPT !.room = LenOf(v)]
    <2>5. get \in Gets /\ get.live = r.live /\ get.key = r.key
        BY <2>3, <2>4, Zenon DEF Gets
    <2>6. reading' = [reading EXCEPT ![w] = {get}]
        BY <2>1, Zenon
    <2> HIDE DEF get
    <2>7. Readers'
        BY <1>1, <2>2, <2>3, <2>5, <2>6, ReadersOfGet, Zenon DEF Types
    <2>8. Types'
        BY <1>1, <2>2, <2>7, Zenon DEF Types, Entries
    <2> QED
        BY <1>1, <2>2, <2>8, ZoneKept, Zenon
<1>13. ASSUME NEW w \in Workers, GetTrap(w) \/ GetCopy(w)
       PROVE  Types' /\ Sound(queues', Place', recent')
    <2>1. /\ reading' = [reading EXCEPT ![w] = {}]
          /\ UNCHANGED <<eviction, tree, queues, nelts, recent, torn>>
        BY <1>13, Zenon DEF GetTrap, GetCopy, zone
    <2>2. Readers'
        BY <1>1, <2>1, ReadersOfGet, Zenon DEF Types
    <2>3. Types'
        BY <1>1, <2>1, <2>2, Zenon DEF Types, Entries
    <2> QED
        BY <1>1, <2>1, <2>3, ZoneKept, Zenon
<1> QED
    BY <1>2, <1>3, <1>4, <1>5, <1>6, <1>7, <1>8, <1>9, <1>10, <1>11, <1>12, <1>13 DEF Next,
        Undefined

(***************************************************************************)
(* The inductive invariant holds in every zone: each entry of the tree     *)
(* stands once, in the queue of the value it has now, the queues are       *)
(* ordered by use, kv->nelts counts the entries, and a pointer handed out  *)
(* by a get that is still live leads to an entry.                          *)
(***************************************************************************)
THEOREM KvInvariance ==
    Spec => []KvInv
<1>1. Init => KvInv
    BY KvInitial, Zenon
<1>2. KvInv /\ [Next]_vars => KvInv'
    BY KvStep, Zenon
<1> QED
    BY <1>1, <1>2, PTL DEF Spec

(***************************************************************************)
(* Versions keep their width, nodes lie inside the zone, and a worker runs *)
(* one get at a time, for any zone, keys, values and workers.              *)
(***************************************************************************)
THEOREM KvTypes ==
    Spec => []TypeOK
<1>1. ASSUME KvInv PROVE TypeOK
    <2>1. Types /\ Sound(queues, Place, recent)
        BY <1>1, Zenon DEF KvInv
    <2>2. \A i \in 0 .. NQueues - 1 : Range(queues[i]) \subseteq Keys
        BY <2>1, Zenon DEF Types, Entries, Sound, QueueIds, Place
    <2>3. nelts \in Nat
        BY <2>1, FS_CardinalityType, Zenon DEF Types, Entries
    <2>4. ASSUME NEW w \in Workers PROVE Cardinality(reading[w]) <= 1
        <3>1. CASE reading[w] = {}
            BY <3>1, FS_EmptySet
        <3>2. CASE reading[w] # {}
            <4>1. PICK r \in reading[w] : TRUE
                BY <3>2, Zenon
            <4>2. reading[w] = {r}
                BY <2>1 DEF Types, Readers
            <4>3. Cardinality({r}) = 1
                BY FS_Singleton, Zenon
            <4> QED
                BY <4>2, <4>3
        <3> QED
            BY <3>1, <3>2, Zenon
    <2> QED
        BY <2>1, <2>2, <2>3, <2>4, Zenon DEF Types, Entries, Readers, TypeOK
<1> QED
    BY <1>1, KvInvariance, PTL

(***************************************************************************)
(* The tree, the eviction queues and kv->nelts never disagree: no          *)
(* interleaving of gets, sets and evictions loses an entry from its queue, *)
(* queues one twice or in the queue of a size it had before.               *)
(***************************************************************************)
THEOREM QueuesKeptInStep ==
    Spec => []QueuesMatchTree
<1>1. ASSUME KvInv PROVE QueuesMatchTree
    <2>1. Types /\ Sound(queues, Place, recent)
        BY <1>1, Zenon DEF KvInv
    <2>2. DOMAIN queues = QueueIds
        BY <2>1, Zenon DEF Sound
    <2>3. ASSUME NEW i \in QueueIds
          PROVE  /\ IsInjective(queues[i])
                 /\ Range(queues[i]) =
                       {k \in DOMAIN tree : Evicting /\ queue_for_node(tree[k].val) = i}
        <3>1. IsInjective(queues[i]) /\ Range(queues[i]) = {x \in DOMAIN Place : Place[x] = i}
            BY <2>1, Zenon DEF Sound
        <3>2. {x \in DOMAIN Place : Place[x] = i} =
                 {k \in DOMAIN tree : Evicting /\ queue_for_node(tree[k].val) = i}
            BY Zenon DEF Place
        <3> QED
            BY <3>1, <3>2, Zenon
    <2> QED
        BY <2>1, <2>2, <2>3, Zenon DEF Types, Entries, QueuesMatchTree
<1> QED
    BY <1>1, KvInvariance, PTL
=============================================================================
