---------------------------- MODULE ShmKvProofs ----------------------------
(***************************************************************************)
(* Proofs about what the key/value store promises its callers, for any     *)
(* workers, keys, values and sizes and for each eviction policy.  From the *)
(* invariant of ShmKvInvariant: an eviction takes the entries the policy   *)
(* names as the least useful, and the zone implements the versioned map of *)
(* ShmKvStore.                                                             *)
(***************************************************************************)
EXTENDS ShmKvInvariant

----------------------------------------------------------------------------
\* When slru_expire() comes to queue i, for a new node of that size.
Turn(size, i) ==
    IF i >= slru_index_for_size(size) THEN i - slru_index_for_size(size) + 1
    ELSE NQueues - i

(***************************************************************************)
(* slru_expire() comes to every queue exactly once: the larger sizes in    *)
(* ascending order, then the smaller ones in descending order.             *)
(***************************************************************************)
LEMMA TurnsVisitAll ==
    ASSUME eviction # "lru", NEW size, NEW i \in QueueIds
    PROVE  /\ Turn(size, i) \in 1 .. NQueues
           /\ \A d \in 1 .. NQueues : Visited(size, d) = i <=> d = Turn(size, i)
<1>1. slru_index_for_size(size) \in QueueIds
    BY IndexInRange, Zenon
<1>2. NQueues \in Nat /\ i \in 0 .. NQueues - 1 /\ slru_index_for_size(size) \in 0 .. NQueues - 1
    BY <1>1, SizesAssumption DEF QueueIds, NQueues
<1> QED
    BY <1>2 DEF Turn, Visited

(***************************************************************************)
(* The order in which slru_expire() comes to two queues is the order of    *)
(* their distances from the size of the new node.                          *)
(***************************************************************************)
LEMMA TurnsAreDistances ==
    ASSUME eviction # "lru", NEW size, NEW i \in QueueIds, NEW j \in QueueIds
    PROVE  Turn(size, i) < Turn(size, j) <=> Distance(size, i) < Distance(size, j)
<1>1. slru_index_for_size(size) \in QueueIds
    BY IndexInRange, Zenon
<1>2. /\ NQueues \in Nat /\ i \in 0 .. NQueues - 1 /\ j \in 0 .. NQueues - 1
      /\ slru_index_for_size(size) \in 0 .. NQueues - 1
    BY <1>1, SizesAssumption DEF QueueIds, NQueues
<1> QED
    BY <1>2 DEF Turn, Distance

(***************************************************************************)
(* Whatever the loop of ngx_wa_shm_kv_set_locked() has evicted so far had  *)
(* to go before anything it has left.                                      *)
(***************************************************************************)
LEMMA LostGoBefore ==
    ASSUME KvInv, NEW size, NEW cut \in Cuts(size),
           NEW y \in Lost(size, cut), NEW x \in DOMAIN tree \ Lost(size, cut)
    PROVE  GoesBefore(size, y, x)
<1> DEFINE left == Left(size, cut)
           ix == queue_for_node(tree[x].val)
           iy == queue_for_node(tree[y].val)
           d == cut[1]
           n == cut[2]
<1>1. Sound(queues, Place, recent)
    BY Zenon DEF KvInv
<1>2. /\ y \in DOMAIN Place
      /\ Sound(left, Rest(Place, Lost(size, cut)), recent)
    BY <1>1, LeftSound, Zenon
<1>3. Evicting /\ DOMAIN Place = DOMAIN tree /\ Place[x] = ix /\ Place[y] = iy
    BY <1>2, Zenon DEF Place
<1>4. ix \in QueueIds /\ iy \in QueueIds
    BY QueueInRange, Zenon
<1>5. d \in 1 .. NQueues /\ n \in 0 .. Len(queues[Visited(size, d)]) /\ NQueues \in Nat
    BY SizesAssumption DEF Cuts, NQueues
<1>6. /\ queues \in [QueueIds -> Seq(Keys)]
      /\ y \in Range(queues[iy])
      /\ \A i \in QueueIds : Sorted(queues[i], recent)
    BY <1>1, <1>2, <1>3, <1>4, Zenon DEF Sound
<1>7. x \in Range(left[ix]) /\ y \notin Range(left[iy])
    <2> HIDE DEF left, ix, iy
    <2> QED
        BY <1>2, <1>3, <1>4, Zenon DEF Sound, Rest
<1>8. \A i \in QueueIds :
        left[i] = IF \E e \in 1 .. d - 1 : Visited(size, e) = i THEN <<>>
                  ELSE IF Visited(size, d) = i THEN SubSeq(queues[i], 1, n)
                  ELSE queues[i]
    BY <1>6, Zenon DEF Left
<1> HIDE DEF left, ix, iy, d, n
<1>9. ~ \E e \in 1 .. d - 1 : Visited(size, e) = ix
    <2>1. Range(<<>>) = {}
        BY DEF Range
    <2> QED
        BY <1>4, <1>7, <1>8, <2>1, Zenon
<1>10. \E e \in 1 .. d : Visited(size, e) = iy
    <2>1. left[iy] # queues[iy]
        BY <1>6, <1>7, Zenon
    <2> QED
        BY <1>4, <1>5, <1>8, <2>1
<1>11. ASSUME ix = iy, Visited(size, d) = ix
       PROVE  <<x, y>> \in recent
    <2> DEFINE q == queues[ix]
    <2>1. q \in Seq(Keys) /\ n \in 0 .. Len(q) /\ left[ix] = SubSeq(q, 1, n)
        BY <1>4, <1>5, <1>6, <1>8, <1>9, <1>11, Zenon
    <2>2. Sorted(q, recent) /\ y \in Range(q) /\ x \in Range(left[ix]) /\ y \notin Range(left[ix])
        BY <1>4, <1>6, <1>7, <1>11, Zenon
    <2> HIDE DEF q
    <2>3. /\ DOMAIN q = 1 .. Len(q) /\ Len(q) \in Nat /\ n \in Nat /\ n <= Len(q)
          /\ DOMAIN left[ix] = 1 .. n
          /\ \A a \in 1 .. n : left[ix][a] = q[a]
        BY <2>1
    <2>4. PICK a \in 1 .. n : q[a] = x
        BY <2>2, <2>3, Zenon DEF Range
    <2>5. PICK b \in DOMAIN q : q[b] = y
        BY <2>2, Zenon DEF Range
    <2>6. b \notin 1 .. n
        BY <2>2, <2>3, <2>5, Zenon DEF Range
    <2>7. a \in DOMAIN q /\ a < b
        BY <2>3, <2>6
    <2> QED
        BY <2>2, <2>4, <2>5, <2>7, Zenon DEF Sorted
<1>12. CASE eviction = "lru"
    <2>1. ix = 0 /\ iy = 0
        BY <1>12, Zenon DEF ix, iy, queue_for_node
    <2>2. \A e \in 1 .. NQueues : Visited(size, e) = e - 1
        BY <1>5, <1>12 DEF Visited
    <2>3. d = 1
        BY <1>5, <1>9, <1>10, <2>1, <2>2
    <2>4. <<x, y>> \in recent
        BY <1>5, <1>11, <2>1, <2>2, <2>3
    <2>5. Distance(size, ix) = 0 /\ Distance(size, iy) = 0
        BY <1>12, Zenon DEF Distance
    <2> QED
        BY <2>4, <2>5, Zenon DEF GoesBefore, ix, iy
<1>13. CASE eviction # "lru"
    <2>1. Turn(size, ix) \in 1 .. NQueues /\ Turn(size, iy) \in 1 .. NQueues
        BY <1>4, <1>13, TurnsVisitAll, Zenon
    <2>2. Turn(size, ix) >= d
        <3>1. Turn(size, ix) \notin 1 .. d - 1
            BY <1>4, <1>9, <1>13, <2>1, TurnsVisitAll, Zenon
        <3> QED
            BY <1>5, <2>1, <3>1
    <2>3. Turn(size, iy) <= d
        <3>1. PICK e \in 1 .. d : Visited(size, e) = iy
            BY <1>10, Zenon
        <3>2. e = Turn(size, iy)
            BY <1>4, <1>5, <1>13, <3>1, TurnsVisitAll
        <3> QED
            BY <1>5, <3>2
    <2>4. CASE Turn(size, iy) < Turn(size, ix)
        <3>1. Distance(size, iy) < Distance(size, ix)
            BY <1>4, <1>13, <2>4, TurnsAreDistances, Zenon
        <3> QED
            BY <3>1, Zenon DEF GoesBefore, ix, iy
    <2>5. CASE Turn(size, iy) = Turn(size, ix)
        <3>1. Turn(size, ix) = d
            BY <1>5, <2>1, <2>2, <2>3, <2>5
        <3>2. Visited(size, d) = ix /\ Visited(size, d) = iy
            BY <1>4, <1>5, <1>13, <2>5, <3>1, TurnsVisitAll, Zenon
        <3>3. <<x, y>> \in recent
            BY <1>11, <3>2, Zenon
        <3>4. ix = iy
            BY <3>2, Zenon
        <3> QED
            BY <3>3, <3>4, Zenon DEF GoesBefore, ix, iy
    <2> QED
        BY <1>5, <2>1, <2>2, <2>3, <2>4, <2>5
<1> QED
    BY <1>12, <1>13, Zenon

(***************************************************************************)
(* An eviction never takes an entry while one that docs/SLRU.md ranks      *)
(* lower survives: one of a size tried earlier, or one of the same size    *)
(* used less recently.                                                     *)
(***************************************************************************)
THEOREM VictimsChosen ==
    Spec => VictimsLeastUseful
<1>1. KvInv /\ [Next]_vars => [TakesLeastUseful]_vars
    <2> SUFFICES ASSUME KvInv, Next, NEW z \in DOMAIN tree',
                        z \notin DOMAIN tree \/ tree'[z] # tree[z],
                        NEW y \in DOMAIN tree \ DOMAIN tree',
                        NEW x \in DOMAIN tree' \cap DOMAIN tree
                 PROVE  GoesBefore(Size(tree'[z].val), y, x)
        BY Zenon DEF TakesLeastUseful
    <2>1. tree' # tree
        BY Zenon
    <2>2. PICK w \in Workers, k \in Keys, c \in 0 .. CasWidth - 1 :
             \/ Delete(w, k, c)
             \/ \E v \in Values :
                   \/ SetInPlace(w, k, v, c)
                   \/ SetAlloc(w, k, v, c)
                   \/ SetTorn(w, k, v, c)
                   \/ SetNoMem(w, k, v, c)
        BY <2>1 DEF Next, GetMiss, GetLocked, SetMismatch, DeleteMissing, GetAlloc, GetTrap,
            GetCopy, Undefined, vars, zone
    <2>3. ASSUME NEW K, tree' = Kept(K) PROVE FALSE
        BY <2>3, Zenon DEF Kept
    <2>4. ~Delete(w, k, c)
        BY <2>3, Zenon DEF Delete
    <2>5. PICK v \in Values :
             \/ SetInPlace(w, k, v, c)
             \/ SetAlloc(w, k, v, c)
             \/ SetTorn(w, k, v, c)
             \/ SetNoMem(w, k, v, c)
        BY <2>2, <2>4, Zenon
    <2>6. ~SetTorn(w, k, v, c) /\ ~SetNoMem(w, k, v, c)
        BY <2>3, Zenon DEF SetTorn, SetNoMem
    <2>7. ~SetInPlace(w, k, v, c)
        BY Zenon DEF SetInPlace
    <2>8. SetAlloc(w, k, v, c)
        BY <2>5, <2>6, <2>7, Zenon
    <2> DEFINE size == Size(v)
    <2>9. PICK cut \in Cuts(size) : Replaces(Lost(size, cut), Left(size, cut), k, v)
        BY <2>8, AllocReplaces, Zenon DEF KvInv, Types
    <2> HIDE DEF size
    <2>10. /\ k \notin Lost(size, cut)
           /\ DOMAIN tree' = (DOMAIN tree \ Lost(size, cut)) \cup {k}
           /\ \A a \in DOMAIN tree' : a # k => tree'[a] = tree[a]
           /\ tree'[k].val = v
        BY <2>9, Zenon DEF Replaces
    <2>11. z = k /\ Size(tree'[z].val) = size
        BY <2>10, Zenon DEF size
    <2>12. y \in Lost(size, cut) /\ x \in DOMAIN tree \ Lost(size, cut)
        BY <2>10, Zenon
    <2> QED
        BY <2>11, <2>12, LostGoBefore, Zenon
<1> QED
    BY <1>1, KvInvariance, PTL DEF Spec, VictimsLeastUseful

----------------------------------------------------------------------------
(***************************************************************************)
(* The version the abstract store gives a key is the one a set compares    *)
(* with.                                                                   *)
(***************************************************************************)
LEMMA VersionIsCas ==
    ASSUME NEW k
    PROVE  /\ DOMAIN Store = DOMAIN tree
           /\ Map!Version(k) = CasOf(k)
BY Zenon DEF Store, Map!Version, CasOf

(***************************************************************************)
(* A set that succeeds answers with the version it has replaced.           *)
(***************************************************************************)
LEMMA AnswerWritten ==
    ASSUME NEW c, reply' = [rc |-> "written", of |-> c]
    PROVE  Answer' = <<"written", c>>
BY Zenon DEF Answer

(***************************************************************************)
(* A set that stores its value is a write of the abstract store, which     *)
(* loses the evicted entries.                                              *)
(***************************************************************************)
LEMMA WriteMaps ==
    ASSUME ~torn, torn' = torn, eviction' = eviction,
           NEW k \in Keys, NEW v \in Values, NEW c, c = CasOf(k),
           NEW lost \in SUBSET (DOMAIN tree \ {k}), Evicting \/ lost = {},
           DOMAIN tree' = (DOMAIN tree \ lost) \cup {k},
           tree'[k].val = v, tree'[k].cas = NextCas(c),
           \A x \in DOMAIN tree \ (lost \cup {k}) : tree'[x] = tree[x],
           reply' = [rc |-> "written", of |-> c]
    PROVE  Map!Write(k, v, c)
<1> DEFINE kept == Map!Without(lost)
           node == [val |-> v, cas |-> (c + 1) % CasWidth]
           new == [x \in DOMAIN kept \cup {k} |-> IF x = k THEN node ELSE kept[x]]
<1>1. lost \in Map!Losable(DOMAIN Store \ {k})
    BY VersionIsCas, Zenon DEF Map!Losable
<1>2. /\ DOMAIN kept = DOMAIN tree \ lost
      /\ \A x \in DOMAIN kept : kept[x] = [val |-> tree[x].val, cas |-> tree[x].cas]
    BY Zenon DEF Map!Without, Store
<1>3. Store' = [x \in DOMAIN tree' |-> [val |-> tree'[x].val, cas |-> tree'[x].cas]]
    BY Zenon DEF Store
<1>4. DOMAIN new = DOMAIN tree'
    BY <1>2, Zenon
<1>5. ASSUME NEW x \in DOMAIN tree' PROVE new[x] = [val |-> tree'[x].val, cas |-> tree'[x].cas]
    <2>1. CASE x = k
        BY <1>4, <2>1, Zenon DEF NextCas
    <2>2. CASE x # k
        BY <1>2, <1>4, <2>2, Zenon
    <2> QED
        BY <2>1, <2>2, Zenon
<1>6. Store' = new
    <2> HIDE DEF kept, node
    <2> QED
        BY <1>3, <1>4, <1>5, Zenon
<1>7. Evicting' = Evicting /\ (~torn)' = ~torn
    BY Zenon DEF Evicting
<1>8. Answer' = <<"written", c>>
    BY AnswerWritten
<1> QED
    BY <1>1, <1>6, <1>7, <1>8, VersionIsCas, Zenon DEF Map!Write

(***************************************************************************)
(* Every step of the zone is a step of the versioned map, or changes       *)
(* nothing that the map shows.                                             *)
(***************************************************************************)
LEMMA StoreStep ==
    KvInv /\ [Next]_vars => [Map!Next]_<<Store, Evicting, ~torn, Answer>>
<1> SUFFICES ASSUME KvInv, [Next]_vars
             PROVE  Map!Next \/ UNCHANGED <<Store, Evicting, ~torn, Answer>>
    BY Zenon
<1>1. Types /\ Sound(queues, Place, recent)
    BY Zenon DEF KvInv
<1>2. ASSUME UNCHANGED <<eviction, tree, torn, reply>>
      PROVE  UNCHANGED <<Store, Evicting, ~torn, Answer>>
    BY <1>2, Zenon DEF Store, Evicting, Answer
<1>3. CASE UNCHANGED vars
    BY <1>2, <1>3, Zenon DEF vars, zone
<1>4. ASSUME NEW w \in Workers, NEW k \in Keys, GetMiss(w, k) PROVE Map!Next
    <2>1. Map!Read(k)
        BY <1>4, VersionIsCas, Zenon DEF GetMiss, Idle, Map!Read, Store, Evicting, Answer, zone
    <2> QED
        BY <2>1, Zenon DEF Map!Next
<1>5. ASSUME NEW w \in Workers, NEW k \in Keys, GetLocked(w, k)
      PROVE  UNCHANGED <<Store, Evicting, ~torn, Answer>>
    BY <1>2, <1>5, Zenon DEF GetLocked
<1>6. ASSUME NEW w \in Workers, NEW k \in Keys, NEW c \in 0 .. CasWidth - 1,
             SetMismatch(w, k, c) \/ DeleteMissing(w, k, c)
      PROVE  Map!Next
    <2>1. Map!Refuse(k, c)
        BY <1>6, VersionIsCas DEF SetMismatch, DeleteMissing, CasMatches, Idle, Map!Refuse, Store,
            Evicting, Answer, zone
    <2> QED
        BY <2>1, Zenon DEF Map!Next
<1>7. ASSUME NEW w \in Workers, NEW k \in Keys, NEW c \in 0 .. CasWidth - 1, Delete(w, k, c)
      PROVE  Map!Next
    <2>1. /\ ~torn /\ c = CasOf(k) /\ k \in DOMAIN tree
          /\ tree' = Kept({k})
          /\ reply' = [rc |-> "written", of |-> c]
          /\ eviction' = eviction /\ torn' = torn
        BY <1>7, Zenon DEF Delete, Idle, CasMatches
    <2>2. Store' = Map!Without({k})
        BY <2>1, Zenon DEF Store, Kept, Map!Without
    <2>3. Evicting' = Evicting /\ (~torn)' = ~torn
        BY <2>1, Zenon DEF Evicting
    <2>4. Answer' = <<"written", c>>
        BY <2>1, AnswerWritten, Zenon
    <2>5. Map!Delete(k, c)
        BY <2>1, <2>2, <2>3, <2>4, VersionIsCas, Zenon DEF Map!Delete
    <2> QED
        BY <2>5, Zenon DEF Map!Next
<1>8. ASSUME NEW w \in Workers, NEW k \in Keys, NEW c \in 0 .. CasWidth - 1, NEW v \in Values,
             SetInPlace(w, k, v, c)
      PROVE  Map!Next
    <2>1. /\ ~torn /\ c = CasOf(k) /\ k \in DOMAIN tree
          /\ tree' = [tree EXCEPT ![k].val = v, ![k].cas = NextCas(@)]
          /\ reply' = [rc |-> "written", of |-> c]
          /\ eviction' = eviction /\ torn' = torn
        BY <1>8, Zenon DEF SetInPlace, Fits, Idle, CasMatches
    <2>2. tree[k] \in Nodes /\ tree[k].cas = c
        BY <1>1, <2>1, Zenon DEF Types, Entries, CasOf
    <2>3. tree'[k] = [[tree[k] EXCEPT !.val = v] EXCEPT !.cas = NextCas(c)]
        BY <2>1, <2>2, Zenon DEF Nodes
    <2>4. tree'[k].val = v /\ tree'[k].cas = NextCas(c)
        BY <2>2, <2>3, Zenon DEF Nodes
    <2>5. /\ DOMAIN tree' = (DOMAIN tree \ {}) \cup {k}
          /\ \A x \in DOMAIN tree \ ({} \cup {k}) : tree'[x] = tree[x]
        BY <2>1, Zenon
    <2>6. {} \in SUBSET (DOMAIN tree \ {k})
        BY Zenon
    <2>7. Map!Write(k, v, c)
        BY <2>1, <2>4, <2>5, <2>6, WriteMaps, Zenon
    <2> QED
        BY <2>7, Zenon DEF Map!Next
<1>9. ASSUME NEW w \in Workers, NEW k \in Keys, NEW c \in 0 .. CasWidth - 1, NEW v \in Values,
             SetAlloc(w, k, v, c)
      PROVE  Map!Next
    <2>1. /\ ~torn /\ c = CasOf(k)
          /\ reply' = [rc |-> "written", of |-> c]
          /\ eviction' = eviction /\ torn' = torn
        BY <1>9, Zenon DEF SetAlloc, Allocates, Idle, CasMatches
    <2>2. PICK cut \in Cuts(Size(v)) : Replaces(Lost(Size(v), cut), Left(Size(v), cut), k, v)
        BY <1>1, <1>9, AllocReplaces, Zenon DEF Types
    <2> DEFINE lost == Lost(Size(v), cut)
    <2>3. lost \subseteq DOMAIN Place
        BY <1>1, LeftSound, Zenon
    <2>4. /\ k \notin lost
          /\ DOMAIN tree' = (DOMAIN tree \ lost) \cup {k}
          /\ tree'[k].val = v /\ tree'[k].cas = NextCas(c)
          /\ \A x \in DOMAIN tree \ (lost \cup {k}) : tree'[x] = tree[x]
        BY <2>1, <2>2, Zenon DEF Replaces
    <2> HIDE DEF lost
    <2>5. lost \in SUBSET (DOMAIN tree \ {k}) /\ (Evicting \/ lost = {})
        BY <2>3, <2>4, Zenon DEF Place
    <2>6. Map!Write(k, v, c)
        BY <2>1, <2>4, <2>5, WriteMaps, Zenon
    <2> QED
        BY <2>6, Zenon DEF Map!Next
<1>10. ASSUME NEW w \in Workers, NEW k \in Keys, NEW c \in 0 .. CasWidth - 1, NEW v \in Values,
              SetTorn(w, k, v, c)
       PROVE  Map!Next
    <2>1. /\ ~torn /\ torn' = TRUE
          /\ tree' = Kept(DOMAIN tree)
          /\ reply' = [rc |-> "undefined"]
          /\ eviction' = eviction
        BY <1>10, Zenon DEF SetTorn, Allocates, Idle
    <2>2. PICK cut \in Expired(Size(v)) : k \in Lost(Size(v), cut)
        BY <1>10, Zenon DEF SetTorn
    <2>3. k \in DOMAIN Place
        <3>1. cut \in Cuts(Size(v))
            BY Zenon DEF Expired, Enough
        <3> QED
            BY <1>1, <2>2, <3>1, LeftSound, Zenon
    <2>4. Evicting
        BY <2>3, Zenon DEF Place
    <2>5. Store' = Map!Without(DOMAIN Store)
        BY <2>1, Zenon DEF Store, Kept, Map!Without
    <2>6. Answer' = <<"undefined">>
        BY <2>1, Zenon DEF Answer
    <2>7. Evicting' = Evicting /\ (~torn)' = FALSE
        BY <2>1, Zenon DEF Evicting
    <2>8. Map!Damage
        BY <2>1, <2>4, <2>5, <2>6, <2>7, Zenon DEF Map!Damage
    <2> QED
        BY <2>8, Zenon DEF Map!Next
<1>11. ASSUME NEW w \in Workers, NEW k \in Keys, NEW c \in 0 .. CasWidth - 1, NEW v \in Values,
              SetNoMem(w, k, v, c)
       PROVE  Map!Next
    <2>1. /\ ~torn /\ c = CasOf(k)
          /\ tree' = Kept(Queued(queues))
          /\ reply' = [rc |-> "nomem"]
          /\ eviction' = eviction /\ torn' = torn
        BY <1>11, Zenon DEF SetNoMem, Allocates, Idle, CasMatches
    <2>2. Queued(queues) = IF Evicting THEN DOMAIN tree ELSE {}
        <3>1. \A x \in DOMAIN Place : Place[x] \in QueueIds
            BY QueueInRange, Zenon DEF Place
        <3>2. Queued(queues) = DOMAIN Place
            BY <1>1, <3>1, QueuedArePlaced, Zenon
        <3> QED
            BY <3>2, Zenon DEF Place
    <2>3. Store' = IF Evicting THEN Map!Without(DOMAIN Store) ELSE Store
        <3>1. CASE Evicting
            BY <2>1, <2>2, <3>1, Zenon DEF Store, Kept, Map!Without
        <3>2. CASE ~Evicting
            BY <2>1, <2>2, <3>2, Zenon DEF Store, Kept
        <3> QED
            BY <3>1, <3>2, Zenon
    <2>4. Answer' = <<"nomem">>
        BY <2>1, Zenon DEF Answer
    <2>5. Evicting' = Evicting /\ (~torn)' = ~torn
        BY <2>1, Zenon DEF Evicting
    <2>6. Map!WriteFails(k, c)
        BY <2>1, <2>3, <2>4, <2>5, VersionIsCas, Zenon DEF Map!WriteFails
    <2> QED
        BY <2>6, Zenon DEF Map!Next
<1>12. ASSUME NEW w \in Workers, GetAlloc(w)
       PROVE  UNCHANGED <<Store, Evicting, ~torn, Answer>>
    BY <1>2, <1>12, Zenon DEF GetAlloc, zone
<1>13. ASSUME NEW w \in Workers, GetTrap(w) \/ GetCopy(w) PROVE Map!Next
    <2>1. PICK r \in reading[w] : TRUE
        BY <1>13, Zenon DEF GetTrap, GetCopy
    <2>2. r.key \in Keys
        BY <1>1 DEF Types, Readers, Gets
    <2>3. ~torn /\ UNCHANGED <<eviction, tree, torn>>
        BY <1>13, Zenon DEF GetTrap, GetCopy, zone
    <2>4. Answer' = <<"read">> \/ Answer' = <<"trap">>
        BY <1>13 DEF GetTrap, GetCopy, Answer
    <2>5. Store' = Store /\ Evicting' = Evicting /\ (~torn)' = ~torn
        BY <2>3, Zenon DEF Store, Evicting
    <2>6. Map!Read(r.key)
        BY <2>3, <2>4, <2>5, Zenon DEF Map!Read
    <2> QED
        BY <2>2, <2>6, Zenon DEF Map!Next
<1> QED
    BY <1>3, <1>4, <1>5, <1>6, <1>7, <1>8, <1>9, <1>10, <1>11, <1>12, <1>13 DEF Next, Undefined

(***************************************************************************)
(* The zone implements the versioned map: an entry changes only by a write *)
(* or delete naming its current version, a refused one changes nothing,    *)
(* entries only vanish by delete or, with an eviction policy, to make      *)
(* room, and without one never.                                            *)
(***************************************************************************)
THEOREM KvKeepsPromise ==
    Spec => MapSpec
<1>1. Init => Map!Init
    <2> SUFFICES ASSUME Init PROVE Map!Init
        BY Zenon
    <2>1. Store = [k \in {} |-> {}]
        BY Zenon DEF Init, Store
    <2>2. Answer = <<"none">>
        BY Zenon DEF Init, Answer
    <2>3. Evicting \in BOOLEAN /\ (~torn) = TRUE
        BY Zenon DEF Init, Evicting
    <2> QED
        BY <2>1, <2>2, <2>3, Zenon DEF Map!Init
<1>2. KvInv /\ [Next]_vars => [Map!Next]_Map!vars
    BY StoreStep, Zenon DEF Map!vars
<1> QED
    BY <1>1, <1>2, KvInvariance, PTL DEF Spec, MapSpec, Map!Spec
=============================================================================
