--------------------------- MODULE ShmQueueProofs ---------------------------
(***************************************************************************)
(* Proofs about the shared-memory queue, for any number of workers, any    *)
(* capacity, header size and set of messages.                              *)
(***************************************************************************)
EXTENDS ShmQueue, TLAPS

(***************************************************************************)
(* The offsets, the flag and the entries in the ring, strengthened to be   *)
(* inductive: the entries are ordered and end before the occupancy (what   *)
(* EntriesFillRing says of neighbours, said of every pair), and the worker *)
(* inside alloc() has read the length of the oldest entry.                 *)
(***************************************************************************)
EntriesOrdered ==
    /\ \A k \in 1 .. Len(entries) : EntryEnd(entries[k]) <= Occupancy
    /\ \A j, k \in 1 .. Len(entries) :
          j < k => EntryEnd(entries[j]) <= entries[k].at

PendingIsOldest ==
    holder # NoWorker => /\ entries # <<>>
                         /\ pending = Len(entries[1].data)

QueueInv ==
    /\ TypeOK
    /\ EntriesFillRing
    /\ EntriesOrdered
    /\ EntriesIntact
    /\ PendingIsOldest
    /\ CopiesInBounds

----------------------------------------------------------------------------
(***************************************************************************)
(* inc_ptr() keeps an offset inside the ring.                              *)
(***************************************************************************)
LEMMA IncPtrInRing ==
    ASSUME NEW p \in Offsets, NEW n \in 0 .. Capacity
    PROVE  inc_ptr(p, n) \in Offsets
  BY CapacityAssumption DEF inc_ptr, Offsets

(***************************************************************************)
(* Two moves of inc_ptr() that stay within one turn are one move.          *)
(***************************************************************************)
LEMMA IncPtrAdds ==
    ASSUME NEW p \in Offsets, NEW a \in Nat, NEW b \in Nat, a + b <= Capacity
    PROVE  inc_ptr(inc_ptr(p, a), b) = inc_ptr(p, a + b)
  BY CapacityAssumption DEF inc_ptr, Offsets

(***************************************************************************)
(* Distinct distances below one turn reach distinct offsets.               *)
(***************************************************************************)
LEMMA IncPtrInjective ==
    ASSUME NEW p \in Offsets, NEW a \in Offsets, NEW b \in Offsets,
           inc_ptr(p, a) = inc_ptr(p, b)
    PROVE  a = b
  BY CapacityAssumption DEF inc_ptr, Offsets

(***************************************************************************)
(* queue_occupancy() is the distance from the read to the write offset.    *)
(***************************************************************************)
LEMMA OccupancyIsDistance ==
    ASSUME NEW push \in Offsets, NEW pop \in Offsets, NEW rising \in BOOLEAN
    PROVE  /\ queue_occupancy(push, pop, rising) \in 0 .. Capacity
           /\ push = inc_ptr(pop, queue_occupancy(push, pop, rising))
  BY CapacityAssumption DEF queue_occupancy, inc_ptr, Offsets

(***************************************************************************)
(* A push of n bytes that fit adds n to the occupancy, also when it makes  *)
(* the ring exactly full.                                                  *)
(***************************************************************************)
LEMMA OccupancyAfterPush ==
    ASSUME NEW push \in Offsets, NEW pop \in Offsets, NEW rising \in BOOLEAN,
           NEW n \in Nat \ {0},
           queue_occupancy(push, pop, rising) + n <= Capacity
    PROVE  queue_occupancy(inc_ptr(push, n), pop, TRUE)
             = queue_occupancy(push, pop, rising) + n
  BY CapacityAssumption DEF queue_occupancy, inc_ptr, Offsets

(***************************************************************************)
(* A pop of n bytes takes n from the occupancy, also when it empties the   *)
(* ring.                                                                   *)
(***************************************************************************)
LEMMA OccupancyAfterPop ==
    ASSUME NEW push \in Offsets, NEW pop \in Offsets, NEW rising \in BOOLEAN,
           NEW n \in Nat \ {0},
           n <= queue_occupancy(push, pop, rising)
    PROVE  queue_occupancy(push, inc_ptr(pop, n), FALSE)
             = queue_occupancy(push, pop, rising) - n
  BY CapacityAssumption DEF queue_occupancy, inc_ptr, Offsets

(***************************************************************************)
(* circular_write() puts byte i at i - 1 bytes past ptr, around the end of *)
(* the ring, and leaves the other offsets alone.                           *)
(***************************************************************************)
LEMMA CircularWrite ==
    ASSUME NEW buf \in [Offsets -> Bytes], NEW ptr \in Offsets,
           NEW bytes \in Seq(Bytes), Len(bytes) <= Capacity
    PROVE  /\ circular_write(buf, ptr, bytes) \in [Offsets -> Bytes]
           /\ \A i \in 1 .. Len(bytes) :
                 circular_write(buf, ptr, bytes)[inc_ptr(ptr, i - 1)] = bytes[i]
           /\ \A o \in Offsets :
                 (\A i \in 1 .. Len(bytes) : o # inc_ptr(ptr, i - 1))
                    => circular_write(buf, ptr, bytes)[o] = buf[o]
<1> DEFINE forward == Capacity - ptr
           new == circular_write(buf, ptr, bytes)
<1>1. /\ Len(bytes) \in Nat
      /\ \A i \in 1 .. Len(bytes) : bytes[i] \in Bytes
  OBVIOUS
<1>2. /\ ptr \in Nat /\ ptr < Capacity /\ forward \in 1 .. Capacity
      /\ Capacity \in Nat
  BY CapacityAssumption DEF Offsets
<1>3. \A o \in Offsets :
         new[o] = IF Len(bytes) >= forward /\ o < Len(bytes) - forward
                  THEN bytes[forward + o + 1]
                  ELSE IF ptr <= o /\ o < ptr + Len(bytes)
                       THEN bytes[o - ptr + 1]
                       ELSE buf[o]
  BY Zenon DEF circular_write
<1>4. new \in [Offsets -> Bytes]
  <2>1. SUFFICES ASSUME NEW o \in Offsets PROVE new[o] \in Bytes
    BY Zenon DEF circular_write
  <2>2. o \in Nat /\ o < Capacity
    BY <1>2 DEF Offsets
  <2>3. CASE Len(bytes) >= forward /\ o < Len(bytes) - forward
    <3>1. forward + o + 1 \in 1 .. Len(bytes)
      BY <1>1, <1>2, <2>2, <2>3
    <3> QED BY <1>1, <1>3, <2>3, <3>1, Zenon
  <2>4. CASE ~(Len(bytes) >= forward /\ o < Len(bytes) - forward)
             /\ ptr <= o /\ o < ptr + Len(bytes)
    <3>1. o - ptr + 1 \in 1 .. Len(bytes)
      BY <1>1, <1>2, <2>2, <2>4
    <3> QED BY <1>1, <1>3, <2>4, <3>1, Zenon
  <2>5. CASE ~(Len(bytes) >= forward /\ o < Len(bytes) - forward)
             /\ ~(ptr <= o /\ o < ptr + Len(bytes))
    BY <1>3, <2>5, Zenon
  <2> QED BY <2>3, <2>4, <2>5, Zenon
<1>5. ASSUME NEW i \in 1 .. Len(bytes)
      PROVE  new[inc_ptr(ptr, i - 1)] = bytes[i]
  <2>1. CASE ptr + (i - 1) >= Capacity
    <3>1. /\ inc_ptr(ptr, i - 1) = ptr + (i - 1) - Capacity
          /\ ptr + (i - 1) - Capacity \in Offsets
      BY <1>1, <1>2, <2>1 DEF inc_ptr, Offsets
    <3>2. /\ Len(bytes) >= forward
          /\ ptr + (i - 1) - Capacity < Len(bytes) - forward
          /\ forward + (ptr + (i - 1) - Capacity) + 1 = i
      BY <1>1, <1>2, <2>1
    <3> HIDE DEF new, forward
    <3> QED BY <1>3, <3>1, <3>2, Zenon
  <2>2. CASE ptr + (i - 1) < Capacity
    <3>1. /\ inc_ptr(ptr, i - 1) = ptr + (i - 1)
          /\ ptr + (i - 1) \in Offsets
      BY <1>1, <1>2, <2>2 DEF inc_ptr, Offsets
    <3>2. /\ ~(ptr + (i - 1) < Len(bytes) - forward)
          /\ ptr <= ptr + (i - 1)
          /\ ptr + (i - 1) < ptr + Len(bytes)
          /\ (ptr + (i - 1)) - ptr + 1 = i
      BY <1>1, <1>2, <2>2
    <3> HIDE DEF new, forward
    <3> QED BY <1>3, <3>1, <3>2, Zenon
  <2> QED BY <1>1, <1>2, <2>1, <2>2
<1>6. ASSUME NEW o \in Offsets,
             \A i \in 1 .. Len(bytes) : o # inc_ptr(ptr, i - 1)
      PROVE  new[o] = buf[o]
  <2>0. o \in Nat /\ o < Capacity
    BY <1>2 DEF Offsets
  <2>1. ASSUME Len(bytes) >= forward, o < Len(bytes) - forward PROVE FALSE
    <3>1. /\ forward + o + 1 \in 1 .. Len(bytes)
          /\ inc_ptr(ptr, (forward + o + 1) - 1) = o
      BY <1>1, <1>2, <2>0, <2>1 DEF inc_ptr
    <3> QED BY <1>6, <3>1, Zenon
  <2>2. ASSUME ptr <= o, o < ptr + Len(bytes) PROVE FALSE
    <3>1. /\ o - ptr + 1 \in 1 .. Len(bytes)
          /\ inc_ptr(ptr, (o - ptr + 1) - 1) = o
      BY <1>1, <1>2, <2>0, <2>2 DEF inc_ptr
    <3> QED BY <1>6, <3>1, Zenon
  <2> QED BY <1>3, <2>1, <2>2, Zenon
<1> QED BY <1>4, <1>5, <1>6, Zenon

(***************************************************************************)
(* circular_read() returns the bytes at 0 .. size-1 past ptr.              *)
(***************************************************************************)
LEMMA CircularRead ==
    ASSUME NEW buf \in [Offsets -> Bytes], NEW ptr \in Offsets,
           NEW size \in 0 .. Capacity
    PROVE  /\ DOMAIN circular_read(buf, ptr, size) = 1 .. size
           /\ \A i \in 1 .. size :
                circular_read(buf, ptr, size)[i] = buf[inc_ptr(ptr, i - 1)]
  BY CapacityAssumption DEF circular_read, inc_ptr, Offsets
----------------------------------------------------------------------------
(***************************************************************************)
(* The occupancy is a number of bytes of the ring, and the write offset    *)
(* lies that far past the read offset.                                     *)
(***************************************************************************)
LEMMA OccupancyType ==
    ASSUME TypeOK
    PROVE  Occupancy \in 0 .. Capacity /\ push_ptr = inc_ptr(pop_ptr, Occupancy)
  BY OccupancyIsDistance, Zenon DEF TypeOK, Occupancy

(***************************************************************************)
(* What the entries are: each has a place and a message.                   *)
(***************************************************************************)
LEMMA EntryType ==
    ASSUME TypeOK, NEW k \in 1 .. Len(entries)
    PROVE  /\ entries[k].at \in Nat
           /\ entries[k].data \in Messages
           /\ entries[k].data \in Seq(Nat)
           /\ Len(entries[k].data) \in Nat
           /\ EntrySize(entries[k]) \in Nat \ {0}
           /\ EntryEnd(entries[k]) = entries[k].at + EntrySize(entries[k])
           /\ EntrySize(entries[k]) = Header + Len(entries[k].data)
<1>0. entries \in Seq(Entries)
  BY Zenon DEF TypeOK
<1>1. entries[k] \in Entries
  BY <1>0
<1>2. entries[k].at \in Nat /\ entries[k].data \in Messages
  BY <1>1, Zenon DEF Entries
<1>3. entries[k].data \in Seq(Nat)
  BY <1>2, MessagesAssumption, Zenon
<1>4. Len(entries[k].data) \in Nat
  BY <1>3
<1> QED BY <1>2, <1>3, <1>4, HeaderAssumption DEF EntrySize, EntryEnd

(***************************************************************************)
(* A push writes the header and the message right behind the occupied      *)
(* bytes and changes none of these.                                        *)
(***************************************************************************)
LEMMA PushWrites ==
    ASSUME TypeOK, NEW w, NEW m \in Messages, Push(w, m)
    PROVE  /\ buffer' \in [Offsets -> Bytes]
           /\ push_ptr' \in Offsets
           /\ Occupancy' = Occupancy + (Header + Len(m))
           /\ \A d \in Nat : d < Occupancy =>
                 buffer'[inc_ptr(pop_ptr, d)] = buffer[inc_ptr(pop_ptr, d)]
           /\ \A i \in 1 .. Header :
                 buffer'[inc_ptr(pop_ptr, Occupancy + i - 1)]
                   = HeaderByte(Len(m), i)
           /\ \A i \in 1 .. Len(m) :
                 buffer'[inc_ptr(pop_ptr, Occupancy + Header + i - 1)]
                   = DataByte(m[i])
<1> DEFINE mid == inc_ptr(push_ptr, Header)
           hdr == HeaderBytes(Len(m))
           body == DataBytes(m)
           written == circular_write(buffer, push_ptr, hdr)
<1>1. m \in Seq(Nat) /\ Len(m) \in Nat /\ Header \in Nat \ {0}
      /\ Capacity \in Nat \ {0}
  BY MessagesAssumption, HeaderAssumption, CapacityAssumption
<1>2. Occupancy \in 0 .. Capacity /\ push_ptr = inc_ptr(pop_ptr, Occupancy)
  BY OccupancyType, Zenon
<1>3. Occupancy + (Header + Len(m)) <= Capacity
  BY <1>1, <1>2 DEF Push, QueueFull
<1>4. /\ buffer \in [Offsets -> Bytes] /\ push_ptr \in Offsets
      /\ pop_ptr \in Offsets /\ rising_occupancy \in BOOLEAN
  BY Zenon DEF TypeOK
<1>5. /\ hdr \in Seq(Bytes) /\ Len(hdr) = Header
      /\ \A i \in 1 .. Header : hdr[i] = HeaderByte(Len(m), i)
  BY <1>1 DEF HeaderBytes, HeaderByte, Bytes
<1>6. /\ body \in Seq(Bytes) /\ Len(body) = Len(m)
      /\ \A i \in 1 .. Len(m) : body[i] = DataByte(m[i])
  BY <1>1 DEF DataBytes, DataByte, Bytes
<1>7. /\ mid \in Offsets
      /\ \A j \in Nat : Header + j <= Capacity =>
            inc_ptr(mid, j) = inc_ptr(push_ptr, Header + j)
  BY <1>1, <1>2, <1>3, <1>4, IncPtrInRing, IncPtrAdds, SMTT(30)
<1>8. \A j \in Nat : Occupancy + j <= Capacity =>
         inc_ptr(push_ptr, j) = inc_ptr(pop_ptr, Occupancy + j)
  BY <1>2, <1>4, IncPtrAdds
<1>9. \A j \in Nat : Occupancy + Header + j <= Capacity =>
         inc_ptr(mid, j) = inc_ptr(pop_ptr, Occupancy + Header + j)
  <2> SUFFICES ASSUME NEW j \in Nat, Occupancy + Header + j <= Capacity
               PROVE  inc_ptr(mid, j) = inc_ptr(pop_ptr, Occupancy + Header + j)
    BY Zenon
  <2>1. inc_ptr(mid, j) = inc_ptr(push_ptr, Header + j)
    BY <1>1, <1>2, <1>7
  <2>2. inc_ptr(push_ptr, Header + j) = inc_ptr(pop_ptr, Occupancy + (Header + j))
    <3>1. Header + j \in Nat /\ Occupancy + (Header + j) <= Capacity
      BY <1>1, <1>2
    <3> QED BY <1>8, <3>1, Zenon
  <2>3. Occupancy + (Header + j) = Occupancy + Header + j
    BY <1>1, <1>2
  <2> QED BY <2>1, <2>2, <2>3, Zenon
<1>10. /\ written \in [Offsets -> Bytes]
       /\ \A i \in 1 .. Header :
             written[inc_ptr(push_ptr, i - 1)] = HeaderByte(Len(m), i)
       /\ \A o \in Offsets :
             (\A i \in 1 .. Header : o # inc_ptr(push_ptr, i - 1))
               => written[o] = buffer[o]
  <2>1. Len(hdr) <= Capacity
    BY <1>1, <1>2, <1>3, <1>5
  <2> HIDE DEF hdr
  <2> QED BY <1>4, <1>5, <2>1, CircularWrite, ZenonT(30)
<1>11. /\ buffer' \in [Offsets -> Bytes]
       /\ \A i \in 1 .. Len(m) :
             buffer'[inc_ptr(mid, i - 1)] = DataByte(m[i])
       /\ \A o \in Offsets :
             (\A i \in 1 .. Len(m) : o # inc_ptr(mid, i - 1))
               => buffer'[o] = written[o]
  <2>1. Len(body) <= Capacity
    BY <1>1, <1>2, <1>3, <1>6
  <2>2. buffer' = circular_write(written, mid, body)
    BY Zenon DEF Push
  <2> HIDE DEF body, written, mid
  <2> QED BY <1>6, <1>7, <1>10, <2>1, <2>2, CircularWrite
<1> HIDE DEF hdr, body, written, mid
<1>12. ASSUME NEW d \in Nat, d < Occupancy + Header
       PROVE  buffer'[inc_ptr(pop_ptr, d)] = written[inc_ptr(pop_ptr, d)]
  <2>0. d \in Offsets /\ d \in 0 .. Capacity
    BY <1>1, <1>2, <1>3, <1>12 DEF Offsets
  <2>1. inc_ptr(pop_ptr, d) \in Offsets
    BY <1>4, <2>0, IncPtrInRing, Zenon
  <2>2. ASSUME NEW i \in 1 .. Len(m), inc_ptr(pop_ptr, d) = inc_ptr(mid, i - 1)
        PROVE  FALSE
    <3>1. i - 1 \in Nat /\ Occupancy + Header + (i - 1) <= Capacity
          /\ Occupancy + Header + (i - 1) \in Offsets
      BY <1>1, <1>2, <1>3 DEF Offsets
    <3>a. inc_ptr(pop_ptr, d) = inc_ptr(pop_ptr, Occupancy + Header + (i - 1))
      BY <1>9, <2>2, <3>1, Zenon
    <3>2. d = Occupancy + Header + (i - 1)
      BY <1>4, <2>0, <3>1, <3>a, IncPtrInjective, Zenon
    <3> QED BY <1>1, <1>2, <1>12, <3>1, <3>2
  <2> QED BY <1>11, <2>1, <2>2, Zenon
<1>13. ASSUME NEW d \in Nat, d < Occupancy
       PROVE  buffer'[inc_ptr(pop_ptr, d)] = buffer[inc_ptr(pop_ptr, d)]
  <2>0. d \in Offsets /\ d \in 0 .. Capacity
    BY <1>1, <1>2, <1>3, <1>13 DEF Offsets
  <2>1. inc_ptr(pop_ptr, d) \in Offsets
    BY <1>4, <2>0, IncPtrInRing, Zenon
  <2>2. ASSUME NEW i \in 1 .. Header,
               inc_ptr(pop_ptr, d) = inc_ptr(push_ptr, i - 1)
        PROVE  FALSE
    <3>1. i - 1 \in Nat /\ Occupancy + (i - 1) <= Capacity
          /\ Occupancy + (i - 1) \in Offsets
      BY <1>1, <1>2, <1>3 DEF Offsets
    <3>a. inc_ptr(pop_ptr, d) = inc_ptr(pop_ptr, Occupancy + (i - 1))
      BY <1>8, <2>2, <3>1, Zenon
    <3>2. d = Occupancy + (i - 1)
      BY <1>4, <2>0, <3>1, <3>a, IncPtrInjective, Zenon
    <3> QED BY <1>1, <1>2, <1>13, <3>1, <3>2
  <2>3. written[inc_ptr(pop_ptr, d)] = buffer[inc_ptr(pop_ptr, d)]
    BY <1>10, <2>1, <2>2, Zenon
  <2> QED BY <1>1, <1>2, <1>12, <1>13, <2>3
<1>14. ASSUME NEW i \in 1 .. Header
       PROVE  buffer'[inc_ptr(pop_ptr, Occupancy + i - 1)] = HeaderByte(Len(m), i)
  <2>1. /\ i - 1 \in Nat /\ Occupancy + i - 1 = Occupancy + (i - 1)
        /\ Occupancy + i - 1 \in Nat /\ Occupancy + i - 1 < Occupancy + Header
        /\ Occupancy + (i - 1) <= Capacity
    BY <1>1, <1>2, <1>3
  <2>2. inc_ptr(pop_ptr, Occupancy + i - 1) = inc_ptr(push_ptr, i - 1)
    BY <1>8, <2>1, Zenon
  <2> QED BY <1>10, <1>12, <2>1, <2>2, Zenon
<1>15. ASSUME NEW i \in 1 .. Len(m)
       PROVE  buffer'[inc_ptr(pop_ptr, Occupancy + Header + i - 1)]
                = DataByte(m[i])
  <2>1. /\ i - 1 \in Nat
        /\ Occupancy + Header + i - 1 = Occupancy + Header + (i - 1)
        /\ Occupancy + Header + (i - 1) <= Capacity
    BY <1>1, <1>2, <1>3
  <2> QED BY <1>9, <1>11, <2>1, Zenon
<1>16. push_ptr' = inc_ptr(push_ptr, Header + Len(m)) /\ push_ptr' \in Offsets
  <2>1. push_ptr' = inc_ptr(mid, Len(m))
    BY Zenon DEF Push, mid
  <2>2. Header + Len(m) \in 0 .. Capacity
    BY <1>1, <1>2, <1>3
  <2> QED BY <1>1, <1>2, <1>3, <1>4, <1>7, <2>1, <2>2, IncPtrInRing
<1>17. Occupancy' = Occupancy + (Header + Len(m))
  <2>1. Header + Len(m) \in Nat \ {0}
    BY <1>1
  <2>2. Occupancy' = queue_occupancy(push_ptr', pop_ptr, TRUE)
    BY Zenon DEF Push, Occupancy
  <2> QED BY <1>3, <1>4, <1>16, <2>1, <2>2, OccupancyAfterPush, ZenonT(30) DEF Occupancy
<1> QED BY <1>11, <1>13, <1>14, <1>15, <1>16, <1>17, Zenon
(***************************************************************************)
(* The ring is reported empty exactly when it holds no entry.              *)
(***************************************************************************)
LEMMA EmptyIffNoEntry ==
    ASSUME TypeOK, EntriesFillRing, EntriesOrdered
    PROVE  QueueEmpty <=> entries = <<>>
<1>1. Header \in Nat \ {0} /\ Capacity \in Nat
  BY HeaderAssumption, CapacityAssumption, Zenon
<1>2. CASE entries = <<>>
  BY <1>1, <1>2 DEF EntriesFillRing, QueueEmpty
<1>3. CASE entries # <<>>
  <2>1. 1 \in 1 .. Len(entries)
    BY <1>3 DEF TypeOK
  <2>2. EntryEnd(entries[1]) <= Occupancy
    BY <2>1, Zenon DEF EntriesOrdered
  <2>3. EntryEnd(entries[1]) >= Header /\ EntryEnd(entries[1]) \in Nat
    <3>1. /\ entries[1].at \in Nat /\ Len(entries[1].data) \in Nat
          /\ EntryEnd(entries[1]) = entries[1].at + EntrySize(entries[1])
          /\ EntrySize(entries[1]) = Header + Len(entries[1].data)
      BY <2>1, EntryType, Zenon
    <3> QED BY <1>1, <3>1
  <2>4. Occupancy \in Nat
    BY <1>1, OccupancyType
  <2> QED BY <1>1, <1>3, <2>2, <2>3, <2>4 DEF QueueEmpty
<1> QED BY <1>2, <1>3, Zenon

(***************************************************************************)
(* A pop decodes the length of the oldest entry and reads its bytes.       *)
(***************************************************************************)
LEMMA PopReads ==
    ASSUME TypeOK, EntriesFillRing, EntriesOrdered, EntriesIntact,
           entries # <<>>
    PROVE  LET len == Len(entries[1].data) IN
           /\ PopLen = len
           /\ len \in Nat
           /\ Header + len <= Occupancy
           /\ Payload(circular_read(buffer, inc_ptr(pop_ptr, Header), len))
                = entries[1].data
<1> DEFINE m == entries[1].data
           len == Len(m)
           mid == inc_ptr(pop_ptr, Header)
           hdr == circular_read(buffer, pop_ptr, Header)
           body == circular_read(buffer, mid, len)
<1>1. /\ 1 \in 1 .. Len(entries)
      /\ Header \in Nat \ {0} /\ Capacity \in Nat \ {0}
  BY HeaderAssumption, CapacityAssumption DEF TypeOK
<1>2. /\ entries[1].at = 0
      /\ m \in Seq(Nat) /\ len \in Nat
      /\ EntryEnd(entries[1]) = Header + len
  BY <1>1, EntryType DEF EntriesFillRing
<1>3. Occupancy \in 0 .. Capacity
  BY OccupancyType, Zenon
<1>4. Header + len <= Occupancy
  BY <1>1, <1>2, Zenon DEF EntriesOrdered
<1>5. buffer \in [Offsets -> Bytes] /\ pop_ptr \in Offsets
  BY Zenon DEF TypeOK
<1>6. Header \in 0 .. Capacity /\ len \in 0 .. Capacity /\ mid \in Offsets
  BY <1>1, <1>2, <1>3, <1>4, <1>5, IncPtrInRing
<1>7. /\ \A i \in 1 .. Header : ByteAt(i - 1) = HeaderByte(len, i)
      /\ \A i \in 1 .. len : ByteAt(Header + i - 1) = DataByte(m[i])
  <2>1. /\ \A i \in 1 .. Header : ByteAt(0 + i - 1) = HeaderByte(len, i)
        /\ \A i \in 1 .. len : ByteAt(0 + Header + i - 1) = DataByte(m[i])
    BY <1>1, <1>2, Zenon DEF EntriesIntact
  <2>2. /\ \A i \in 1 .. Header : 0 + i - 1 = i - 1
        /\ \A i \in 1 .. len : 0 + Header + i - 1 = Header + i - 1
    BY <1>1, <1>2
  <2> QED BY <2>1, <2>2, Zenon
<1>8. \A i \in 1 .. Header : hdr[i] = HeaderByte(len, i)
  BY <1>5, <1>6, <1>7, CircularRead, Zenon DEF ByteAt
<1>9. PopLen = len
  <2>1. 1 \in 1 .. Header
    BY <1>1
  <2> HIDE DEF hdr, len
  <2>2a. hdr[1] = HeaderByte(len, 1)
    BY <1>8, <2>1, Zenon
  <2>2. hdr[1].val = len
    BY <2>2a DEF HeaderByte
  <2>3. Decode(hdr) = len
    BY <1>8, <2>2, Zenon DEF Decode
  <2> QED BY <2>3, Zenon DEF PopLen, hdr, len
<1>10. DOMAIN body = 1 .. len /\ \A i \in 1 .. len : body[i].val = m[i]
  <2>1. DOMAIN body = 1 .. len
    BY <1>5, <1>6, CircularRead, Zenon
  <2>2. ASSUME NEW i \in 1 .. len PROVE body[i].val = m[i]
    <3>1. body[i] = buffer[inc_ptr(mid, i - 1)]
      BY <1>5, <1>6, CircularRead, Zenon
    <3>2. inc_ptr(mid, i - 1) = inc_ptr(pop_ptr, Header + (i - 1))
      <4>1. i - 1 \in Nat /\ Header + (i - 1) <= Capacity
        BY <1>1, <1>2, <1>3, <1>4, SMTT(30)
      <4> QED BY <1>1, <1>5, <4>1, IncPtrAdds, Zenon
    <3>3. Header + (i - 1) = Header + i - 1
      BY <1>1, <1>2, Zenon
    <3>4. body[i] = DataByte(m[i])
      BY <1>7, <3>1, <3>2, <3>3, Zenon DEF ByteAt
    <3> HIDE DEF body, m
    <3> QED BY <3>4 DEF DataByte
  <2> QED BY <2>1, <2>2, Zenon
<1>11. Payload(body) = m
  <2> HIDE DEF body, m
  <2> QED BY <1>2, <1>10 DEF Payload, len
<1> QED BY <1>2, <1>4, <1>9, <1>11, Zenon
(***************************************************************************)
(* The bounds asserted in push and pop hold when the message fits, and     *)
(* when the message is there.                                              *)
(***************************************************************************)
LEMMA PushAssertsHold ==
    ASSUME TypeOK, NEW m \in Messages, ~QueueFull(m)
    PROVE  PushAsserts(m)
<1>1. Len(m) \in Nat /\ Header \in Nat \ {0} /\ Capacity \in Nat \ {0}
  BY MessagesAssumption, HeaderAssumption, CapacityAssumption
<1> QED
    BY <1>1 DEF PushAsserts, QueueFull, Occupancy, queue_occupancy, inc_ptr, WriteFits, PtrWraps,
        TypeOK, Offsets

LEMMA PopAssertsHold ==
    ASSUME TypeOK, NEW len \in Nat, Header + len <= Occupancy
    PROVE  PopAsserts(len)
<1>1. Header \in Nat \ {0} /\ Capacity \in Nat \ {0}
  BY HeaderAssumption, CapacityAssumption, Zenon
<1> QED
    BY <1>1 DEF PopAsserts, Occupancy, queue_occupancy, inc_ptr, ReadAvailable, PtrWraps, TypeOK,
        Offsets

(***************************************************************************)
(* What taking the oldest entry leaves behind: the invariant, the message  *)
(* as the answer, and the occupancy less the entry's bytes.                *)
(***************************************************************************)
LEMMA TakeOldest ==
    ASSUME TypeOK, EntriesFillRing, EntriesOrdered, EntriesIntact,
           CopiesInBounds, entries # <<>>, TakeEntry(Len(entries[1].data))
    PROVE  /\ push_ptr' \in Offsets /\ pop_ptr' \in Offsets
           /\ entries' \in Seq(Entries)
           /\ Len(entries') = Len(entries) - 1
           /\ \A k \in 1 .. Len(entries') :
                 entries'[k].data = entries[k + 1].data
           /\ asserts' \subseteq {"copy", "buf"}
           /\ Occupancy' = Occupancy - (Header + Len(entries[1].data))
           /\ reply' = Reply("pop", "ok", entries[1].data)
           /\ EntriesFillRing' /\ EntriesOrdered' /\ EntriesIntact'
           /\ CopiesInBounds'
<1> DEFINE len == Len(entries[1].data)
           size == Header + len
           n == Len(entries)
           mid == inc_ptr(pop_ptr, Header)
<1>1. /\ Header \in Nat \ {0} /\ Capacity \in Nat \ {0}
      /\ entries \in Seq(Entries) /\ n \in Nat \ {0} /\ 1 \in 1 .. n
      /\ push_ptr \in Offsets /\ pop_ptr \in Offsets
      /\ rising_occupancy \in BOOLEAN /\ buffer \in [Offsets -> Bytes]
      /\ asserts \subseteq {"copy", "buf"}
  BY HeaderAssumption, CapacityAssumption DEF TypeOK
<1>2. /\ PopLen = len /\ len \in Nat /\ size <= Occupancy
      /\ Payload(circular_read(buffer, mid, len)) = entries[1].data
  BY PopReads, Zenon
<1>3. Occupancy \in 0 .. Capacity
  BY OccupancyType, Zenon
<1>4. size \in Nat \ {0} /\ size <= Capacity /\ EntryEnd(entries[1]) = size
  <2>1. entries[1].at = 0 BY Zenon DEF EntriesFillRing
  <2> QED BY <1>1, <1>2, <1>3, <2>1, EntryType
<1>5. pop_ptr' = inc_ptr(pop_ptr, size) /\ pop_ptr' \in Offsets
  BY <1>1, <1>2, <1>4, IncPtrAdds, IncPtrInRing DEF TakeEntry
<1>6. push_ptr' = push_ptr /\ buffer' = buffer /\ rising_occupancy' = FALSE
  BY Zenon DEF TakeEntry
<1> HIDE DEF size, n, len, mid
<1>7. Occupancy' = Occupancy - size
  <2>1. Occupancy' = queue_occupancy(push_ptr, inc_ptr(pop_ptr, size), FALSE)
    BY <1>5, <1>6, Zenon DEF Occupancy
  <2>2. size <= queue_occupancy(push_ptr, pop_ptr, rising_occupancy)
    BY <1>2, Zenon DEF Occupancy
  <2> QED BY <1>1, <1>4, <2>1, <2>2, OccupancyAfterPop, ZenonT(30) DEF Occupancy
<1>8. /\ PopAsserts(len) /\ asserts' \subseteq {"copy", "buf"}
      /\ CopiesInBounds'
  <2>1. PopAsserts(len)
    BY <1>2, PopAssertsHold, Zenon DEF size
  <2>2. asserts' = asserts \cup Failing("copy", PopAsserts(len))
                           \cup Failing("buf", len # 0)
    BY Zenon DEF TakeEntry, len
  <2> QED BY <1>1, <2>1, <2>2, Zenon DEF Failing, CopiesInBounds
<1>9. reply' = Reply("pop", "ok", entries[1].data)
  BY <1>2, Zenon DEF TakeEntry, len, mid
<1>10. ASSUME NEW k \in 1 .. n - 1
       PROVE  /\ k \in 1 .. n /\ k + 1 \in 1 .. n
              /\ entries[k + 1].at \in Nat /\ entries[k + 1].data \in Messages
              /\ size <= entries[k + 1].at
              /\ entries'[k].at = entries[k + 1].at - size
              /\ entries'[k].data = entries[k + 1].data
              /\ entries'[k] \in Entries
              /\ Len(entries[k + 1].data) \in Nat
              /\ EntryEnd(entries'[k]) = EntryEnd(entries[k + 1]) - size
              /\ EntryEnd(entries[k + 1]) \in Nat
              /\ EntryEnd(entries[k + 1]) = entries[k + 1].at + Header
                                             + Len(entries[k + 1].data)
  <2>1. k \in 1 .. n /\ k + 1 \in 1 .. n /\ 1 < k + 1
    BY <1>1
  <2>2. /\ entries[k + 1] \in Entries
        /\ entries[k + 1].at \in Nat /\ entries[k + 1].data \in Messages
        /\ Len(entries[k + 1].data) \in Nat
        /\ EntryEnd(entries[k + 1]) = entries[k + 1].at + Header
                                       + Len(entries[k + 1].data)
    <3>1. entries[k + 1] \in Entries
      BY <1>1, <2>1 DEF n
    <3>2. k + 1 \in 1 .. Len(entries)
      BY <2>1, Zenon DEF n
    <3> QED BY <1>1, <3>1, <3>2, EntryType
  <2>3. size <= entries[k + 1].at
    BY <1>1, <1>4, <2>1, Zenon DEF EntriesOrdered, n
  <2>4. entries' = Dropped(size)
    BY Zenon DEF TakeEntry, size, len
  <2>5. entries'[k] = [entries[k + 1] EXCEPT !.at = @ - size]
    BY <2>4, Zenon DEF Dropped, n
  <2>6. /\ entries'[k].at = entries[k + 1].at - size
        /\ entries'[k].data = entries[k + 1].data
        /\ entries'[k] \in Entries
    <3>1. entries[k + 1].at - size \in Nat
      BY <1>4, <2>2, <2>3
    <3> QED BY <2>2, <2>5, <3>1, Zenon DEF Entries
  <2>7. EntryEnd(entries'[k]) = (entries[k + 1].at - size) + Header
                                + Len(entries[k + 1].data)
    BY <1>1, <1>4, <2>2, <2>6, SMTT(30) DEF EntryEnd, EntrySize
  <2>8. /\ EntryEnd(entries'[k]) = EntryEnd(entries[k + 1]) - size
        /\ EntryEnd(entries[k + 1]) \in Nat
    <3> DEFINE at == entries[k + 1].at
               dlen == Len(entries[k + 1].data)
    <3>1. at \in Nat /\ dlen \in Nat
      BY <2>2, Zenon
    <3>2. /\ EntryEnd(entries'[k]) = (at - size) + Header + dlen
          /\ EntryEnd(entries[k + 1]) = at + Header + dlen
      BY <2>2, <2>7, Zenon
    <3> HIDE DEF at, dlen
    <3> QED BY <1>1, <1>4, <3>1, <3>2
  <2> QED BY <2>1, <2>2, <2>3, <2>6, <2>8, Zenon
<1>11. /\ entries' \in Seq(Entries) /\ Len(entries') = n - 1
       /\ n - 1 \in Nat /\ DOMAIN entries' = 1 .. n - 1
  <2>1. entries' = Dropped(size)
    BY Zenon DEF TakeEntry, size, len
  <2>2. entries' = [k \in 1 .. n - 1 |-> entries'[k]]
    BY <2>1, Zenon DEF Dropped, n
  <2>3. n - 1 \in Nat
    BY <1>1
  <2> QED BY <1>10, <2>2, <2>3
<1>12. EntriesOrdered'
  <2>1. ASSUME NEW k \in 1 .. n - 1
        PROVE  EntryEnd(entries'[k]) <= Occupancy'
    <3>1. EntryEnd(entries[k + 1]) <= Occupancy
      BY <1>10, Zenon DEF EntriesOrdered, n
    <3> QED BY <1>3, <1>4, <1>7, <1>10, <3>1
  <2>2. ASSUME NEW j \in 1 .. n - 1, NEW k \in 1 .. n - 1, j < k
        PROVE  EntryEnd(entries'[j]) <= entries'[k].at
    <3>1. EntryEnd(entries[j + 1]) <= entries[k + 1].at
      <4>1. j + 1 < k + 1
        BY <1>1, <2>2
      <4> QED BY <1>10, <4>1, Zenon DEF EntriesOrdered, n
    <3>2. EntryEnd(entries[j + 1]) - size <= entries[k + 1].at - size
      BY <1>4, <1>10, <3>1, SMTT(30)
    <3> QED BY <1>10, <3>2, Zenon
  <2>3. (\A k \in 1 .. Len(entries') : EntryEnd(entries'[k]) <= Occupancy')
    BY <1>11, <2>1, Zenon
  <2>4. \A j, k \in 1 .. Len(entries') :
            j < k => EntryEnd(entries'[j]) <= entries'[k].at
    BY <1>11, <2>2, Zenon
  <2> QED BY <2>3, <2>4, Zenon DEF EntriesOrdered, EntryEnd, EntrySize
<1>13. EntriesFillRing'
  <2>1. CASE n = 1
    <3>1. entries' = <<>>
      BY <1>11, <2>1
    <3>2. Occupancy = size
      BY <1>4, <2>1, Zenon DEF EntriesFillRing, n
    <3>3. Occupancy' = 0
      BY <1>3, <1>7, <3>2
    <3>4. Len(entries') - 1 = -1
      BY <1>11, <2>1
    <3> QED BY <3>1, <3>3, <3>4 DEF EntriesFillRing
  <2>2. CASE n # 1
    <3>1. n - 1 \in Nat \ {0} /\ 1 \in 1 .. n - 1 /\ n - 1 \in 1 .. n - 1
          /\ (n - 1) + 1 = n
      BY <1>1, <2>2
    <3>2. entries' # <<>>
      BY <1>11, <3>1, Zenon
    <3>3. entries'[1].at = 0
      <4>1. entries[2].at = EntryEnd(entries[1])
        BY <3>1 DEF EntriesFillRing, n
      <4>2. entries'[1].at = entries[2].at - size
        BY <1>10, <3>1
      <4> QED BY <1>4, <4>1, <4>2
    <3>4. EntryEnd(entries'[n - 1]) = Occupancy'
      <4>1. EntryEnd(entries[n]) = Occupancy
        BY Zenon DEF EntriesFillRing, n
      <4> QED BY <1>7, <1>10, <3>1, <4>1, Zenon
    <3>5. Occupancy' # 0
      <4>1. EntryEnd(entries'[n - 1]) # 0
        <5>1. /\ EntryEnd(entries'[n - 1]) = EntryEnd(entries[n]) - size
              /\ size <= entries[n].at
              /\ entries[n].at \in Nat /\ Len(entries[n].data) \in Nat
              /\ EntryEnd(entries[n]) = entries[n].at + Header
                                         + Len(entries[n].data)
          BY <1>10, <3>1, Zenon
        <5> QED BY <1>1, <1>4, <5>1, SMTT(30)
      <4> QED BY <3>4, <4>1, Zenon
    <3>6. ASSUME NEW k \in 1 .. (n - 1) - 1
          PROVE  entries'[k + 1].at = EntryEnd(entries'[k])
      <4>1. k \in 1 .. n - 1 /\ k + 1 \in 1 .. n - 1
        BY <1>1
      <4>2. entries[(k + 1) + 1].at = EntryEnd(entries[k + 1])
        BY <4>1, Zenon DEF EntriesFillRing, n
      <4> QED BY <1>10, <4>1, <4>2, Zenon
    <3> QED BY <1>11, <3>2, <3>3, <3>4, <3>5, <3>6, Zenon DEF EntriesFillRing, EntryEnd, EntrySize
  <2> QED BY <2>1, <2>2, Zenon
<1>14. EntriesIntact'
  <2>1. ASSUME NEW d \in Nat, size + d <= Capacity
        PROVE  buffer'[inc_ptr(pop_ptr', d)] = ByteAt(size + d)
    BY <1>1, <1>4, <1>5, <1>6, <2>1, IncPtrAdds DEF ByteAt
  <2>2. ASSUME NEW k \in 1 .. n - 1
        PROVE  /\ \A i \in 1 .. Header :
                    buffer'[inc_ptr(pop_ptr', entries'[k].at + i - 1)]
                      = HeaderByte(Len(entries'[k].data), i)
               /\ \A i \in 1 .. Len(entries'[k].data) :
                    buffer'[inc_ptr(pop_ptr', entries'[k].at + Header + i - 1)]
                      = DataByte(entries'[k].data[i])
    <3> DEFINE e == entries[k + 1]
    <3>1. /\ e.at \in Nat /\ size <= e.at /\ Len(e.data) \in Nat
          /\ entries'[k].at = e.at - size /\ entries'[k].data = e.data
          /\ e.at + Header + Len(e.data) <= Capacity
      <4>1. EntryEnd(e) <= Occupancy
        BY <1>10, Zenon DEF EntriesOrdered, n
      <4>2. /\ e.at \in Nat /\ size <= e.at /\ Len(e.data) \in Nat
            /\ entries'[k].at = e.at - size /\ entries'[k].data = e.data
            /\ EntryEnd(e) = e.at + Header + Len(e.data)
        BY <1>10, Zenon
      <4> HIDE DEF e
      <4> QED BY <1>1, <1>3, <4>1, <4>2
    <3>2. /\ \A i \in 1 .. Header :
                ByteAt(e.at + i - 1) = HeaderByte(Len(e.data), i)
          /\ \A i \in 1 .. Len(e.data) :
                ByteAt(e.at + Header + i - 1) = DataByte(e.data[i])
      BY <1>10, Zenon DEF EntriesIntact, n
    <3> HIDE DEF e
    <3>3. ASSUME NEW i \in 1 .. Header
          PROVE  buffer'[inc_ptr(pop_ptr', entries'[k].at + i - 1)]
                   = HeaderByte(Len(entries'[k].data), i)
      <4>1. /\ (e.at - size) + i - 1 \in Nat
            /\ size + ((e.at - size) + i - 1) = e.at + i - 1
            /\ size + ((e.at - size) + i - 1) <= Capacity
        <5> DEFINE at == e.at
                   dlen == Len(e.data)
        <5>1. at \in Nat /\ dlen \in Nat /\ size <= at
              /\ at + Header + dlen <= Capacity
          BY <3>1, Zenon
        <5> SUFFICES /\ (at - size) + i - 1 \in Nat
                     /\ size + ((at - size) + i - 1) = at + i - 1
                     /\ size + ((at - size) + i - 1) <= Capacity
          BY Zenon
        <5> HIDE DEF at, dlen
        <5> QED BY <1>1, <1>4, <5>1
      <4>2. buffer'[inc_ptr(pop_ptr', (e.at - size) + i - 1)]
              = ByteAt(e.at + i - 1)
        BY <2>1, <4>1, Zenon
      <4> QED BY <3>1, <3>2, <4>2, Zenon
    <3>4. ASSUME NEW i \in 1 .. Len(e.data)
          PROVE  buffer'[inc_ptr(pop_ptr', entries'[k].at + Header + i - 1)]
                   = DataByte(entries'[k].data[i])
      <4>1. /\ (e.at - size) + Header + i - 1 \in Nat
            /\ size + ((e.at - size) + Header + i - 1) = e.at + Header + i - 1
            /\ size + ((e.at - size) + Header + i - 1) <= Capacity
        <5> DEFINE at == e.at
                   dlen == Len(e.data)
        <5>1. at \in Nat /\ dlen \in Nat /\ size <= at
              /\ at + Header + dlen <= Capacity /\ i \in 1 .. dlen
          BY <3>1, Zenon
        <5> SUFFICES /\ (at - size) + Header + i - 1 \in Nat
                     /\ size + ((at - size) + Header + i - 1) = at + Header + i - 1
                     /\ size + ((at - size) + Header + i - 1) <= Capacity
          BY Zenon
        <5> HIDE DEF at, dlen
        <5> QED BY <1>1, <1>4, <5>1
      <4>2. buffer'[inc_ptr(pop_ptr', (e.at - size) + Header + i - 1)]
              = ByteAt(e.at + Header + i - 1)
        BY <2>1, <4>1, Zenon
      <4> QED BY <3>1, <3>2, <4>2, Zenon
    <3> QED BY <3>1, <3>3, <3>4, Zenon
  <2> QED BY <1>11, <2>2, Zenon DEF EntriesIntact, ByteAt
<1> QED
    BY <1>1, <1>5, <1>6, <1>7, <1>8, <1>9, <1>10, <1>11, <1>12, <1>13, <1>14, Zenon DEF size, n,
        len
----------------------------------------------------------------------------
(***************************************************************************)
(* A push keeps the invariant and appends the message.                     *)
(***************************************************************************)
LEMMA PushKeepsInv ==
    ASSUME QueueInv, NEW w \in Workers, NEW m \in Messages, Push(w, m)
    PROVE  QueueInv'
<1> DEFINE n == Len(entries)
           new == [at |-> Occupancy, data |-> m]
<1>1. /\ TypeOK /\ EntriesFillRing /\ EntriesOrdered /\ EntriesIntact
      /\ CopiesInBounds
  BY Zenon DEF QueueInv
<1>2. /\ Header \in Nat \ {0} /\ Capacity \in Nat \ {0} /\ Len(m) \in Nat
      /\ m \in Seq(Nat)
  BY HeaderAssumption, CapacityAssumption, MessagesAssumption
<1>3. /\ entries \in Seq(Entries) /\ n \in Nat /\ pop_ptr \in Offsets
      /\ holder = NoWorker /\ pending = 0
      /\ asserts \subseteq {"copy", "buf"}
  BY <1>1 DEF TypeOK, Push
<1>4. Occupancy \in 0 .. Capacity
  BY <1>1, OccupancyType, Zenon
<1>5. new \in Entries /\ EntryEnd(new) = Occupancy + (Header + Len(m))
  BY <1>2, <1>4 DEF Entries, EntryEnd, EntrySize
<1>6. /\ buffer' \in [Offsets -> Bytes]
      /\ push_ptr' \in Offsets
      /\ Occupancy' = Occupancy + (Header + Len(m))
  BY <1>1, PushWrites, Zenon
<1>7. entries' = Append(entries, new)
  BY Zenon DEF Push
<1> HIDE DEF new
<1>8. /\ entries' \in Seq(Entries) /\ Len(entries') = n + 1
      /\ \A k \in 1 .. n : entries'[k] = entries[k]
      /\ entries'[n + 1] = new
  BY <1>3, <1>5, <1>7
<1>9. new.at = Occupancy /\ new.data = m
  BY Zenon DEF new
<1>10. TypeOK'
  <2>1. rising_occupancy' \in BOOLEAN /\ pop_ptr' \in Offsets
        /\ holder' = NoWorker /\ pending' = 0
    BY <1>3, Zenon DEF Push
  <2>2. asserts' \subseteq {"copy", "buf"}
    BY <1>3, Zenon DEF Push, Failing
  <2> QED BY <1>6, <1>8, <2>1, <2>2, Zenon DEF TypeOK
<1>11. CopiesInBounds'
  <2>1. PushAsserts(m)
    BY <1>1, PushAssertsHold, Zenon DEF Push
  <2> QED BY <1>1, <2>1, Zenon DEF Push, Failing, CopiesInBounds
<1>12. PendingIsOldest'
  BY <1>3, Zenon DEF Push, PendingIsOldest
<1>13. \A k \in 1 .. n : /\ EntryEnd(entries[k]) <= Occupancy
                          /\ EntryEnd(entries[k]) \in Nat
                          /\ entries[k].at \in Nat
                          /\ Len(entries[k].data) \in Nat
                          /\ EntryEnd(entries[k]) = entries[k].at + Header
                                                     + Len(entries[k].data)
  <2> SUFFICES ASSUME NEW k \in 1 .. n
               PROVE  /\ EntryEnd(entries[k]) <= Occupancy
                      /\ EntryEnd(entries[k]) \in Nat
                      /\ entries[k].at \in Nat
                      /\ Len(entries[k].data) \in Nat
                      /\ EntryEnd(entries[k]) = entries[k].at + Header
                                                 + Len(entries[k].data)
    BY Zenon
  <2>1. EntryEnd(entries[k]) <= Occupancy
    BY <1>1, Zenon DEF EntriesOrdered
  <2> QED BY <1>1, <1>2, <2>1, EntryType
<1>14. EntriesOrdered'
  <2>1. ASSUME NEW k \in 1 .. n + 1
        PROVE  EntryEnd(entries'[k]) <= Occupancy'
    <3>1. CASE k = n + 1
      BY <1>2, <1>4, <1>5, <1>6, <1>8, <3>1
    <3>2. CASE k \in 1 .. n
      BY <1>2, <1>4, <1>6, <1>8, <1>13, <3>2
    <3> QED BY <1>3, <3>1, <3>2
  <2>2. ASSUME NEW j \in 1 .. n + 1, NEW k \in 1 .. n + 1, j < k
        PROVE  EntryEnd(entries'[j]) <= entries'[k].at
    <3>1. j \in 1 .. n
      BY <1>3, <2>2
    <3>2. CASE k = n + 1
      BY <1>8, <1>9, <1>13, <3>1, <3>2, Zenon
    <3>3. CASE k \in 1 .. n
      BY <1>1, <1>8, <2>2, <3>1, <3>3, Zenon DEF EntriesOrdered
    <3> QED BY <1>3, <3>2, <3>3
  <2> QED BY <1>8, <2>1, <2>2, Zenon DEF EntriesOrdered, EntryEnd, EntrySize
<1>15. EntriesFillRing'
  <2>1. entries' # <<>> /\ Occupancy' # 0
    BY <1>2, <1>3, <1>4, <1>6, <1>8
  <2>2. entries'[1].at = 0
    <3>1. CASE n = 0
      <4>1. entries = <<>>
        BY <1>3, <3>1
      <4>2. Occupancy = 0
        BY <1>1, <4>1, Zenon DEF EntriesFillRing
      <4> QED BY <1>8, <1>9, <3>1, <4>2
    <3>2. CASE n # 0
      <4>1. entries # <<>> /\ 1 \in 1 .. n
        BY <1>3, <3>2
      <4>2. entries[1].at = 0
        BY <1>1, <4>1, Zenon DEF EntriesFillRing
      <4> QED BY <1>8, <4>1, <4>2, Zenon
    <3> QED BY <3>1, <3>2, Zenon
  <2>3. EntryEnd(entries'[n + 1]) = Occupancy'
    BY <1>5, <1>6, <1>8, Zenon
  <2>4. ASSUME NEW k \in 1 .. n
        PROVE  entries'[k + 1].at = EntryEnd(entries'[k])
    <3>1. CASE k = n
      <4>1. EntryEnd(entries[n]) = Occupancy
        BY <1>1, <1>3, <3>1 DEF EntriesFillRing
      <4> QED BY <1>8, <1>9, <3>1, <4>1, Zenon
    <3>2. CASE k # n
      <4>1. k \in 1 .. n - 1 /\ k + 1 \in 1 .. n
        BY <1>3, <3>2
      <4> QED BY <1>1, <1>8, <4>1, Zenon DEF EntriesFillRing
    <3> QED BY <3>1, <3>2, Zenon
  <2>5. Len(entries') - 1 = n
    BY <1>3, <1>8
  <2> QED BY <1>8, <2>1, <2>2, <2>3, <2>4, <2>5, Zenon DEF EntriesFillRing, EntryEnd, EntrySize
<1>16. EntriesIntact'
  <2>0. pop_ptr' = pop_ptr
    BY Zenon DEF Push
  <2>1. /\ \A d \in Nat : d < Occupancy =>
              buffer'[inc_ptr(pop_ptr, d)] = ByteAt(d)
        /\ \A i \in 1 .. Header :
              buffer'[inc_ptr(pop_ptr, Occupancy + i - 1)]
                = HeaderByte(Len(m), i)
        /\ \A i \in 1 .. Len(m) :
              buffer'[inc_ptr(pop_ptr, Occupancy + Header + i - 1)]
                = DataByte(m[i])
    BY <1>1, PushWrites, Zenon DEF ByteAt
  <2>2. ASSUME NEW k \in 1 .. n
        PROVE  /\ \A i \in 1 .. Header :
                    buffer'[inc_ptr(pop_ptr, entries[k].at + i - 1)]
                      = HeaderByte(Len(entries[k].data), i)
               /\ \A i \in 1 .. Len(entries[k].data) :
                    buffer'[inc_ptr(pop_ptr, entries[k].at + Header + i - 1)]
                      = DataByte(entries[k].data[i])
    <3> DEFINE at == entries[k].at
               dlen == Len(entries[k].data)
    <3>1. at \in Nat /\ dlen \in Nat /\ at + Header + dlen <= Occupancy
      BY <1>13, Zenon
    <3>2. /\ \A i \in 1 .. Header : ByteAt(at + i - 1) = HeaderByte(dlen, i)
          /\ \A i \in 1 .. dlen :
                ByteAt(at + Header + i - 1) = DataByte(entries[k].data[i])
      BY <1>1, Zenon DEF EntriesIntact
    <3> HIDE DEF at, dlen
    <3>3. /\ \A i \in 1 .. Header : at + i - 1 \in Nat /\ at + i - 1 < Occupancy
          /\ \A i \in 1 .. dlen : /\ at + Header + i - 1 \in Nat
                                   /\ at + Header + i - 1 < Occupancy
      BY <1>2, <1>4, <3>1
    <3>4. /\ \A i \in 1 .. Header :
                buffer'[inc_ptr(pop_ptr, at + i - 1)] = HeaderByte(dlen, i)
          /\ \A i \in 1 .. dlen :
                buffer'[inc_ptr(pop_ptr, at + Header + i - 1)]
                  = DataByte(entries[k].data[i])
      BY <2>1, <3>2, <3>3, Zenon
    <3> QED BY <3>4, Zenon DEF at, dlen
  <2>3. ASSUME NEW k \in 1 .. n + 1
        PROVE  /\ \A i \in 1 .. Header :
                    buffer'[inc_ptr(pop_ptr', entries'[k].at + i - 1)]
                      = HeaderByte(Len(entries'[k].data), i)
               /\ \A i \in 1 .. Len(entries'[k].data) :
                    buffer'[inc_ptr(pop_ptr', entries'[k].at + Header + i - 1)]
                      = DataByte(entries'[k].data[i])
    <3>1. CASE k = n + 1
      BY <1>8, <1>9, <2>0, <2>1, <3>1, Zenon
    <3>2. CASE k \in 1 .. n
      BY <1>8, <2>0, <2>2, <3>2, SMTT(30)
    <3> QED BY <1>3, <3>1, <3>2, SMTT(30)
  <2> QED BY <1>8, <2>3, Zenon DEF EntriesIntact, ByteAt
<1> QED BY <1>10, <1>11, <1>12, <1>14, <1>15, <1>16, Zenon DEF QueueInv
(***************************************************************************)
(* The queue starts empty and well-formed.                                 *)
(***************************************************************************)
LEMMA InitInv ==
    Init => QueueInv
<1> SUFFICES ASSUME Init PROVE QueueInv
  BY Zenon
<1>1. Capacity \in Nat \ {0} /\ Header \in Nat \ {0}
  BY CapacityAssumption, HeaderAssumption, Zenon
<1>2. TypeOK
  <2>1. buffer \in [Offsets -> Bytes]
    BY <1>1 DEF Init, Bytes, DataByte
  <2>2. entries \in Seq(Entries)
    BY DEF Init
  <2> QED BY <1>1, <2>1, <2>2 DEF Init, TypeOK, Offsets
<1>3. Occupancy = 0
  BY DEF Init, Occupancy, queue_occupancy
<1>4. Len(entries) = 0 /\ entries = <<>>
  BY Zenon DEF Init
<1> QED
    BY <1>2, <1>3, <1>4 DEF QueueInv, EntriesFillRing, EntriesOrdered, EntriesIntact,
        PendingIsOldest, CopiesInBounds, Init

(***************************************************************************)
(* A pop that completes keeps the invariant.                               *)
(***************************************************************************)
LEMMA TakeKeepsInv ==
    ASSUME QueueInv, entries # <<>>, TakeEntry(Len(entries[1].data)),
           holder' = NoWorker, pending' = 0
    PROVE  QueueInv'
<1>1. /\ TypeOK /\ EntriesFillRing /\ EntriesOrdered /\ EntriesIntact
      /\ CopiesInBounds
  BY Zenon DEF QueueInv
<1>2. /\ push_ptr' \in Offsets /\ pop_ptr' \in Offsets
      /\ entries' \in Seq(Entries)
      /\ asserts' \subseteq {"copy", "buf"}
      /\ EntriesFillRing' /\ EntriesOrdered' /\ EntriesIntact'
      /\ CopiesInBounds'
  BY <1>1, TakeOldest, Zenon
<1>3. TypeOK'
  BY <1>1, <1>2, Zenon DEF TypeOK, TakeEntry
<1> QED BY <1>2, <1>3, Zenon DEF QueueInv, PendingIsOldest

(***************************************************************************)
(* A pop that finds an entry takes the oldest one.                         *)
(***************************************************************************)
LEMMA PopTakesOldest ==
    ASSUME QueueInv, NEW w \in Workers, PopZero(w) \/ PopFinish(w)
    PROVE  /\ entries # <<>>
           /\ TakeEntry(Len(entries[1].data))
           /\ holder' = NoWorker /\ pending' = 0
<1>1. TypeOK /\ EntriesFillRing /\ EntriesOrdered /\ EntriesIntact
  BY Zenon DEF QueueInv
<1>2. CASE PopZero(w)
  <2>1. entries # <<>>
    BY <1>1, <1>2, EmptyIffNoEntry, Zenon DEF PopZero
  <2>2. PopLen = Len(entries[1].data)
    BY <1>1, <2>1, PopReads, Zenon
  <2> QED BY <1>1, <1>2, <2>1, <2>2, Zenon DEF PopZero, TypeOK
<1>3. CASE PopFinish(w)
  BY <1>3, NoWorkerAssumption, Zenon DEF PopFinish, QueueInv, PendingIsOldest
<1> QED BY <1>2, <1>3, Zenon

(***************************************************************************)
(* Every step of every worker keeps the invariant.                         *)
(***************************************************************************)
LEMMA NextInv ==
    QueueInv /\ [Next]_vars => QueueInv'
<1> SUFFICES ASSUME QueueInv, [Next]_vars PROVE QueueInv'
  BY Zenon
<1>1. TypeOK /\ EntriesFillRing /\ EntriesOrdered /\ EntriesIntact
  BY Zenon DEF QueueInv
<1>2. ASSUME NEW w \in Workers, NEW m \in Messages, Push(w, m)
      PROVE  QueueInv'
  BY <1>2, PushKeepsInv, Zenon
<1>3. ASSUME UNCHANGED <<ring, entries, asserts>>,
             holder' = holder /\ pending' = pending
      PROVE  QueueInv'
  BY <1>3 DEF QueueInv, TypeOK, EntriesFillRing, EntriesOrdered, EntriesIntact, PendingIsOldest,
      CopiesInBounds, Occupancy, ByteAt, EntryEnd, EntrySize, ring
<1>4. ASSUME NEW w \in Workers, NEW m \in Messages, PushFull(w, m)
      PROVE  QueueInv'
  BY <1>3, <1>4, Zenon DEF PushFull
<1>5. ASSUME NEW w \in Workers, PopEmpty(w)
      PROVE  QueueInv'
  BY <1>3, <1>5, Zenon DEF PopEmpty
<1>6. ASSUME NEW w \in Workers, PopZero(w) \/ PopFinish(w)
      PROVE  QueueInv'
  BY <1>6, PopTakesOldest, TakeKeepsInv, Zenon
<1>7. ASSUME UNCHANGED <<ring, entries, asserts>>
      PROVE  /\ EntriesFillRing' /\ EntriesOrdered' /\ EntriesIntact'
             /\ CopiesInBounds'
  BY <1>7 DEF QueueInv, EntriesFillRing, EntriesOrdered, EntriesIntact, CopiesInBounds, Occupancy,
      ByteAt, EntryEnd, EntrySize, ring
<1>8. ASSUME NEW w \in Workers, PopAlloc(w)
      PROVE  QueueInv'
  <2>1. entries # <<>>
    BY <1>1, <1>8, EmptyIffNoEntry, Zenon DEF PopAlloc
  <2>2. pending' = Len(entries[1].data) /\ pending' # 0 /\ pending' \in Nat
    BY <1>1, <1>8, <2>1, PopReads, Zenon DEF PopAlloc
  <2>3. TypeOK'
    BY <1>1, <1>8, <2>2, NoWorkerAssumption, Zenon DEF TypeOK, PopAlloc, ring
  <2>4. PendingIsOldest'
    BY <1>8, <2>1, <2>2, Zenon DEF PopAlloc, PendingIsOldest
  <2> QED BY <1>7, <1>8, <2>3, <2>4, Zenon DEF QueueInv, PopAlloc
<1>9. ASSUME NEW w \in Workers, PopError(w)
      PROVE  QueueInv'
  <2>1. TypeOK'
    BY <1>1, <1>9, Zenon DEF TypeOK, PopError, ring
  <2>2. PendingIsOldest'
    BY <1>9, Zenon DEF PopError, PendingIsOldest
  <2> QED BY <1>7, <1>9, <2>1, <2>2, Zenon DEF QueueInv, PopError
<1>10. CASE UNCHANGED vars
  BY <1>3, <1>10, Zenon DEF vars
<1> QED BY <1>2, <1>4, <1>5, <1>6, <1>8, <1>9, <1>10, Zenon DEF Next

(***************************************************************************)
(* The invariant holds in every reachable state of the queue.              *)
(***************************************************************************)
THEOREM Invariance == Spec => []QueueInv
  BY InitInv, NextInv, PTL DEF Spec

(***************************************************************************)
(* Whatever the workers do, the offsets stay inside the ring.              *)
(***************************************************************************)
THEOREM TypeCorrect == Spec => []TypeOK
<1>1. QueueInv => TypeOK
  BY Zenon DEF QueueInv
<1> QED BY <1>1, Invariance, PTL

(***************************************************************************)
(* queue_occupancy() always tells the bytes the entries take, a full ring  *)
(* being told from an empty one.                                           *)
(***************************************************************************)
THEOREM OccupancyCorrect == Spec => []EntriesFillRing
<1>1. QueueInv => EntriesFillRing
  BY Zenon DEF QueueInv
<1> QED BY <1>1, Invariance, PTL

(***************************************************************************)
(* No entry is overwritten before it is popped.                            *)
(***************************************************************************)
THEOREM NoOverwrite == Spec => []EntriesIntact
<1>1. QueueInv => EntriesIntact
  BY Zenon DEF QueueInv
<1> QED BY <1>1, Invariance, PTL

(***************************************************************************)
(* The assertions around the copies never fail.                            *)
(***************************************************************************)
THEOREM CopyBounds == Spec => []CopiesInBounds
<1>1. QueueInv => CopiesInBounds
  BY Zenon DEF QueueInv
<1> QED BY <1>1, Invariance, PTL

----------------------------------------------------------------------------
(***************************************************************************)
(* Every step of the ring is a step of the FIFO, or changes nothing that   *)
(* the FIFO shows.                                                         *)
(***************************************************************************)
LEMMA StepSimulates ==
    QueueInv /\ [Next]_vars => [Fifo!Next]_<<Items, Occupancy, reply>>
<1> SUFFICES ASSUME QueueInv, [Next]_vars
             PROVE  [Fifo!Next]_<<Items, Occupancy, reply>>
  BY Zenon
<1>1. /\ TypeOK /\ EntriesFillRing /\ EntriesOrdered /\ EntriesIntact
      /\ CopiesInBounds
  BY Zenon DEF QueueInv
<1>2. /\ entries \in Seq(Entries) /\ Len(entries) \in Nat
      /\ Header \in Nat \ {0} /\ Capacity \in Nat
      /\ Occupancy \in Nat
  BY <1>1, HeaderAssumption, CapacityAssumption, OccupancyType DEF TypeOK
<1>3. ASSUME UNCHANGED <<ring, entries>>
      PROVE  Items' = Items /\ Occupancy' = Occupancy
  BY <1>3, Zenon DEF Items, Occupancy, ring
<1>4. /\ Items = <<>> <=> entries = <<>>
      /\ entries # <<>> => Head(Items) = entries[1].data
  <2>1. Items = [k \in 1 .. Len(entries) |-> entries[k].data]
    BY Zenon DEF Items
  <2>2. CASE entries = <<>>
    BY <2>1, <2>2
  <2>3. CASE entries # <<>>
    <3>1. 1 \in 1 .. Len(entries)
      BY <1>2, <2>3
    <3>2. Items # <<>> /\ Items[1] = entries[1].data
      BY <2>1, <3>1
    <3> QED BY <2>3, <3>2
  <2> QED BY <2>2, <2>3, Zenon
<1>5. ASSUME NEW w \in Workers, NEW m \in Messages, Push(w, m)
      PROVE  Fifo!Enqueue(m)
  <2>1. Len(m) \in Nat
    BY MessagesAssumption
  <2>2. Occupancy' = Occupancy + (Header + Len(m))
    BY <1>1, <1>5, PushWrites, Zenon
  <2>3. Occupancy + Header + Len(m) <= Capacity
    BY <1>2, <1>5, <2>1 DEF Push, QueueFull
  <2>4. Items' = Append(Items, m)
    <3> DEFINE new == [at |-> Occupancy, data |-> m]
    <3>1. entries' = Append(entries, new) /\ new \in Entries /\ new.data = m
      BY <1>2, <1>5, Zenon DEF Push, Entries
    <3> HIDE DEF new
    <3>2. /\ Len(entries') = Len(entries) + 1
          /\ \A k \in 1 .. Len(entries) : entries'[k] = entries[k]
          /\ entries'[Len(entries) + 1] = new
      BY <1>2, <3>1
    <3>3. /\ Items' = [k \in 1 .. Len(entries) + 1 |-> entries'[k].data]
          /\ Items = [k \in 1 .. Len(entries) |-> entries[k].data]
      BY <3>2, Zenon DEF Items
    <3> QED BY <1>2, <3>1, <3>2, <3>3
  <2>5. reply' = Fifo!Reply("push", "ok", m)
    BY <1>5, Zenon DEF Push, Reply, Fifo!Reply
  <2>6. Occupancy' = Occupancy + Header + Len(m)
    BY <1>2, <2>1, <2>2
  <2> QED BY <2>3, <2>4, <2>5, <2>6, Zenon DEF Fifo!Enqueue
<1>6. ASSUME NEW w \in Workers, NEW m \in Messages, PushFull(w, m)
      PROVE  Fifo!EnqueueRefused(m)
  <2>1. Len(m) \in Nat
    BY MessagesAssumption
  <2>2. Occupancy + Header + Len(m) > Capacity
    BY <1>2, <1>6, <2>1 DEF PushFull, QueueFull
  <2> QED BY <1>3, <1>6, <2>2, Zenon DEF PushFull, Reply, Fifo!Reply, Fifo!EnqueueRefused
<1>7. ASSUME NEW w \in Workers, PopEmpty(w)
      PROVE  Fifo!DequeueEmpty
  <2>1. entries = <<>>
    BY <1>1, <1>7, EmptyIffNoEntry, Zenon DEF PopEmpty
  <2> QED BY <1>3, <1>4, <1>7, <2>1, Zenon DEF PopEmpty, Reply, Fifo!Reply, Fifo!DequeueEmpty
<1>8. ASSUME NEW w \in Workers, PopZero(w) \/ PopFinish(w)
      PROVE  Fifo!Dequeue
  <2>1. entries # <<>> /\ TakeEntry(Len(entries[1].data))
    BY <1>8, PopTakesOldest, Zenon
  <2>2. /\ entries' \in Seq(Entries)
        /\ Len(entries') = Len(entries) - 1
        /\ \A k \in 1 .. Len(entries') :
              entries'[k].data = entries[k + 1].data
        /\ Occupancy' = Occupancy - (Header + Len(entries[1].data))
        /\ reply' = Reply("pop", "ok", entries[1].data)
    BY <1>1, <2>1, TakeOldest, Zenon
  <2>3. Items' = Tail(Items)
    <3>1. /\ Items' = [k \in 1 .. Len(entries) - 1 |-> entries[k + 1].data]
          /\ Items = [k \in 1 .. Len(entries) |-> entries[k].data]
      BY <2>2, Zenon DEF Items
    <3>2. Len(entries) \in Nat \ {0}
      BY <1>2, <2>1
    <3> QED BY <3>1, <3>2
  <2> QED BY <1>4, <2>1, <2>2, <2>3, Zenon DEF Reply, Fifo!Reply, Fifo!Dequeue
<1>9. ASSUME NEW w \in Workers, PopAlloc(w)
      PROVE  UNCHANGED <<Items, Occupancy, reply>>
  BY <1>3, <1>9, Zenon DEF PopAlloc
<1>10. ASSUME NEW w \in Workers, PopError(w)
       PROVE  Fifo!DequeueFailed
  <2>1. entries # <<>>
    BY <1>10, NoWorkerAssumption, Zenon DEF PopError, QueueInv, PendingIsOldest
  <2> QED BY <1>3, <1>4, <1>10, <2>1, Zenon DEF PopError, Reply, Fifo!Reply, Fifo!DequeueFailed
<1>11. CASE UNCHANGED vars
  BY <1>3, <1>11, Zenon DEF vars
<1> QED BY <1>5, <1>6, <1>7, <1>8, <1>9, <1>10, <1>11, Zenon DEF Next, Fifo!Next

(***************************************************************************)
(* The ring implements the bounded FIFO of messages.                       *)
(***************************************************************************)
THEOREM Refinement == Spec => FifoSpec
<1>1. Init => Fifo!Init
  <2> SUFFICES ASSUME Init PROVE Fifo!Init
    BY Zenon
  <2>1. Items = <<>> /\ Occupancy = 0
    BY DEF Init, Items, Occupancy, queue_occupancy
  <2> QED BY <2>1, Zenon DEF Init, Fifo!Init, Reply, Fifo!Reply
<1>2. QueueInv /\ [Next]_vars => [Fifo!Next]_Fifo!vars
  BY StepSimulates, Zenon DEF Fifo!vars
<1> QED BY <1>1, <1>2, Invariance, PTL DEF Spec, FifoSpec, Fifo!Spec
============================================================================
