------------------------------ MODULE ShmQueue ------------------------------
(***************************************************************************)
(* The shared-memory queue of src/common/shm/ngx_wa_shm_queue.c: a byte    *)
(* ring in which every entry is a length header followed by the message.   *)
(* Several worker processes push and pop under the zone's mutex; a pop     *)
(* calls back into the worker's Wasm instance for memory while it holds    *)
(* the mutex.                                                              *)
(*                                                                         *)
(* A byte of the ring is a record: a header byte carries the length it     *)
(* encodes and its place in the header, a message byte has place 0.  So a  *)
(* header read at a wrong offset, or partly overwritten, is told apart     *)
(* from an intact one.                                                     *)
(***************************************************************************)
EXTENDS Integers, Sequences

CONSTANTS
    Workers,    \* worker processes attached to the zone
    Capacity,   \* queue_capacity(): bytes between buffer and buffer_end
    Header,     \* sizeof(uint32_t)
    Messages,   \* messages the filters may push: sequences of bytes
    NoWorker    \* the zone's mutex is free

ASSUME CapacityAssumption == Capacity \in Nat \ {0}
ASSUME HeaderAssumption == Header \in Nat \ {0}
ASSUME MessagesAssumption == Messages \subseteq Seq(Nat)
ASSUME NoWorkerAssumption == NoWorker \notin Workers

VARIABLES
    buffer,             \* the ring
    push_ptr,           \* offset of the next byte to write
    pop_ptr,            \* offset of the next byte to read
    rising_occupancy,   \* the last completed operation was a push
    holder,             \* worker holding the mutex inside pop's alloc()
    pending,            \* the length that worker read from the header
    entries,            \* history: the entries in the ring, oldest first,
                        \*   each with its distance from pop_ptr
    asserts,            \* history: the ngx_wa_assert()s that were false
    reply               \* history: the answer given by the last operation

ring == <<buffer, push_ptr, pop_ptr, rising_occupancy>>
vars == <<ring, holder, pending, entries, asserts, reply>>

Offsets == 0 .. Capacity - 1

HeaderByte(len, i) == [place |-> i, val |-> len]
DataByte(b) == [place |-> 0, val |-> b]
Bytes == [place : 0 .. Header, val : Nat]

HeaderBytes(len) == [i \in 1 .. Header |-> HeaderByte(len, i)]
DataBytes(m) == [i \in 1 .. Len(m) |-> DataByte(m[i])]

(***************************************************************************)
(* A torn header would decode to an arbitrary length; 0 stands for it.     *)
(***************************************************************************)
Decode(bytes) ==
    IF \A i \in 1 .. Header : bytes[i] = HeaderByte(bytes[1].val, i)
    THEN bytes[1].val
    ELSE 0

Payload(bytes) == [i \in DOMAIN bytes |-> bytes[i].val]

queue_occupancy(push, pop, rising) ==
    IF push > pop THEN push - pop
    ELSE IF push < pop THEN Capacity - (pop - push)
    ELSE IF rising THEN Capacity ELSE 0

Occupancy == queue_occupancy(push_ptr, pop_ptr, rising_occupancy)

\* Fault: the end of the ring is taken for a valid offset.
FaultIncPtr(ptr, n) ==
    IF ptr + n > Capacity THEN ptr + n - Capacity ELSE ptr + n

inc_ptr(ptr, n) ==
    IF ptr + n >= Capacity THEN ptr + n - Capacity ELSE ptr + n

\* The bytes go to ptr, ptr+1, ... and, past the end of the ring, to 0, 1, ...
circular_write(buf, ptr, bytes) ==
    LET forward == Capacity - ptr IN
    [o \in Offsets |->
        IF Len(bytes) >= forward /\ o < Len(bytes) - forward
        THEN bytes[forward + o + 1]
        ELSE IF ptr <= o /\ o < ptr + Len(bytes) THEN bytes[o - ptr + 1]
        ELSE buf[o]]

circular_read(buf, ptr, size) ==
    LET forward == Capacity - ptr IN
    [i \in 1 .. size |->
        IF size >= forward /\ i > forward THEN buf[i - forward - 1]
        ELSE buf[ptr + i - 1]]

(***************************************************************************)
(* The assertions of circular_write() and inc_ptr() that a push runs       *)
(* through, and of circular_read() and inc_ptr() that a pop runs through.  *)
(* The second copy of each is made with the pointer already past the       *)
(* header and the flag still unchanged.                                    *)
(***************************************************************************)
WriteFits(size, occupancy) == size <= Capacity - occupancy
ReadAvailable(size, occupancy) == size <= occupancy
PtrWraps(ptr, n) == ptr + n < 2 * Capacity

PushAsserts(m) ==
    LET mid == inc_ptr(push_ptr, Header) IN
    /\ WriteFits(Header, Occupancy)
    /\ WriteFits(Len(m), queue_occupancy(mid, pop_ptr, rising_occupancy))
    /\ PtrWraps(push_ptr, Header)
    /\ PtrWraps(mid, Len(m))

PopAsserts(len) ==
    LET mid == inc_ptr(pop_ptr, Header) IN
    /\ ReadAvailable(Header, Occupancy)
    /\ ReadAvailable(len, queue_occupancy(push_ptr, mid, rising_occupancy))
    /\ PtrWraps(pop_ptr, Header)
    /\ PtrWraps(mid, len)

Reply(op, rc, data) == [op |-> op, rc |-> rc, data |-> data]

Failing(name, ok) == IF ok THEN {} ELSE {name}

\* Fault: the room for the header is forgotten.
FaultQueueFull(m) == Occupancy + Len(m) > Capacity

QueueFull(m) == Occupancy + (Header + Len(m)) > Capacity

QueueEmpty == Occupancy < Header

Init ==
    /\ buffer = [o \in Offsets |-> DataByte(0)]
    /\ push_ptr = 0
    /\ pop_ptr = 0
    /\ rising_occupancy = FALSE
    /\ holder = NoWorker
    /\ pending = 0
    /\ entries = <<>>
    /\ asserts = {}
    /\ reply = Reply("init", "ok", <<>>)

PushFull(w, m) ==
    /\ holder = NoWorker
    /\ QueueFull(m)
    /\ reply' = Reply("push", "full", m)
    /\ UNCHANGED <<ring, holder, pending, entries, asserts>>

Push(w, m) ==
    LET mid == inc_ptr(push_ptr, Header)
        written == circular_write(buffer, push_ptr, HeaderBytes(Len(m)))
    IN
    /\ holder = NoWorker
    /\ ~QueueFull(m)
    /\ buffer' = circular_write(written, mid, DataBytes(m))
    /\ push_ptr' = inc_ptr(mid, Len(m))
    /\ rising_occupancy' = TRUE
    /\ entries' = Append(entries, [at |-> Occupancy, data |-> m])
    /\ asserts' = asserts \cup Failing("copy", PushAsserts(m))
    /\ reply' = Reply("push", "ok", m)
    /\ UNCHANGED <<pop_ptr, holder, pending>>

PopEmpty(w) ==
    /\ holder = NoWorker
    /\ QueueEmpty
    /\ reply' = Reply("pop", "empty", <<>>)
    /\ UNCHANGED <<ring, holder, pending, entries, asserts>>

\* The entries left in the ring once the oldest, of size bytes, is gone.
Dropped(size) ==
    [k \in 1 .. Len(entries) - 1 |->
        [entries[k + 1] EXCEPT !.at = @ - size]]

\* Everything pop does once the memory for the message is there.
TakeEntry(len) ==
    LET mid == inc_ptr(pop_ptr, Header) IN
    /\ pop_ptr' = inc_ptr(mid, len)
    /\ rising_occupancy' = FALSE
    /\ entries' = Dropped(Header + len)
    /\ asserts' = asserts \cup Failing("copy", PopAsserts(len))
                          \cup Failing("buf", len # 0)
    /\ reply' = Reply("pop", "ok", Payload(circular_read(buffer, mid, len)))
    /\ UNCHANGED <<buffer, push_ptr>>

PopLen == Decode(circular_read(buffer, pop_ptr, Header))

\* An empty message needs no memory: the pop completes at once.
PopZero(w) ==
    /\ holder = NoWorker
    /\ ~QueueEmpty
    /\ PopLen = 0
    /\ TakeEntry(0)
    /\ UNCHANGED <<holder, pending>>

\* Otherwise alloc() runs the worker's Wasm allocator with the mutex held.
PopAlloc(w) ==
    /\ holder = NoWorker
    /\ ~QueueEmpty
    /\ PopLen # 0
    /\ holder' = w
    /\ pending' = PopLen
    /\ UNCHANGED <<ring, entries, asserts, reply>>

\* Fault: the read pointer is moved before the memory is there.
FaultPopError(w) ==
    /\ holder = w
    /\ pop_ptr' = inc_ptr(pop_ptr, Header)
    /\ holder' = NoWorker
    /\ pending' = 0
    /\ reply' = Reply("pop", "error", <<>>)
    /\ UNCHANGED <<buffer, push_ptr, rising_occupancy, entries, asserts>>

\* alloc() trapped or returned no memory.
PopError(w) ==
    /\ holder = w
    /\ holder' = NoWorker
    /\ pending' = 0
    /\ reply' = Reply("pop", "error", <<>>)
    /\ UNCHANGED <<ring, entries, asserts>>

PopFinish(w) ==
    /\ holder = w
    /\ TakeEntry(pending)
    /\ holder' = NoWorker
    /\ pending' = 0

Next ==
    \E w \in Workers :
        \/ \E m \in Messages : Push(w, m) \/ PushFull(w, m)
        \/ PopEmpty(w)
        \/ PopZero(w)
        \/ PopAlloc(w)
        \/ PopError(w)
        \/ PopFinish(w)

Spec == Init /\ [][Next]_vars

----------------------------------------------------------------------------
Entries == [at : Nat, data : Messages]
EntrySize(e) == Header + Len(e.data)
EntryEnd(e) == e.at + EntrySize(e)
ByteAt(distance) == buffer[inc_ptr(pop_ptr, distance)]

(***************************************************************************)
(* Both offsets stay inside the ring (check_queue_invariance()), the ring  *)
(* holds bytes, and a worker is inside alloc() exactly when it read the    *)
(* header of a non-empty message.                                          *)
(***************************************************************************)
TypeOK ==
    /\ buffer \in [Offsets -> Bytes]
    /\ push_ptr \in Offsets
    /\ pop_ptr \in Offsets
    /\ rising_occupancy \in BOOLEAN
    /\ holder \in Workers \cup {NoWorker}
    /\ pending \in Nat
    /\ (pending = 0) <=> (holder = NoWorker)
    /\ entries \in Seq(Entries)
    /\ asserts \subseteq {"copy", "buf"}

(***************************************************************************)
(* The two offsets and the flag, which are all the code keeps, always tell *)
(* how many bytes the entries take: the entries lie back to back from      *)
(* pop_ptr, and the last one ends where queue_occupancy() says.  A full    *)
(* and an empty ring, whose offsets are equal, are told apart.             *)
(***************************************************************************)
EntriesFillRing ==
    /\ (entries = <<>>) <=> (Occupancy = 0)
    /\ entries # <<>> => /\ entries[1].at = 0
                         /\ EntryEnd(entries[Len(entries)]) = Occupancy
    /\ \A k \in 1 .. Len(entries) - 1 :
           entries[k + 1].at = EntryEnd(entries[k])

(***************************************************************************)
(* No push overwrites an entry not yet popped, wherever the ring wraps:    *)
(* the header and the bytes of every entry are in the ring as written.     *)
(***************************************************************************)
EntriesIntact ==
    \A k \in 1 .. Len(entries) :
        LET e == entries[k] IN
        /\ \A i \in 1 .. Header :
              ByteAt(e.at + i - 1) = HeaderByte(Len(e.data), i)
        /\ \A i \in 1 .. Len(e.data) :
              ByteAt(e.at + Header + i - 1) = DataByte(e.data[i])

(***************************************************************************)
(* The bounds asserted around every copy into and out of the ring, and     *)
(* after every move of an offset, hold - also for the second copy of an    *)
(* operation, made half-way through it.                                    *)
(***************************************************************************)
CopiesInBounds == "copy" \notin asserts

(***************************************************************************)
(* ngx_wa_assert(buf) in ngx_wa_shm_queue_pop_locked(): the message being  *)
(* popped always has memory.                                               *)
(***************************************************************************)
PoppedMessageHasBuffer == "buf" \notin asserts

(***************************************************************************)
(* The ring implements the bounded FIFO of messages: whatever the          *)
(* interleaving of workers, a pop returns the oldest message byte for      *)
(* byte, a push is refused exactly when the message does not fit, and a    *)
(* pop whose allocation fails takes nothing.                               *)
(***************************************************************************)
Items == [k \in 1 .. Len(entries) |-> entries[k].data]
Fifo == INSTANCE ShmFifo WITH items <- Items, used <- Occupancy
FifoSpec == Fifo!Spec
============================================================================
