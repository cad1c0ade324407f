------------------------------ MODULE ShmFifo ------------------------------
(***************************************************************************)
(* What a shared-memory queue promises to the filters that use it: a       *)
(* bounded first-in first-out queue of messages.  A message occupies its   *)
(* own length plus a fixed header; an enqueue is refused exactly when the  *)
(* message does not fit, and a dequeue returns the oldest message whole,   *)
(* reports that the queue is empty, or fails and takes nothing.            *)
(***************************************************************************)
EXTENDS Integers, Sequences

CONSTANTS
    Capacity,   \* bytes of message storage
    Header,     \* bytes of bookkeeping per message
    Messages    \* the messages that may be enqueued, each a sequence

VARIABLES
    items,      \* the messages in the queue, oldest first
    used,       \* bytes in use
    reply       \* the answer given by the last operation

vars == <<items, used, reply>>

Reply(op, rc, data) == [op |-> op, rc |-> rc, data |-> data]

Init ==
    /\ items = <<>>
    /\ used = 0
    /\ reply = Reply("init", "ok", <<>>)

Enqueue(m) ==
    /\ used + Header + Len(m) <= Capacity
    /\ items' = Append(items, m)
    /\ used' = used + Header + Len(m)
    /\ reply' = Reply("push", "ok", m)

EnqueueRefused(m) ==
    /\ used + Header + Len(m) > Capacity
    /\ reply' = Reply("push", "full", m)
    /\ UNCHANGED <<items, used>>

Dequeue ==
    /\ items # <<>>
    /\ items' = Tail(items)
    /\ used' = used - (Header + Len(Head(items)))
    /\ reply' = Reply("pop", "ok", Head(items))

DequeueEmpty ==
    /\ items = <<>>
    /\ reply' = Reply("pop", "empty", <<>>)
    /\ UNCHANGED <<items, used>>

DequeueFailed ==
    /\ items # <<>>
    /\ reply' = Reply("pop", "error", <<>>)
    /\ UNCHANGED <<items, used>>

Next ==
    \/ \E m \in Messages : Enqueue(m) \/ EnqueueRefused(m)
    \/ Dequeue
    \/ DequeueEmpty
    \/ DequeueFailed

Spec == Init /\ [][Next]_vars
============================================================================
