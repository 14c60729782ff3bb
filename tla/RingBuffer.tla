----------------------------- MODULE RingBuffer -----------------------------
(***************************************************************************)
(* proto::ring_buffer between one producer and one consumer thread, one    *)
(* step per access to shared memory.  An acquire load need not return the  *)
(* last value stored: it returns that one or an earlier one, but none      *)
(* older than the thread has already seen.  So a thread's view of the      *)
(* other's index is a variable of its own.                                 *)
(*                                                                         *)
(* head_ and tail_ are counted without the % Capacity; Slot takes it.      *)
(***************************************************************************)
EXTENDS Integers, Sequences

CONSTANTS
  Items,
  Capacity,
  MaxPushes \* bound on the values pushed

ASSUME RingConstants ==
  /\ Capacity \in Nat \ {0, 1}
  /\ MaxPushes \in Nat

VARIABLES
  slots,     \* buffer_
  head,      \* head_
  tail,      \* tail_
  head_seen, \* the producer's view of head_
  tail_seen, \* the consumer's view of tail_
  producer,  \* where push() is
  consumer,  \* where pop() is
  value,     \* push()'s argument
  out        \* pop()'s result

ringvars == <<slots, head, tail, head_seen, tail_seen, producer, consumer, value, out>>

\* advance(), applied count times to 0.
Slot(count) == count % Capacity

RingInit ==
  /\ \E v \in Items : /\ slots = [i \in 0..(Capacity - 1) |-> v]
                       /\ value = v /\ out = v
  /\ head = 0 /\ tail = 0
  /\ head_seen = 0 /\ tail_seen = 0
  /\ producer = "idle" /\ consumer = "idle"

---------------------------------------------------------------------------
\* push().

\* Mutant: a full buffer takes the value, over the oldest one.
FilledNever(seen) == FALSE

\* Mutant: no slot is left empty.
FilledUp(seen) == tail - seen = Capacity

Filled(seen) == Slot(tail + 1) = Slot(seen)

PushLoad(v) ==
  /\ producer = "idle" /\ tail < MaxPushes
  /\ head_seen' \in head_seen..head
  /\ IF Filled(head_seen')
     THEN UNCHANGED <<producer, value>>
     ELSE producer' = "write" /\ value' = v
  /\ UNCHANGED <<slots, head, tail, tail_seen, consumer, out>>

PushWrite ==
  /\ producer = "write"
  /\ slots' = [slots EXCEPT ![Slot(tail)] = value]
  /\ producer' = "store"
  /\ UNCHANGED <<head, tail, head_seen, tail_seen, consumer, value, out>>

PushStore ==
  /\ producer = "store"
  /\ tail' = tail + 1
  /\ producer' = "idle"
  /\ UNCHANGED <<slots, head, head_seen, tail_seen, consumer, value, out>>

---------------------------------------------------------------------------
\* pop().

Emptied(seen) == Slot(head) = Slot(seen)

PopLoad ==
  /\ consumer = "idle"
  /\ tail_seen' \in tail_seen..tail
  /\ consumer' = IF Emptied(tail_seen') THEN "idle" ELSE "read"
  /\ UNCHANGED <<slots, head, tail, head_seen, producer, value, out>>

PopRead ==
  /\ consumer = "read"
  /\ out' = slots[Slot(head)]
  /\ consumer' = "store"
  /\ UNCHANGED <<slots, head, tail, head_seen, tail_seen, producer, value>>

PopStore ==
  /\ consumer = "store"
  /\ head' = head + 1
  /\ consumer' = "idle"
  /\ UNCHANGED <<slots, tail, head_seen, tail_seen, producer, value, out>>

RingNext ==
  \/ \E v \in Items : PushLoad(v)
  \/ PushWrite \/ PushStore
  \/ PopLoad \/ PopRead \/ PopStore

RingSpec == RingInit /\ [][RingNext]_ringvars

---------------------------------------------------------------------------
\* Properties.

\* push() and pop() never access a slot of buffer_ at the same time, however
\* stale their views of each other's index are.
NoRace == ~(producer = "write" /\ consumer = "read" /\ Slot(tail) = Slot(head))

\* The values from First up to tail_ are inside.  A value has left once pop()
\* has read it, and is inside once push() has stored the index.
First == IF consumer = "store" THEN head + 1 ELSE head

Inside == [i \in 1..(tail - First) |-> slots[Slot(First + i - 1)]]

Fifo == INSTANCE BoundedFifo WITH queue <- Inside, given <- out, Room <- Capacity - 1

\* The ring buffer is a queue of capacity() values: whatever the threads'
\* timing, each value comes out once, whole and in order, a full buffer drops
\* the new value and not an old one, and a failed pop() leaves out untouched.
ImplementsFifo == Fifo!FifoSpec
=============================================================================
