----------------------------- MODULE BoundedFifo -----------------------------
(***************************************************************************)
(* What a ring_buffer promises: values come out in the order they went in, *)
(* none twice, and no more than Room of them are inside.                   *)
(***************************************************************************)
EXTENDS Integers, Sequences

CONSTANTS Items, Room

VARIABLES
  queue, \* the values inside
  given  \* what the last successful pop() gave

FifoInit == queue = <<>> /\ given \in Items

Push(v) == Len(queue) < Room /\ queue' = Append(queue, v) /\ UNCHANGED given

Pop == queue # <<>> /\ queue' = Tail(queue) /\ given' = Head(queue)

FifoNext == Pop \/ \E v \in Items : Push(v)

FifoSpec == FifoInit /\ [][FifoNext]_<<queue, given>>
=============================================================================
