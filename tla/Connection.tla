----------------------------- MODULE Connection -----------------------------
(***************************************************************************)
(* server::connection with its registration in event_loop: one accepted    *)
(* socket, its two user-space buffers, the events it is watched for, and   *)
(* the kernel and the peer behind it (external).                           *)
(*                                                                         *)
(* poll() takes a batch of readiness first and runs the callbacks after,   *)
(* so the callback may act on a batch older than the connection's state:   *)
(* callbacks of other descriptors in between may have queued bytes.  Bytes *)
(* are numbered in the order in which they enter each stream.              *)
(***************************************************************************)
EXTENDS Integers, Sequences

CONSTANTS
  kWriteHighWaterMark, \* 64 KiB in the code
  SendBuffer,          \* what the kernel takes before send() says EAGAIN
  MaxMessage,          \* longest line or frame queued at once
  MaxOut,              \* bound on the bytes queued
  MaxIn                \* bound on the bytes the peer sends

ASSUME ConnectionConstants ==
  /\ kWriteHighWaterMark \in Nat \ {0}
  /\ SendBuffer \in Nat \ {0}
  /\ MaxMessage \in Nat \ {0}
  /\ MaxOut \in Nat
  /\ MaxIn \in Nat

VARIABLES
  write_buffer,   \* write_buffer_
  read_buffer,    \* read_buffer_
  write_interest, \* write_interest_
  closed,         \* closed_
  interest,       \* events the loop watches the fd for; {} once removed
  batch,          \* events of the running poll() not handled yet
  wire,           \* kernel: sent, not read by the peer
  inbox,          \* kernel: arrived, not received
  peer,           \* "open", "fin" (it sends no more) or "rst"
  queued,         \* bytes queued so far
  received,       \* bytes the peer has read
  sent,           \* bytes the peer has sent so far
  handed          \* bytes on_readable has consumed

buffers == <<write_buffer, read_buffer, write_interest, closed, interest, batch>>
vars == <<buffers, wire, inbox, peer, queued, received, sent, handed>>

Numbered(from, to) == [i \in 1..(to - from) |-> from + i]
Congested(w) == Len(w) >= kWriteHighWaterMark

Init ==
  /\ write_buffer = <<>>
  /\ read_buffer = <<>>
  /\ write_interest = FALSE
  /\ closed = FALSE
  /\ interest = {"IN"}
  /\ batch = {}
  /\ wire = <<>>
  /\ inbox = <<>>
  /\ peer = "open"
  /\ queued = 0
  /\ received = <<>>
  /\ sent = 0
  /\ handed = <<>>

---------------------------------------------------------------------------
\* The connection.

\* update_epoll_interest().
Interest(w, wanted) ==
  (IF Congested(w) THEN {} ELSE {"IN"}) \cup (IF wanted THEN {"OUT"} ELSE {})

\* enqueue_write() of len bytes.
Queue(len) ==
  /\ write_buffer' = write_buffer \o Numbered(queued, queued + len)
  /\ write_interest' = TRUE
  /\ interest' = Interest(write_buffer', TRUE)

\* The owner queues a message: the store's lines at any time, also on a
\* closed connection that has not been swept yet, and replies in on_readable.
EnqueueWrite(len) ==
  /\ interest # {}
  /\ queued + len <= MaxOut
  /\ Queue(len)
  /\ queued' = queued + len
  /\ UNCHANGED <<read_buffer, closed, batch, wire, inbox, peer, received, sent,
                 handed>>

\* epoll is level-triggered; an end of stream or a reset is readable, and a
\* reset is writable too.
Ready ==
  (IF inbox # <<>> \/ peer # "open" THEN {"IN"} ELSE {})
    \cup (IF Len(wire) < SendBuffer \/ peer = "rst" THEN {"OUT"} ELSE {})

\* epoll_wait() in event_loop::poll() reports the descriptor.
Poll ==
  /\ batch = {}
  /\ interest \cap Ready # {}
  /\ batch' = interest \cap Ready
  /\ UNCHANGED <<write_buffer, read_buffer, write_interest, closed, interest,
                 wire, inbox, peer, queued, received, sent, handed>>

\* Mutant: recv() is called once, not until EAGAIN.
DrainedFirst == IF inbox = <<>> THEN <<>> ELSE <<Head(inbox)>>

\* try_read(): what the recv() loop takes before EAGAIN or the end.
Drained == inbox

\* Mutant: recv() returning 0 is not taken for the end.
GoneError == peer = "rst"

\* try_read(): the recv() loop ends in 0 or an error, not in EAGAIN.
Gone == peer # "open"

\* The EPOLLIN half of the callback: try_read(), then on_readable_(), which
\* consumes complete frames or lines and may leave a rest.
OnIn ==
  /\ "IN" \in batch
  /\ batch' = batch \ {"IN"}
  /\ closed' = (closed \/ Gone)
  /\ inbox' = SubSeq(inbox, Len(Drained) + 1, Len(inbox))
  /\ \E n \in 0..Len(read_buffer \o Drained) :
       /\ handed' = handed \o SubSeq(read_buffer \o Drained, 1, n)
       /\ read_buffer' = SubSeq(read_buffer \o Drained, n + 1,
                                Len(read_buffer \o Drained))
  /\ UNCHANGED <<write_buffer, write_interest, interest, wire, peer, queued,
                 received, sent>>

\* Kernel: how many bytes the send() loop gets rid of.
Taken ==
  IF Len(write_buffer) <= SendBuffer - Len(wire) THEN Len(write_buffer)
                                                 ELSE SendBuffer - Len(wire)

\* Mutant: a partial send() drops what the kernel did not take.
UnsentDropped(n) == <<>>

\* try_write(): what stays in the buffer when send() has taken n bytes.
Unsent(n) == SubSeq(write_buffer, n + 1, Len(write_buffer))

\* Mutant: EPOLLOUT stays on once it has been watched.
StillWanted(w) == TRUE

\* try_write(): is EPOLLOUT needed any longer?
Wanted(w) == w # <<>>

\* try_write(): an error leaves the buffer, the flag and the interest alone.
SendError ==
  /\ closed' = TRUE
  /\ UNCHANGED <<write_buffer, write_interest, interest, wire>>

\* The EPOLLOUT half of the callback: try_write().
OnOut ==
  /\ batch = {"OUT"}
  /\ batch' = {}
  /\ IF peer = "rst" /\ write_buffer # <<>>
     THEN SendError
     ELSE /\ wire' = wire \o SubSeq(write_buffer, 1, Taken)
          /\ write_buffer' = Unsent(Taken)
          /\ write_interest' = Wanted(write_buffer')
          /\ interest' = Interest(write_buffer', write_interest')
          /\ UNCHANGED closed
  /\ UNCHANGED <<read_buffer, inbox, peer, queued, received, sent, handed>>

\* ~connection(), run by housekeeping() between two batches.
Destroy ==
  /\ closed /\ interest # {}
  /\ batch = {}
  /\ interest' = {}
  /\ UNCHANGED <<write_buffer, read_buffer, write_interest, closed, batch, wire,
                 inbox, peer, queued, received, sent, handed>>

---------------------------------------------------------------------------
\* The kernel and the peer (external).

PeerReads ==
  /\ wire # <<>>
  /\ received' = Append(received, Head(wire))
  /\ wire' = Tail(wire)
  /\ UNCHANGED <<buffers, inbox, peer, queued, sent, handed>>

PeerSends ==
  /\ peer = "open" /\ sent < MaxIn
  /\ sent' = sent + 1
  /\ inbox' = Append(inbox, sent')
  /\ UNCHANGED <<buffers, wire, peer, queued, received, handed>>

\* The peer shuts down its sending side.
PeerFinishes ==
  /\ peer = "open"
  /\ peer' = "fin"
  /\ UNCHANGED <<buffers, wire, inbox, queued, received, sent, handed>>

\* The connection is reset: what the peer has not read is lost.
PeerResets ==
  /\ peer # "rst"
  /\ peer' = "rst"
  /\ wire' = <<>>
  /\ UNCHANGED <<buffers, inbox, queued, received, sent, handed>>

Next ==
  \/ \E len \in 1..MaxMessage : EnqueueWrite(len)
  \/ Poll
  \/ OnIn
  \/ OnOut
  \/ Destroy
  \/ PeerReads
  \/ PeerSends
  \/ PeerFinishes
  \/ PeerResets

Spec == Init /\ [][Next]_vars

\* run() polls for ever and every callback of a batch runs.  A closed
\* connection keeps being reported, so the sweep is only enabled between
\* batches; poll() fires due timers after every one, so it comes all the same.
LoopFairness == WF_vars(Poll) /\ WF_vars(OnIn) /\ WF_vars(OnOut) /\ SF_vars(Destroy)

FairSpec == Spec /\ LoopFairness

---------------------------------------------------------------------------
\* Properties.

\* Every variable keeps its type, and no stream holds more bytes than have
\* entered it.
TypeOK ==
  /\ write_buffer \in Seq(Nat) /\ read_buffer \in Seq(Nat)
  /\ write_interest \in BOOLEAN /\ closed \in BOOLEAN
  /\ interest \subseteq {"IN", "OUT"} /\ batch \subseteq {"IN", "OUT"}
  /\ wire \in Seq(Nat) /\ inbox \in Seq(Nat)
  /\ peer \in {"open", "fin", "rst"}
  /\ queued \in Nat /\ sent \in Nat
  /\ received \in Seq(Nat) /\ handed \in Seq(Nat)
  /\ Len(wire) <= SendBuffer
  /\ Len(received) + Len(wire) + Len(write_buffer) <= queued
  /\ Len(handed) + Len(read_buffer) + Len(inbox) <= sent

\* While it is registered, a connection is watched for EPOLLOUT exactly when
\* bytes wait (nothing stalls, and the loop does not spin), and, until it is
\* closed, for EPOLLIN exactly when it is not congested.
InterestExact ==
  interest # {} =>
    /\ "OUT" \in interest <=> write_buffer # <<>>
    /\ ~closed => ("IN" \in interest <=> ~Congested(write_buffer))

\* What the peer reads is what was queued, in order and without gaps; until a
\* reset nothing in between is missing either.
OutStreamIntact ==
  /\ received = Numbered(0, Len(received))
  /\ peer # "rst" => received \o wire \o write_buffer = Numbered(0, queued)

\* Everything the peer sent is handed on in order, and a connection is marked
\* closed by an end of stream only when all of it has been received.
InStreamIntact ==
  /\ handed \o read_buffer \o inbox = Numbered(0, sent)
  /\ closed /\ peer = "fin" => inbox = <<>>

\* The peer goes on reading what has arrived.
PeerKeepsReading == WF_vars(PeerReads)

\* A peer that keeps reading gets every byte that is queued, unless it goes
\* away.
Delivered ==
  PeerKeepsReading =>
    \A n \in 1..MaxOut :
      (queued = n) ~> (Len(received) >= n \/ peer # "open")

\* A peer that has gone is noticed and its connection removed from the loop,
\* although a congested connection is not watched for input: a reset always,
\* and an end of stream once a peer that keeps reading has let it drain.
GoneNoticed ==
  /\ (peer = "rst") ~> (interest = {})
  /\ PeerKeepsReading => ((peer = "fin") ~> (interest = {}))
=============================================================================
