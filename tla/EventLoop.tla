------------------------------ MODULE EventLoop ------------------------------
(***************************************************************************)
(* event_loop::poll(): the batch epoll_wait() reports, its dispatch        *)
(* through callbacks_, and the timers, with the callbacks main() installs: *)
(* a listener that accepts, connections that read, housekeeping.  A file   *)
(* descriptor is used again once its connection is destroyed, so an event  *)
(* in the batch may outlive the connection it was reported for.            *)
(*                                                                         *)
(* Connections are numbered in the order they are accepted.  Times are     *)
(* kept as what is left of them, in clock ticks: the clock is finer than   *)
(* the milliseconds epoll_wait() takes.                                    *)
(***************************************************************************)
EXTENDS Integers, Sequences, FiniteSets, FiniteSetsExt, Functions

CONSTANTS
  Fds,                   \* descriptors for accepted sockets
  kMaxEventsPerWait,
  kHousekeepingInterval, \* in ticks
  Millisecond,           \* in ticks
  MaxConnections         \* bound on connections accepted

Listener == 0

ASSUME LoopConstants ==
  /\ IsFiniteSet(Fds) /\ Listener \notin Fds
  /\ {kMaxEventsPerWait, kHousekeepingInterval, Millisecond, MaxConnections} \subseteq Nat \ {0}

VARIABLES
  phase,     \* where poll() is
  timeout,   \* what is left of timeout_ms, or -1 to block
  timers,    \* timers_: what is left of each
  callbacks, \* callbacks_: the connection behind a descriptor, or 0
  ready,     \* events not dispatched yet: <<descriptor, connection>>
  accepted,  \* connections accepted so far
  backlog,   \* connections waiting to be accepted
  input,     \* connections with something to read
  hungup,    \* connections whose peer has closed
  shut,      \* connections with closed_ set
  misled     \* an event has reached another connection than its own

loopvars == <<phase, timeout, timers, callbacks, ready, accepted, backlog, input, hungup, shut, misled>>
sockets == <<accepted, backlog, input, hungup, shut>>

Connection == 1..MaxConnections
Open == {callbacks[fd] : fd \in Fds} \ {0}
Free == {fd \in Fds : callbacks[fd] = 0}

LoopInit ==
  /\ phase = "poll"
  /\ timeout = -1
  /\ timers = <<kHousekeepingInterval>>
  /\ callbacks = [fd \in Fds |-> 0]
  /\ ready = <<>>
  /\ accepted = 0 /\ backlog = 0
  /\ input = {} /\ hungup = {} /\ shut = {}
  /\ misled = FALSE

---------------------------------------------------------------------------
\* poll().

\* Mutant: the remaining time is rounded up to milliseconds.
TimeoutUp ==
  IF timers = <<>> THEN -1
  ELSE ((Min(Range(timers)) + Millisecond - 1) \div Millisecond) * Millisecond

\* duration_cast to milliseconds rounds down.
Timeout ==
  IF timers = <<>> THEN -1
  ELSE (Min(Range(timers)) \div Millisecond) * Millisecond

StartWait ==
  /\ phase = "poll"
  /\ timeout' = Timeout
  /\ phase' = "wait"
  /\ UNCHANGED <<timers, callbacks, ready, sockets, misled>>

\* What the kernel would report; a connection at its end of file stays ready.
Pending ==
  {fd \in Fds : callbacks[fd] # 0 /\ callbacks[fd] \in input \union hungup}
  \union (IF backlog > 0 THEN {Listener} ELSE {})

Event(fd) == IF fd = Listener THEN <<fd, 0>> ELSE <<fd, callbacks[fd]>>

\* remove(), called by the destructor of a connection: the descriptor is free.
Remove(gone) ==
  callbacks' = [fd \in Fds |-> IF callbacks[fd] \in gone THEN 0 ELSE callbacks[fd]]

\* housekeeping() destroys what is closed and what has timed out.
Sweep == \E late \in SUBSET Open : Remove(shut \union late)

\* Mutant: housekeeping() does not add its timer again.
FireOnce ==
  IF 0 \in Range(timers)
  THEN Sweep /\ timers' = <<>>
  ELSE UNCHANGED <<callbacks, timers>>

\* fire_due_timers(), and housekeeping() adding its timer again.
fire_due_timers ==
  IF 0 \in Range(timers)
  THEN Sweep /\ timers' = <<kHousekeepingInterval>>
  ELSE UNCHANGED <<callbacks, timers>>

\* Mutant: due timers are fired before the events are dispatched.
ReturnedFired(batch) ==
  /\ phase' = "dispatch"
  /\ ready' = batch
  /\ fire_due_timers

\* epoll_wait() has returned.
Returned(batch) ==
  /\ phase' = "dispatch"
  /\ ready' = batch
  /\ UNCHANGED <<callbacks, timers>>

\* epoll_wait() returns as many events as there are and fit.
Report(fd) ==
  /\ phase = "wait"
  /\ fd \in Pending
  /\ LET n == Min({kMaxEventsPerWait, Cardinality(Pending)})
     IN  \E fds \in {f \in [1..n -> Pending] : IsInjective(f)} :
           /\ fd \in Range(fds)
           /\ Returned([i \in 1..n |-> Event(fds[i])])
  /\ UNCHANGED <<timeout, sockets, misled>>

TimeOut ==
  /\ phase = "wait" /\ timeout = 0
  /\ Returned(<<>>)
  /\ UNCHANGED <<timeout, sockets, misled>>

\* EINTR.
Interrupt ==
  /\ phase = "wait"
  /\ phase' = "timers"
  /\ UNCHANGED <<timeout, timers, callbacks, ready, sockets, misled>>

\* accept_devices() and accept_subscribers(): all that wait, as long as there
\* are descriptors.
Accept ==
  /\ ready # <<>> /\ Head(ready)[1] = Listener
  /\ LET n == Min({backlog, Cardinality(Free), MaxConnections - accepted})
     IN  /\ \E fds \in {f \in [1..n -> Free] : IsInjective(f)} :
              callbacks' = [fd \in Fds |-> IF fd \in Range(fds)
                                           THEN accepted + (CHOOSE i \in 1..n : fds[i] = fd)
                                           ELSE callbacks[fd]]
         /\ accepted' = accepted + n
         /\ backlog' = backlog - n
  /\ UNCHANGED <<input, hungup, shut>>

\* The connection's callback reads until the socket is empty or closed.  An
\* event whose descriptor has no callback is passed over.
Serve ==
  /\ ready # <<>> /\ Head(ready)[1] # Listener
  /\ LET c == callbacks[Head(ready)[1]]
     IN  /\ input' = input \ {c}
         /\ shut' = IF c \in hungup THEN shut \union {c} ELSE shut
         /\ misled' = (misled \/ (c # 0 /\ c # Head(ready)[2]))
  /\ UNCHANGED <<callbacks, accepted, backlog, hungup>>

\* Mutant: of a batch only the first event is dispatched.
DispatchFirst ==
  /\ phase = "dispatch"
  /\ IF ready = <<>>
     THEN UNCHANGED <<callbacks, sockets, misled>>
     ELSE (Accept /\ UNCHANGED misled) \/ Serve
  /\ ready' = <<>>
  /\ phase' = "timers"
  /\ UNCHANGED <<timeout, timers>>

Dispatch ==
  /\ phase = "dispatch"
  /\ IF ready = <<>>
     THEN phase' = "timers" /\ UNCHANGED <<ready, callbacks, sockets, misled>>
     ELSE /\ (Accept /\ UNCHANGED misled) \/ Serve
          /\ ready' = Tail(ready)
          /\ UNCHANGED phase
  /\ UNCHANGED <<timeout, timers>>

Fire ==
  /\ phase = "timers"
  /\ fire_due_timers
  /\ phase' = "poll"
  /\ UNCHANGED <<timeout, ready, sockets, misled>>

---------------------------------------------------------------------------
\* The world.

Less(n) == IF n > 0 THEN n - 1 ELSE n

Tick ==
  /\ timers' = [i \in DOMAIN timers |-> Less(timers[i])]
  /\ timeout' = IF phase = "wait" THEN Less(timeout) ELSE timeout
  /\ UNCHANGED <<phase, callbacks, ready, sockets, misled>>

Connect ==
  /\ accepted + backlog < MaxConnections
  /\ backlog' = backlog + 1
  /\ UNCHANGED <<phase, timeout, timers, callbacks, ready, accepted, input, hungup, shut, misled>>

Send(c) ==
  /\ c \in Open \ hungup
  /\ input' = input \union {c}
  /\ UNCHANGED <<phase, timeout, timers, callbacks, ready, accepted, backlog, hungup, shut, misled>>

HangUp(c) ==
  /\ c \in Open \ hungup
  /\ hungup' = hungup \union {c}
  /\ UNCHANGED <<phase, timeout, timers, callbacks, ready, accepted, backlog, input, shut, misled>>

Step == StartWait \/ (\E fd \in Fds \union {Listener} : Report(fd)) \/ TimeOut \/ Dispatch \/ Fire

LoopNext ==
  \/ Step
  \/ Interrupt
  \/ Tick
  \/ Connect
  \/ \E c \in Connection : Send(c) \/ HangUp(c)

LoopSpec == LoopInit /\ [][LoopNext]_loopvars

\* The loop runs, the clock advances, and the kernel's ready list rotates: a
\* descriptor that stays ready is in a batch again and again.
Fairness ==
  /\ WF_loopvars(Step)
  /\ WF_loopvars(Tick)
  /\ \A fd \in Fds \union {Listener} : SF_loopvars(Report(fd))

LoopFairSpec == LoopSpec /\ Fairness

---------------------------------------------------------------------------
\* Properties.

\* No event reaches a connection it was not reported for, although descriptors
\* are used again: connections are only destroyed when the batch is empty.
NotMisled == ~misled

\* epoll_wait() never blocks past the earliest deadline, and never for good
\* while a timer is pending.
OnTime ==
  phase = "wait" /\ timers # <<>> => 0 <= timeout /\ timeout <= Min(Range(timers))

\* A connection that has closed is destroyed, whatever traffic there is.
ClosedSwept == \A c \in Connection : c \in shut ~> c \notin Open

\* What a connection sends is read, or the connection goes away, even when more
\* descriptors are ready than one call of epoll_wait() reports.
InputRead == \A c \in Connection : c \in input /\ c \in Open ~> c \notin input \/ c \notin Open
=============================================================================
