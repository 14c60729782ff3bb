------------------------------- MODULE Server -------------------------------
(***************************************************************************)
(* server/main.cpp with ingest and device_session: the two accept loops,   *)
(* what a device's frames do to its session, and the housekeeping sweep    *)
(* that evicts devices, drops subscribers and closes the backpressure loop.*)
(*                                                                         *)
(* The process is single-threaded and runs callbacks to completion, so a   *)
(* callback is one step.  Of the store this module keeps what the sweep    *)
(* works on: the OFFLINE alerts and the registered subscribers (module     *)
(* Store has the rest).  Of a connection it keeps closed() and             *)
(* write_congested() (module Connection has the rest).                     *)
(*                                                                         *)
(* Clocks are kept relative: idle is now - last_activity_, due is the      *)
(* housekeeping timer's deadline - now.                                    *)
(***************************************************************************)
EXTENDS Integers, FiniteSets

CONSTANTS
  Fds,                   \* descriptors of accepted sockets
  IdSpace,               \* values of a session id, 2^16 in the code
  Rates,                 \* sampling rates a HELLO may offer (uint8_t)
  kMaxSampleRateHz,      \* 10
  kDeviceTimeout,        \* 6000 ms
  kHousekeepingInterval, \* 1000 ms
  Delay,                 \* the longest the loop is kept from a due timer
  MaxAccepts             \* bound on accepted devices

ASSUME ServerConstants ==
  /\ IdSpace \in Nat \ {0, 1}
  /\ Rates \subseteq Nat
  /\ kMaxSampleRateHz \in Nat \ {0}
  /\ kDeviceTimeout \in Nat
  /\ kHousekeepingInterval \in Nat \ {0}
  /\ Delay \in Nat
  /\ MaxAccepts \in Nat

VARIABLES
  role,            \* which of the maps devices and subscribers holds the fd
  closed,          \* its connection has seen the peer close, or an error
  id,              \* the session id given to the device on accept
  session,         \* ingest::session_ has a value: a HELLO has been handled
  rate,            \* device_session::current_rate_hz_
  idle,            \* time since device_session::last_activity_
  told,            \* the rate in the last CONFIG or SLOW_DOWN queued
  next_session_id,
  offline,         \* store: ids with an active OFFLINE alert
  watching,        \* store: subscribers_
  congested,       \* subscribers whose connection is write_congested()
  due,             \* time to the housekeeping deadline, negative when late
  accepted         \* devices accepted so far (for the statements only)

vars == <<role, closed, id, session, rate, idle, told, next_session_id,
          offline, watching, congested, due, accepted>>

Ids == 0..(IdSpace - 1)
Device(fd) == role[fd] = "device"
Subscriber(fd) == role[fd] = "subscriber"
InSession(fd) == Device(fd) /\ session[fd]

Least(a, b) == IF a <= b THEN a ELSE b
Greatest(a, b) == IF a >= b THEN a ELSE b

Init ==
  /\ role = [fd \in Fds |-> "free"]
  /\ closed = [fd \in Fds |-> FALSE]
  /\ id = [fd \in Fds |-> 0]
  /\ session = [fd \in Fds |-> FALSE]
  /\ rate = [fd \in Fds |-> 0]
  /\ idle = [fd \in Fds |-> 0]
  /\ told = [fd \in Fds |-> 0]
  /\ next_session_id = 1
  /\ offline = {}
  /\ watching = {}
  /\ congested = {}
  /\ due = kHousekeepingInterval
  /\ accepted = 0

---------------------------------------------------------------------------
\* Connections come and go.

\* Mutant: the number of connected devices is used as the id.
NewSessionIdCount ==
  /\ next_session_id' = (1 + Cardinality({f \in Fds : Device(f)})) % IdSpace

\* accept_devices(): ++next_session_id on a std::uint16_t.
NewSessionId == next_session_id' = (next_session_id + 1) % IdSpace

AcceptDevice(fd) ==
  /\ role[fd] = "free"
  /\ accepted < MaxAccepts
  /\ role' = [role EXCEPT ![fd] = "device"]
  /\ closed' = [closed EXCEPT ![fd] = FALSE]
  /\ id' = [id EXCEPT ![fd] = next_session_id]
  /\ session' = [session EXCEPT ![fd] = FALSE]
  /\ rate' = [rate EXCEPT ![fd] = 0]
  /\ told' = [told EXCEPT ![fd] = 0]
  /\ NewSessionId
  /\ accepted' = accepted + 1
  /\ UNCHANGED <<idle, offline, watching, congested, due>>

\* The store writes lines to its subscribers, any of whom may reach the
\* high-water mark by it.
Publish(subs) == congested' \in {congested \cup more : more \in SUBSET subs}

\* accept_subscribers(): registering replays the active alerts.
AcceptSubscriber(fd) ==
  /\ role[fd] = "free"
  /\ role' = [role EXCEPT ![fd] = "subscriber"]
  /\ closed' = [closed EXCEPT ![fd] = FALSE]
  /\ watching' = watching \cup {fd}
  /\ Publish({fd})
  /\ UNCHANGED <<id, session, rate, idle, told, next_session_id, offline, due,
                 accepted>>

\* try_read() or try_write() finds the peer gone.  The frames or lines that
\* came before it are handled in the same callback; nothing reads closed()
\* there, so they are taken as steps before this one.
PeerCloses(fd) ==
  /\ role[fd] # "free" /\ ~closed[fd]
  /\ closed' = [closed EXCEPT ![fd] = TRUE]
  /\ UNCHANGED <<role, id, session, rate, idle, told, next_session_id, offline,
                 watching, congested, due, accepted>>

---------------------------------------------------------------------------
\* The frames of a device (ingest::dispatch) and the commands of a subscriber.

\* device_session::handle_hello(): the rate the server settles on.
AgreedRate(offered) == Least(offered, kMaxSampleRateHz)

\* handle_hello(): a fresh session, answered by CONFIG.
Hello(fd, offered) ==
  /\ Device(fd) /\ ~closed[fd]
  /\ session' = [session EXCEPT ![fd] = TRUE]
  /\ rate' = [rate EXCEPT ![fd] = AgreedRate(offered)]
  /\ told' = [told EXCEPT ![fd] = AgreedRate(offered)]
  /\ idle' = [idle EXCEPT ![fd] = 0]
  /\ UNCHANGED <<role, closed, id, next_session_id, offline, watching,
                 congested, due, accepted>>

\* handle_heartbeat().
Heartbeat(fd) ==
  /\ Device(fd) /\ ~closed[fd]
  /\ session[fd]
  /\ idle' = [idle EXCEPT ![fd] = 0]
  /\ UNCHANGED <<role, closed, id, session, rate, told, next_session_id,
                 offline, watching, congested, due, accepted>>

\* handle_sample(): also recorded, and published to the subscribers.
Sample(fd) ==
  /\ Device(fd) /\ ~closed[fd]
  /\ session[fd]
  /\ idle' = [idle EXCEPT ![fd] = 0]
  /\ Publish(watching)
  /\ UNCHANGED <<role, closed, id, session, rate, told, next_session_id,
                 offline, watching, due, accepted>>

\* ACK <s> from a subscriber, answered by ACK_OK.  It may be congested: the
\* readiness was reported before an earlier callback of the batch filled it.
Ack(fd, s) ==
  /\ Subscriber(fd) /\ ~closed[fd]
  /\ offline' = offline \ {s}
  /\ Publish({fd})
  /\ UNCHANGED <<role, closed, id, session, rate, idle, told, next_session_id,
                 watching, due, accepted>>

\* try_write() brings the buffer back under the high-water mark.
Drain(fd) ==
  /\ fd \in congested /\ ~closed[fd]
  /\ congested' = congested \ {fd}
  /\ UNCHANGED <<role, closed, id, session, rate, idle, told, next_session_id,
                 offline, watching, due, accepted>>

---------------------------------------------------------------------------
\* housekeeping().

\* Mutant: a device is only timed out before it has a session.
TimedOutNoSession(fd) == ~session[fd] /\ idle[fd] > kDeviceTimeout

\* Mutant: a device is timed out at the limit already.
TimedOutAtLimit(fd) == session[fd] /\ idle[fd] >= kDeviceTimeout

\* has_session() and device_session::timed_out().
TimedOut(fd) == session[fd] /\ idle[fd] > kDeviceTimeout

Evicted == {fd \in Fds : Device(fd) /\ (closed[fd] \/ TimedOut(fd))}
Dropped == {fd \in Fds : Subscriber(fd) /\ closed[fd]}

\* any_subscriber_congested, read before the sweep over the devices.
Pressure == \E fd \in congested : Subscriber(fd) /\ ~closed[fd]

\* The devices told to slow down.
Slowed == IF Pressure THEN {fd \in Fds : InSession(fd)} \ Evicted ELSE {}

\* Mutant: a timeout is not reported.
MissingClosedOnly == {id[fd] : fd \in {f \in Evicted : session[f] /\ closed[f]}}

\* latch_offline(), for an evicted device with a session.
Missing == {id[fd] : fd \in {f \in Evicted : session[f]}}

\* Mutant: the rate is halved down to 0.
SlowerToZero(r) == r \div 2

Slower(r) == Greatest(1, r \div 2)

\* send_slow_down(): the session's rate and the frame to the device.
SlowDown ==
  /\ rate' = [fd \in Fds |-> CASE fd \in Slowed -> Slower(rate[fd])
                               [] fd \in Evicted -> 0
                               [] OTHER -> rate[fd]]
  /\ told' = [fd \in Fds |-> CASE fd \in Slowed -> Slower(rate[fd])
                               [] fd \in Evicted -> 0
                               [] OTHER -> told[fd]]

\* Mutant: a dropped subscriber stays registered with the store.
ForgetNobody == watching' = watching

\* remove_subscriber(), for every dropped subscriber.
Forget == watching' = watching \ Dropped

\* The slots of evicted devices and dropped subscribers are destroyed.
Destroy ==
  LET gone == Evicted \cup Dropped
  IN  /\ role' = [fd \in Fds |-> IF fd \in gone THEN "free" ELSE role[fd]]
      /\ closed' = [fd \in Fds |-> closed[fd] /\ fd \notin gone]
      /\ session' = [fd \in Fds |-> session[fd] /\ fd \notin gone]
      /\ id' = [fd \in Fds |-> IF fd \in gone THEN 0 ELSE id[fd]]
      /\ idle' = [fd \in Fds |-> IF fd \in gone THEN 0 ELSE idle[fd]]

Housekeeping ==
  /\ due <= 0
  /\ Forget
  /\ offline' = offline \cup Missing
  /\ congested' \in {(congested \ Dropped) \cup more :
                       more \in SUBSET IF Missing \subseteq offline
                                        THEN {} ELSE watching \ Dropped}
  /\ SlowDown
  /\ Destroy
  /\ due' = kHousekeepingInterval
  /\ UNCHANGED <<next_session_id, accepted>>

\* Time passes; the loop gets to its due timers within Delay.
Tick ==
  /\ due > -Delay
  /\ due' = due - 1
  /\ idle' = [fd \in Fds |-> IF InSession(fd) THEN idle[fd] + 1 ELSE idle[fd]]
  /\ UNCHANGED <<role, closed, id, session, rate, told, next_session_id,
                 offline, watching, congested, accepted>>

Next ==
  \/ \E fd \in Fds : AcceptDevice(fd)
  \/ \E fd \in Fds : AcceptSubscriber(fd)
  \/ \E fd \in Fds : PeerCloses(fd)
  \/ \E fd \in Fds, offered \in Rates : Hello(fd, offered)
  \/ \E fd \in Fds : Heartbeat(fd)
  \/ \E fd \in Fds : Sample(fd)
  \/ \E fd \in Fds, s \in Ids : Ack(fd, s)
  \/ \E fd \in Fds : Drain(fd)
  \/ Housekeeping
  \/ Tick

Spec == Init /\ [][Next]_vars

---------------------------------------------------------------------------
\* Properties.

\* Every variable keeps its type; in particular a rate fits the session.
TypeOK ==
  /\ role \in [Fds -> {"free", "device", "subscriber"}]
  /\ closed \in [Fds -> BOOLEAN]
  /\ id \in [Fds -> Ids]
  /\ session \in [Fds -> BOOLEAN]
  /\ rate \in [Fds -> 0..kMaxSampleRateHz]
  /\ idle \in [Fds -> Nat]
  /\ told \in [Fds -> 0..kMaxSampleRateHz]
  /\ next_session_id \in Ids
  /\ offline \subseteq Ids
  /\ watching \subseteq Fds
  /\ congested \subseteq Fds
  /\ due \in (-Delay)..kHousekeepingInterval
  /\ accepted \in Nat

\* The store holds a pointer to exactly the subscribers that exist: none
\* dangles after the sweep destroys one, even when its descriptor is reused,
\* and none that is connected misses its lines.
WatchersAlive == watching = {fd \in Fds : Subscriber(fd)}

\* A device in session is never left unheard for longer than the timeout, one
\* sweep interval and the delay of the loop: it is evicted by then.
SilenceBounded ==
  \A fd \in Fds : InSession(fd) =>
    idle[fd] <= kDeviceTimeout + kHousekeepingInterval + Delay

\* What the device was last told to sample at is what its session holds, so
\* the next sweep halves the rate the device really uses.
RateAgreed == \A fd \in Fds : InSession(fd) => told[fd] = rate[fd]

\* Distinct connected devices have distinct ids, and none of them has an
\* OFFLINE alert open: an id is handed out once (ingest.hpp, store.hpp).
Identified ==
  /\ \A f, g \in Fds : Device(f) /\ Device(g) /\ id[f] = id[g] => f = g
  /\ \A fd \in Fds : Device(fd) => id[fd] \notin offline

\* Until next_session_id has wrapped, an id stands for one device for ever.
IdentifiedUntilWrap == accepted <= IdSpace => Identified

\* How a step may end a session.
EvictionStep ==
  \A fd \in Fds : InSession(fd) /\ ~InSession(fd)' => id[fd] \in offline'

\* A device leaves the server only with its OFFLINE alert open, whether it
\* dropped cleanly or stopped answering.
MissingIsReported == [][EvictionStep]_vars

\* How a step may change the rate of a session that goes on, HELLO aside.
RateStep ==
  \A fd \in Fds :
    InSession(fd) /\ InSession(fd)' /\ rate'[fd] # rate[fd] =>
      \/ \E offered \in Rates : Hello(fd, offered)
      \/ 1 <= rate'[fd] /\ rate'[fd] <= Greatest(1, rate[fd])

\* Backpressure never silences a device and never speeds one up beyond 1 Hz,
\* however many sweeps find a congested subscriber.
NeverSilenced == [][RateStep]_vars
=============================================================================
