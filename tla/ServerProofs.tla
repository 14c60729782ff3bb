---------------------------- MODULE ServerProofs ----------------------------
(***************************************************************************)
(* Proofs about the server for every number of connections, every id       *)
(* space, timeout and sweep interval, and every delay of the loop; and     *)
(* about the server with its devices, for every rate and delay of the      *)
(* line: the server does what module Server says, and the devices follow   *)
(* the rates of their sessions.                                            *)
(***************************************************************************)
EXTENDS System, TLAPS

\* Halving a rate that fits keeps it within the server's maximum.
LEMMA SlowerType ==
  ASSUME NEW r \in 0..kMaxSampleRateHz
  PROVE  Slower(r) \in 1..kMaxSampleRateHz /\ Slower(r) <= Greatest(1, r)
BY ServerConstants DEF Slower, Greatest

LEMMA AgreedRateType ==
  ASSUME NEW offered \in Rates
  PROVE  AgreedRate(offered) \in 0..kMaxSampleRateHz
BY ServerConstants DEF AgreedRate, Least

\* Publishing keeps the congested descriptors among the known ones.
LEMMA PublishType ==
  ASSUME NEW subs \in SUBSET Fds, congested \subseteq Fds, Publish(subs)
  PROVE  congested' \subseteq Fds
BY DEF Publish

LEMMA TypeInit == Init => TypeOK
BY ServerConstants DEF Init, TypeOK, Ids

\* No step leaves the types.
LEMMA TypeStep == TypeOK /\ [Next]_vars => TypeOK'
<1> SUFFICES ASSUME TypeOK, [Next]_vars
             PROVE  TypeOK'
  OBVIOUS
<1>1. ASSUME NEW fd \in Fds, AcceptDevice(fd)
      PROVE  TypeOK'
  <2>1. (next_session_id + 1) % IdSpace \in Ids
    BY ServerConstants DEF TypeOK, Ids
  <2>2. 0 \in 0..kMaxSampleRateHz
    BY ServerConstants
  <2> QED
    BY <1>1, <2>1, <2>2 DEF AcceptDevice, NewSessionId, TypeOK
<1>2. ASSUME NEW fd \in Fds, AcceptSubscriber(fd)
      PROVE  TypeOK'
  BY <1>2, PublishType DEF AcceptSubscriber, TypeOK
<1>3. ASSUME NEW fd \in Fds, PeerCloses(fd)
      PROVE  TypeOK'
  BY <1>3 DEF PeerCloses, TypeOK
<1>4. ASSUME NEW fd \in Fds, NEW offered \in Rates, Hello(fd, offered)
      PROVE  TypeOK'
  BY <1>4, AgreedRateType DEF Hello, TypeOK
<1>5. ASSUME NEW fd \in Fds, Heartbeat(fd)
      PROVE  TypeOK'
  BY <1>5 DEF Heartbeat, TypeOK
<1>6. ASSUME NEW fd \in Fds, Sample(fd)
      PROVE  TypeOK'
  BY <1>6, PublishType DEF Sample, TypeOK
<1>7. ASSUME NEW fd \in Fds, NEW s \in Ids, Ack(fd, s)
      PROVE  TypeOK'
  BY <1>7, PublishType DEF Ack, TypeOK
<1>8. ASSUME NEW fd \in Fds, Drain(fd)
      PROVE  TypeOK'
  BY <1>8 DEF Drain, TypeOK
<1>9. ASSUME Housekeeping
      PROVE  TypeOK'
  <2>1. rate' \in [Fds -> 0..kMaxSampleRateHz] /\ told' \in [Fds -> 0..kMaxSampleRateHz]
    BY <1>9, SlowerType, ServerConstants DEF Housekeeping, SlowDown, TypeOK
  <2>2. /\ role' \in [Fds -> {"free", "device", "subscriber"}]
        /\ closed' \in [Fds -> BOOLEAN] /\ session' \in [Fds -> BOOLEAN]
    BY <1>9 DEF Housekeeping, Destroy, TypeOK
  <2>3. id' \in [Fds -> Ids] /\ idle' \in [Fds -> Nat]
    BY <1>9, ServerConstants DEF Housekeeping, Destroy, TypeOK, Ids
  <2>4. offline' \subseteq Ids
    BY <1>9 DEF Housekeeping, Missing, Evicted, TypeOK
  <2>5. watching' \subseteq Fds /\ congested' \subseteq Fds
    BY <1>9 DEF Housekeeping, Forget, TypeOK
  <2>6. due' \in (-Delay)..kHousekeepingInterval
    BY <1>9, ServerConstants DEF Housekeeping
  <2> QED
    BY <1>9, <2>1, <2>2, <2>3, <2>4, <2>5, <2>6 DEF Housekeeping, TypeOK
<1>10. ASSUME Tick
       PROVE  TypeOK'
  <2>1. due' \in (-Delay)..kHousekeepingInterval /\ idle' \in [Fds -> Nat]
    BY <1>10, ServerConstants DEF Tick, TypeOK
  <2> QED
    BY <1>10, <2>1 DEF Tick, TypeOK
<1>11. CASE UNCHANGED vars
  BY <1>11 DEF vars, TypeOK
<1> QED
  BY <1>1, <1>2, <1>3, <1>4, <1>5, <1>6, <1>7, <1>8, <1>9, <1>10, <1>11 DEF Next

\* The server's variables keep their types; in particular no rate exceeds the
\* maximum and the timer is never further away than its interval.
THEOREM ServerTypes == Spec => []TypeOK
BY TypeInit, TypeStep, PTL DEF Spec

---------------------------------------------------------------------------
\* Registering and removing keep the store's pointers equal to the slots.
LEMMA WatchStep == TypeOK /\ WatchersAlive /\ [Next]_vars => WatchersAlive'
<1> SUFFICES ASSUME TypeOK, WatchersAlive, [Next]_vars
             PROVE  WatchersAlive'
  OBVIOUS
<1> USE DEF Subscriber
<1>1. ASSUME NEW fd \in Fds, AcceptDevice(fd)
      PROVE  WatchersAlive'
  BY <1>1 DEF AcceptDevice, TypeOK, WatchersAlive
<1>2. ASSUME NEW fd \in Fds, AcceptSubscriber(fd)
      PROVE  WatchersAlive'
  BY <1>2 DEF AcceptSubscriber, TypeOK, WatchersAlive
<1>3. CASE Housekeeping
  BY <1>3 DEF Housekeeping, Forget, Destroy, Dropped, Evicted, Device, TypeOK,
     WatchersAlive
<1>4. CASE UNCHANGED <<role, watching>>
  BY <1>4 DEF WatchersAlive
<1> QED
  BY <1>1, <1>2, <1>3, <1>4, Zenon DEF Next, vars, PeerCloses, Hello, Heartbeat,
     Sample, Ack, Drain, Tick

\* The store never holds a pointer to a destroyed subscriber, and holds one to
\* every connected subscriber, whatever descriptors are reused.
THEOREM Watchers == Spec => []WatchersAlive
<1>1. Init => WatchersAlive
  BY DEF Init, WatchersAlive, Subscriber
<1> QED
  BY <1>1, WatchStep, ServerTypes, PTL DEF Spec

---------------------------------------------------------------------------
\* The part of the bound that has been used up when the timer is due in `due'.
SilenceSoFar ==
  \A fd \in Fds : InSession(fd) =>
    idle[fd] <= kDeviceTimeout + (kHousekeepingInterval - due)

LEMMA SilenceStep == TypeOK /\ SilenceSoFar /\ [Next]_vars => SilenceSoFar'
<1> SUFFICES ASSUME TypeOK, SilenceSoFar, [Next]_vars, NEW g \in Fds, InSession(g)'
             PROVE  idle'[g] <= kDeviceTimeout + (kHousekeepingInterval - due')
  BY DEF SilenceSoFar
<1> USE ServerConstants DEF InSession, Device
<1>0. idle[g] \in Nat /\ due \in Int /\ due <= kHousekeepingInterval
  BY DEF TypeOK
<1>1. ASSUME NEW fd \in Fds, AcceptDevice(fd)
      PROVE  idle'[g] <= kDeviceTimeout + (kHousekeepingInterval - due')
  <2>1. g # fd /\ InSession(g)
    BY <1>1 DEF AcceptDevice, TypeOK
  <2> QED
    BY <1>1, <2>1 DEF AcceptDevice, SilenceSoFar
<1>2. ASSUME NEW fd \in Fds, AcceptSubscriber(fd)
      PROVE  idle'[g] <= kDeviceTimeout + (kHousekeepingInterval - due')
  <2>1. g # fd /\ InSession(g)
    BY <1>2 DEF AcceptSubscriber, TypeOK
  <2> QED
    BY <1>2, <2>1 DEF AcceptSubscriber, SilenceSoFar
<1>3. ASSUME NEW fd \in Fds, due' = due, role' = role,
             \/ idle' = [idle EXCEPT ![fd] = 0] /\ (g # fd => session'[g] = session[g])
             \/ idle' = idle /\ session' = session
      PROVE  idle'[g] <= kDeviceTimeout + (kHousekeepingInterval - due')
  <2>1. CASE idle' = [idle EXCEPT ![fd] = 0] /\ g = fd
    BY <1>0, <1>3, <2>1 DEF TypeOK
  <2>2. CASE idle' = [idle EXCEPT ![fd] = 0] /\ g # fd /\ session'[g] = session[g]
    BY <1>3, <2>2 DEF TypeOK, SilenceSoFar
  <2>3. CASE idle' = idle /\ session' = session
    BY <1>3, <2>3 DEF SilenceSoFar
  <2> QED
    BY <1>3, <2>1, <2>2, <2>3, Zenon
<1>4. ASSUME NEW fd \in Fds, NEW offered \in Rates, Hello(fd, offered)
      PROVE  idle'[g] <= kDeviceTimeout + (kHousekeepingInterval - due')
  BY <1>3, <1>4, Zenon DEF Hello, TypeOK
<1>5. CASE Housekeeping
  <2>1. g \notin Evicted /\ g \notin Dropped /\ session[g]
    BY <1>5, Zenon DEF Housekeeping, Destroy
  <2>2. role'[g] = role[g] /\ idle'[g] = idle[g]
    BY <1>5, <2>1 DEF Housekeeping, Destroy
  <2>3. idle[g] <= kDeviceTimeout
    BY <1>0, <2>1, <2>2 DEF Evicted, TimedOut
  <2> QED
    BY <1>0, <1>5, <2>2, <2>3 DEF Housekeeping
<1>6. CASE Tick
  <2>1. InSession(g) /\ idle'[g] = idle[g] + 1 /\ due' = due - 1
    BY <1>6 DEF Tick
  <2> QED
    BY <1>0, <2>1 DEF SilenceSoFar
<1>7. CASE UNCHANGED vars
  BY <1>7 DEF vars, SilenceSoFar
<1>8. ASSUME NEW fd \in Fds,
             PeerCloses(fd) \/ Heartbeat(fd) \/ Sample(fd) \/ Drain(fd)
               \/ (\E s \in Ids : Ack(fd, s))
      PROVE  idle'[g] <= kDeviceTimeout + (kHousekeepingInterval - due')
  BY <1>3, <1>8, Zenon DEF PeerCloses, Heartbeat, Sample, Drain, Ack
<1> QED
  BY <1>1, <1>2, <1>4, <1>5, <1>6, <1>7, <1>8, Zenon DEF Next

\* A silent device is evicted within the timeout, one interval and the delay
\* of the loop, whatever else happens and however often frames arrive late.
THEOREM Silence == Spec => []SilenceBounded
<1>1. Init => SilenceSoFar
  BY DEF Init, SilenceSoFar, InSession, Device
<1>2. TypeOK /\ SilenceSoFar => SilenceBounded
  BY ServerConstants DEF TypeOK, SilenceSoFar, SilenceBounded
<1> QED
  BY <1>1, <1>2, SilenceStep, ServerTypes, PTL DEF Spec

---------------------------------------------------------------------------
\* The position of an id in the order in which ids are handed out.
Serial(s) == IF s = 0 THEN IdSpace - 1 ELSE s - 1

\* Before the wrap, ids in use are ids already handed out, and the next one
\* is not among them.
IdsInOrder ==
  /\ accepted < IdSpace => Serial(next_session_id) = accepted
  /\ accepted <= IdSpace =>
       /\ \A fd \in Fds : Device(fd) => Serial(id[fd]) < accepted
       /\ \A s \in offline : Serial(s) < accepted
       /\ Identified

LEMMA IdsStep == TypeOK /\ IdsInOrder /\ [Next]_vars => IdsInOrder'
<1> SUFFICES ASSUME TypeOK, IdsInOrder, [Next]_vars
             PROVE  IdsInOrder'
  OBVIOUS
<1>1. ASSUME NEW fd \in Fds, AcceptDevice(fd)
      PROVE  IdsInOrder'
  <2>1. accepted \in Nat /\ next_session_id \in Ids /\ accepted' = accepted + 1
    BY <1>1 DEF AcceptDevice, TypeOK
  <2>2. accepted' < IdSpace => Serial(next_session_id') = accepted'
    <3> SUFFICES ASSUME accepted + 1 < IdSpace
                 PROVE  Serial(next_session_id') = accepted + 1
      BY <2>1
    <3>1. next_session_id = accepted + 1
      BY <2>1, ServerConstants DEF IdsInOrder, Serial, Ids
    <3>2. next_session_id' = IF accepted + 2 = IdSpace THEN 0 ELSE accepted + 2
      BY <1>1, <2>1, <3>1, ServerConstants DEF AcceptDevice, NewSessionId
    <3> QED
      BY <2>1, <3>2, ServerConstants DEF Serial
  <2>3. ASSUME accepted' <= IdSpace
        PROVE  /\ \A f \in Fds : Device(f)' => Serial(id'[f]) < accepted'
               /\ \A s \in offline' : Serial(s) < accepted'
               /\ Identified'
    <3>1. accepted < IdSpace /\ accepted <= IdSpace
      BY <2>1, <2>3, ServerConstants
    <3>2. Serial(next_session_id) = accepted
      BY <3>1 DEF IdsInOrder
    <3>3. \A f \in Fds \ {fd} : id'[f] = id[f] /\ role'[f] = role[f]
      BY <1>1 DEF AcceptDevice, TypeOK
    <3>4. id'[fd] = next_session_id /\ offline' = offline
      BY <1>1 DEF AcceptDevice, TypeOK
    <3>5. \A f \in Fds : Serial(id[f]) \in Int
      BY ServerConstants DEF TypeOK, Ids, Serial
    <3>6. \A s \in offline : Serial(s) \in Int
      BY ServerConstants DEF TypeOK, Ids, Serial
    <3>7. \A f \in Fds : Device(f)' => Serial(id'[f]) < accepted'
      <4> SUFFICES ASSUME NEW f \in Fds, Device(f)'
                   PROVE  Serial(id'[f]) < accepted + 1
        BY <2>1
      <4>1. CASE f = fd
        BY <2>1, <3>2, <3>4, <4>1
      <4>2. CASE f # fd
        <5>1. Serial(id[f]) < accepted /\ id'[f] = id[f]
          BY <3>1, <3>3, <4>2 DEF IdsInOrder, Device
        <5> QED
          BY <2>1, <3>5, <5>1
      <4> QED
        BY <4>1, <4>2
    <3>8. \A s \in offline' : Serial(s) < accepted'
      BY <2>1, <3>1, <3>4, <3>6 DEF IdsInOrder
    <3>9. \A f \in Fds : f # fd /\ Device(f) => id[f] # next_session_id
      BY <2>1, <3>1, <3>2, <3>5 DEF IdsInOrder
    <3>10. next_session_id \notin offline
      BY <2>1, <3>1, <3>2 DEF IdsInOrder
    <3>11. Identified'
      <4>1. Identified
        BY <3>1 DEF IdsInOrder
      <4>2. \A f \in Fds : Device(f)' => id'[f] \notin offline'
        <5> SUFFICES ASSUME NEW f \in Fds, Device(f)'
                     PROVE  id'[f] \notin offline
          BY <3>4
        <5>1. CASE f = fd
          BY <3>4, <3>10, <5>1
        <5>2. CASE f # fd
          BY <3>3, <4>1, <5>2 DEF Identified, Device
        <5> QED
          BY <5>1, <5>2
      <4>3. ASSUME NEW f \in Fds, NEW g \in Fds, Device(f)', Device(g)',
                   id'[f] = id'[g]
            PROVE  f = g
        <5>1. CASE f # fd /\ g # fd
          BY <3>3, <4>1, <4>3, <5>1 DEF Identified, Device
        <5>2. CASE f = fd /\ g # fd
          BY <3>3, <3>4, <3>9, <4>3, <5>2 DEF Device
        <5>3. CASE f # fd /\ g = fd
          BY <3>3, <3>4, <3>9, <4>3, <5>3 DEF Device
        <5> QED
          BY <5>1, <5>2, <5>3
      <4> QED
        BY <4>2, <4>3 DEF Identified
    <3> QED
      BY <3>7, <3>8, <3>11
  <2> QED
    BY <2>2, <2>3 DEF IdsInOrder
<1>2. ASSUME UNCHANGED <<id, accepted, next_session_id>>,
             \A f \in Fds : Device(f)' => Device(f),
             offline' \subseteq offline
      PROVE  IdsInOrder'
  BY <1>2 DEF IdsInOrder, Identified, Device
<1>3. ASSUME NEW fd \in Fds, AcceptSubscriber(fd)
      PROVE  IdsInOrder'
  <2>1. \A f \in Fds : Device(f)' => Device(f)
    BY <1>3 DEF AcceptSubscriber, TypeOK, Device
  <2> QED
    BY <1>2, <1>3, <2>1 DEF AcceptSubscriber
<1>4. CASE Housekeeping
  <2>1. /\ UNCHANGED <<accepted, next_session_id>>
        /\ offline' = offline \cup Missing
        /\ \A f \in Fds : Device(f)' =>
             Device(f) /\ f \notin Evicted /\ id'[f] = id[f]
    BY <1>4 DEF Housekeeping, Destroy, Device
  <2>2. \A s \in Missing : \E f \in Fds : Device(f) /\ f \in Evicted /\ s = id[f]
    BY DEF Missing, Evicted
  <2>3. ASSUME accepted <= IdSpace
        PROVE  \A s \in offline' : Serial(s) < accepted
    BY <2>1, <2>2, <2>3 DEF IdsInOrder
  <2>4. ASSUME accepted <= IdSpace
        PROVE  Identified'
    <3>1. /\ \A f, g \in Fds : Device(f) /\ Device(g) /\ id[f] = id[g] => f = g
          /\ \A f \in Fds : Device(f) => id[f] \notin offline
      BY <2>4 DEF IdsInOrder, Identified
    <3>2. \A f \in Fds : Device(f)' => id[f] \notin Missing
      BY <2>1, <2>2, <3>1, Zenon
    <3>3. \A f, g \in Fds : Device(f)' /\ Device(g)' /\ id'[f] = id'[g] => f = g
      BY <2>1, <3>1, Zenon
    <3>4. \A f \in Fds : Device(f)' => id'[f] \notin offline'
      BY <2>1, <3>1, <3>2
    <3>5. QED
      BY <3>3, <3>4, Zenon DEF Identified
  <2> QED
    BY <2>1, <2>3, <2>4, Zenon DEF IdsInOrder
<1>5. ASSUME NEW fd \in Fds, NEW s \in Ids, Ack(fd, s)
      PROVE  IdsInOrder'
  BY <1>2, <1>5 DEF Ack, Device
<1>6. CASE UNCHANGED <<id, accepted, next_session_id, role, offline>>
  BY <1>2, <1>6 DEF Device
<1> QED
  BY <1>1, <1>3, <1>4, <1>5, <1>6, Zenon DEF Next, vars, PeerCloses, Hello, Heartbeat,
     Sample, Drain, Tick

\* Until the id counter has wrapped, no two connected devices share an id and
\* no connected device carries somebody's OFFLINE alert.
THEOREM Identity == Spec => []IdentifiedUntilWrap
<1>1. Init => IdsInOrder
  BY ServerConstants DEF Init, IdsInOrder, Identified, Device, Serial
<1>2. IdsInOrder => IdentifiedUntilWrap
  BY DEF IdsInOrder, IdentifiedUntilWrap
<1> QED
  BY <1>1, <1>2, IdsStep, ServerTypes, PTL DEF Spec

---------------------------------------------------------------------------
\* Only the sweep ends a session, and it latches OFFLINE for it.
LEMMA EvictionReported == TypeOK /\ [Next]_vars => EvictionStep
<1> SUFFICES ASSUME TypeOK, [Next]_vars, NEW g \in Fds, InSession(g), ~InSession(g)'
             PROVE  id[g] \in offline'
  BY DEF EvictionStep
<1> USE DEF InSession, Device
<1>1. ASSUME NEW fd \in Fds, AcceptDevice(fd) \/ AcceptSubscriber(fd)
      PROVE  FALSE
  BY <1>1 DEF AcceptDevice, AcceptSubscriber, TypeOK
<1>2. ASSUME NEW fd \in Fds, NEW offered \in Rates, Hello(fd, offered)
      PROVE  FALSE
  BY <1>2 DEF Hello, TypeOK
<1>3. CASE Housekeeping
  <2>1. g \in Evicted
    BY <1>3, Zenon DEF Housekeeping, Destroy, Dropped, Subscriber
  <2> QED
    BY <1>3, <2>1 DEF Housekeeping, Missing
<1>4. CASE UNCHANGED <<role, session>>
  BY <1>4
<1> QED
  BY <1>1, <1>2, <1>3, <1>4, Zenon DEF Next, vars, PeerCloses, Heartbeat, Sample,
     Ack, Drain, Tick

\* Every device that leaves the server with a session has an OFFLINE alert.
THEOREM Reported == Spec => MissingIsReported
<1>1. TypeOK /\ [Next]_vars => [EvictionStep]_vars
  BY EvictionReported
<1> QED
  BY <1>1, ServerTypes, PTL DEF Spec, MissingIsReported

---------------------------------------------------------------------------
\* A sweep that slows a device down leaves it at 1 Hz or more.
LEMMA RateChange == TypeOK /\ [Next]_vars => RateStep
<1> SUFFICES ASSUME TypeOK, [Next]_vars, NEW g \in Fds, InSession(g), InSession(g)',
                    rate'[g] # rate[g]
             PROVE  \/ \E offered \in Rates : Hello(g, offered)
                    \/ 1 <= rate'[g] /\ rate'[g] <= Greatest(1, rate[g])
  BY DEF RateStep
<1>1. ASSUME NEW fd \in Fds, AcceptDevice(fd)
      PROVE  FALSE
  BY <1>1 DEF AcceptDevice, TypeOK, InSession, Device
<1>2. ASSUME NEW fd \in Fds, NEW offered \in Rates, Hello(fd, offered)
      PROVE  Hello(g, offered)
  BY <1>2, Zenon DEF Hello, TypeOK
<1>3. CASE Housekeeping
  <2>1. g \notin Evicted
    BY <1>3 DEF Housekeeping, Destroy, InSession, Device
  <2>2. rate'[g] = Slower(rate[g])
    BY <1>3, <2>1 DEF Housekeeping, SlowDown
  <2>3. rate[g] \in 0..kMaxSampleRateHz
    BY DEF TypeOK
  <2> QED
    BY <2>2, <2>3, SlowerType
<1>4. CASE UNCHANGED rate
  BY <1>4
<1> QED
  BY <1>1, <1>2, <1>3, <1>4, Zenon DEF Next, vars, AcceptSubscriber, PeerCloses,
     Heartbeat, Sample, Ack, Drain, Tick

\* Backpressure never silences a device.
THEOREM Unsilenced == Spec => NeverSilenced
<1>1. TypeOK /\ [Next]_vars => [RateStep]_vars
  BY RateChange
<1> QED
  BY <1>1, ServerTypes, PTL DEF Spec, NeverSilenced

\* CONFIG and SLOW_DOWN carry the rate that is recorded.
LEMMA AgreeStep == TypeOK /\ RateAgreed /\ [Next]_vars => RateAgreed'
<1> SUFFICES ASSUME TypeOK, RateAgreed, [Next]_vars, NEW g \in Fds, InSession(g)'
             PROVE  told'[g] = rate'[g]
  BY DEF RateAgreed
<1> USE DEF InSession, Device
<1>1. ASSUME NEW fd \in Fds, AcceptDevice(fd)
      PROVE  told'[g] = rate'[g]
  BY <1>1 DEF AcceptDevice, TypeOK, RateAgreed
<1>2. ASSUME NEW fd \in Fds, AcceptSubscriber(fd)
      PROVE  told'[g] = rate'[g]
  BY <1>2 DEF AcceptSubscriber, TypeOK, RateAgreed
<1>3. ASSUME NEW fd \in Fds, NEW offered \in Rates, Hello(fd, offered)
      PROVE  told'[g] = rate'[g]
  BY <1>3 DEF Hello, TypeOK, RateAgreed
<1>4. CASE Housekeeping
  <2>1. g \notin Evicted /\ InSession(g)
    BY <1>4, Zenon DEF Housekeeping, Destroy
  <2> QED
    BY <1>4, <2>1 DEF Housekeeping, SlowDown, RateAgreed
<1>5. CASE UNCHANGED <<role, session, rate, told>>
  BY <1>5 DEF RateAgreed
<1> QED
  BY <1>1, <1>2, <1>3, <1>4, <1>5, Zenon DEF Next, vars, PeerCloses, Heartbeat,
     Sample, Ack, Drain, Tick

\* Server and device never disagree on the rate that was last set.
THEOREM Agreed == Spec => []RateAgreed
<1>1. Init => RateAgreed
  BY DEF Init, RateAgreed, InSession, Device
<1> QED
  BY <1>1, AgreeStep, ServerTypes, PTL DEF Spec

---------------------------------------------------------------------------
\* The system is a server of module Server: all that is proved of that one
\* holds here.

LEMMA ServerStep == [SysNext]_sysvars => [Next]_vars
<1> SUFFICES ASSUME [SysNext]_sysvars PROVE Next \/ UNCHANGED vars
  OBVIOUS
<1>1. ASSUME NEW fd \in Fds, Boot(fd) PROVE Next
  BY <1>1 DEF Boot, Next
<1>2. ASSUME NEW fd \in Fds, Beat(fd) \/ Take(fd) \/ Apply(fd) \/ Die(fd) \/ Lose(fd)
      PROVE  UNCHANGED vars
  BY <1>2, Zenon DEF Beat, Take, Apply, Die, Lose
<1>3. ASSUME NEW fd \in Fds, Deliver(fd) PROVE Next
  <2>1. DefaultRate \in Rates
    BY SystemConstants
  <2>2. Hello(fd, DefaultRate) \/ Heartbeat(fd) \/ Sample(fd)
    BY <1>3, Zenon DEF Deliver
  <2> QED
    BY <2>1, <2>2, Zenon DEF Next
<1>4. ASSUME NEW fd \in Fds, Cut(fd) PROVE Next
  BY <1>4 DEF Cut, Next
<1>5. ASSUME Serve PROVE Next
  BY <1>5, Zenon DEF Serve, Next
<1>6. ASSUME Sweep \/ Pass PROVE Next
  BY <1>6, Zenon DEF Sweep, Pass, Next
<1>7. CASE UNCHANGED sysvars
  BY <1>7 DEF sysvars
<1> QED
  BY <1>1, <1>2, <1>3, <1>4, <1>5, <1>6, <1>7, Zenon DEF SysNext

\* With devices at the other end the server does what module Server says.
THEOREM SystemIsServer == SysSpec => Spec
<1>1. SysInit => Init
  BY DEF SysInit
<1> QED
  BY <1>1, ServerStep, PTL DEF SysSpec, Spec

---------------------------------------------------------------------------
\* A device does what its session says, once it has read what it was sent.

Command == [type : {"kConfig", "kSlowDown"}, rate : Nat]

\* The rate a device will have when it has read the frames d.
Pending(d, r) == IF d = <<>> THEN r ELSE d[Len(d)].rate

RateInv ==
  /\ TypeOK
  /\ sample_rate_hz \in [Fds -> Nat] /\ downlink \in [Fds -> Seq(Command)]
  /\ power \in [Fds -> {"off", "on", "dead"}]
  /\ \A fd \in Fds : InSession(fd) /\ Alive(fd) =>
       rate[fd] = Pending(downlink[fd], sample_rate_hz[fd])

LEMMA NoCommand == ASSUME NEW d \in Seq(Command) PROVE d = <<>> <=> Len(d) = 0
OBVIOUS

\* A frame queued decides; reading one changes nothing.
LEMMA PendingSteps ==
  ASSUME NEW d \in Seq(Command), NEW r \in Nat
  PROVE  /\ \A f \in Command : /\ Append(d, f) \in Seq(Command)
                               /\ Pending(Append(d, f), r) = f.rate
         /\ d # <<>> => /\ Tail(d) \in Seq(Command) /\ Head(d).rate \in Nat
                        /\ Pending(Tail(d), Head(d).rate) = Pending(d, r)
<1>1. ASSUME NEW f \in Command
      PROVE  Append(d, f) \in Seq(Command) /\ Pending(Append(d, f), r) = f.rate
  <2>1. /\ Append(d, f) \in Seq(Command) /\ Append(d, f) # <<>>
        /\ Append(d, f)[Len(Append(d, f))] = f
    OBVIOUS
  <2> QED
    BY <2>1, Zenon DEF Pending
<1>2. ASSUME d # <<>>
      PROVE  /\ Tail(d) \in Seq(Command) /\ Head(d).rate \in Nat
             /\ Pending(Tail(d), Head(d).rate) = Pending(d, r)
  <2>1. /\ Len(d) \in Nat \ {0} /\ Tail(d) \in Seq(Command) /\ Head(d) \in Command
        /\ Head(d) = d[1] /\ Len(Tail(d)) = Len(d) - 1
        /\ \A i \in 1..(Len(d) - 1) : Tail(d)[i] = d[i + 1]
    BY <1>2
  <2>2. Head(d).rate \in Nat
    BY <2>1 DEF Command
  <2>3. CASE Len(d) = 1
    <3>1. Len(Tail(d)) = 0 /\ d[Len(d)] = Head(d)
      BY <2>1, <2>3
    <3>2. Tail(d) = <<>>
      BY <2>1, <3>1, NoCommand, Zenon
    <3> QED
      BY <1>2, <2>1, <2>2, <3>1, <3>2, Zenon DEF Pending
  <2>4. CASE Len(d) # 1
    <3>1. Len(d) - 1 \in 1..(Len(d) - 1) /\ (Len(d) - 1) + 1 = Len(d)
      BY <2>1, <2>4
    <3>2. Tail(d)[Len(Tail(d))] = d[Len(d)]
      BY <2>1, <3>1, Zenon
    <3>3. Len(Tail(d)) # 0
      BY <2>1, <2>4
    <3>4. Tail(d) # <<>>
      BY <2>1, <3>3, NoCommand, Zenon
    <3> QED
      BY <1>2, <2>1, <2>2, <3>2, <3>4, Zenon DEF Pending
  <2> QED
    BY <2>3, <2>4
<1> QED
  BY <1>1, <1>2

\* What send_frame() adds for a session, and what it leaves alone.
LEMMA SentEffect ==
  ASSUME RateInv, TypeOK', NEW fd \in Fds, NEW type \in {"kConfig", "kSlowDown"}
  PROVE  /\ Sent(fd, type) \in Seq(Command)
         /\ Alive(fd) => Pending(Sent(fd, type), sample_rate_hz[fd]) = told'[fd]
<1>1. /\ downlink[fd] \in Seq(Command) /\ sample_rate_hz[fd] \in Nat
      /\ told'[fd] \in 0..kMaxSampleRateHz /\ kMaxSampleRateHz \in Nat
  BY ServerConstants, Zenon DEF RateInv, TypeOK
<1>2. told'[fd] \in Nat
  BY <1>1
<1>3. [type |-> type, rate |-> told'[fd]] \in Command
  BY <1>2 DEF Command
<1>4. [type |-> type, rate |-> told'[fd]].rate = told'[fd]
  OBVIOUS
<1> QED
  BY <1>1, <1>3, <1>4, PendingSteps, Zenon DEF Sent, Alive

LEMMA RateInvStep == RateInv /\ [SysNext]_sysvars => RateInv'
<1> SUFFICES ASSUME RateInv, [SysNext]_sysvars PROVE RateInv'
  OBVIOUS
<1> DEFINE Kept(fd) == InSession(fd) /\ Alive(fd) =>
                         rate[fd] = Pending(downlink[fd], sample_rate_hz[fd])
<1>0. TypeOK /\ TypeOK'
  BY ServerStep, TypeStep DEF RateInv
<1>1. <<>> \in Seq(Command) /\ DefaultRate \in Nat
  BY SystemConstants
<1>2. ASSUME UNCHANGED <<role, closed, session, rate, power, sample_rate_hz, downlink>>
      PROVE  RateInv'
  BY <1>0, <1>2, Zenon DEF RateInv, InSession, Device, Alive
<1>3. ASSUME NEW fd \in Fds, Boot(fd) PROVE RateInv'
  <2>1. /\ AcceptDevice(fd) /\ power' = [power EXCEPT ![fd] = "on"]
        /\ UNCHANGED <<sample_rate_hz, downlink>>
    BY <1>3 DEF Boot
  <2>2. power' \in [Fds -> {"off", "on", "dead"}]
    BY <2>1 DEF RateInv
  <2>3. ASSUME NEW g \in Fds PROVE Kept(g)'
    <3>1. g = fd => ~session'[g]
      BY <1>0, <2>1 DEF AcceptDevice, TypeOK
    <3>2. g # fd => /\ role'[g] = role[g] /\ closed'[g] = closed[g] /\ rate'[g] = rate[g]
                    /\ session'[g] = session[g] /\ power'[g] = power[g]
      BY <1>0, <2>1, Zenon DEF AcceptDevice, TypeOK, RateInv
    <3> QED
      BY <2>1, <3>1, <3>2, Zenon DEF RateInv, InSession, Device, Alive
  <2> QED
    BY <1>0, <2>1, <2>2, <2>3, Zenon DEF RateInv
<1>4. ASSUME NEW fd \in Fds, Beat(fd) \/ Take(fd) \/ Lose(fd) PROVE RateInv'
  BY <1>2, <1>4, Zenon DEF Beat, Take, Lose, vars
<1>5. ASSUME NEW fd \in Fds, Apply(fd) PROVE RateInv'
  <2>1. /\ downlink[fd] # <<>> /\ downlink' = [downlink EXCEPT ![fd] = Tail(@)]
        /\ sample_rate_hz' = [sample_rate_hz EXCEPT ![fd] = Head(downlink[fd]).rate]
        /\ UNCHANGED <<role, closed, session, rate, power>>
    BY <1>5, Zenon DEF Apply, vars
  <2>2. downlink[fd] \in Seq(Command) /\ sample_rate_hz[fd] \in Nat
    BY DEF RateInv
  <2>3. /\ Tail(downlink[fd]) \in Seq(Command) /\ Head(downlink[fd]).rate \in Nat
        /\ Pending(Tail(downlink[fd]), Head(downlink[fd]).rate) =
             Pending(downlink[fd], sample_rate_hz[fd])
    BY <2>1, <2>2, PendingSteps, Zenon
  <2>4. sample_rate_hz' \in [Fds -> Nat] /\ downlink' \in [Fds -> Seq(Command)]
    BY <2>1, <2>3, Zenon DEF RateInv
  <2>5. ASSUME NEW g \in Fds PROVE Kept(g)'
    <3>1. Pending(downlink[g], sample_rate_hz[g])' = Pending(downlink[g], sample_rate_hz[g])
      <4>1. g # fd => downlink'[g] = downlink[g] /\ sample_rate_hz'[g] = sample_rate_hz[g]
        BY <2>1, Zenon DEF RateInv
      <4>2. downlink'[fd] = Tail(downlink[fd]) /\ sample_rate_hz'[fd] = Head(downlink[fd]).rate
        BY <2>1, Zenon DEF RateInv
      <4> QED
        BY <2>3, <4>1, <4>2, Zenon DEF Pending
    <3> QED
      BY <2>1, <3>1, Zenon DEF RateInv, InSession, Device, Alive
  <2> QED
    BY <1>0, <2>1, <2>4, <2>5, Zenon DEF RateInv
<1>6. ASSUME NEW fd \in Fds, Die(fd) PROVE RateInv'
  <2>1. /\ power' = [power EXCEPT ![fd] = "dead"]
        /\ downlink' = [downlink EXCEPT ![fd] = <<>>]
        /\ UNCHANGED <<role, closed, session, rate, sample_rate_hz>>
    BY <1>6 DEF Die, vars
  <2>2. /\ power' \in [Fds -> {"off", "on", "dead"}] /\ downlink' \in [Fds -> Seq(Command)]
    BY <1>1, <2>1, Zenon DEF RateInv
  <2>3. ASSUME NEW g \in Fds PROVE Kept(g)'
    <3>1. /\ g = fd => power'[g] # "on"
          /\ g # fd => power'[g] = power[g] /\ downlink'[g] = downlink[g]
      BY <2>1 DEF RateInv
    <3> QED
      BY <2>1, <3>1, Zenon DEF RateInv, InSession, Device, Alive
  <2> QED
    BY <1>0, <2>1, <2>2, <2>3, Zenon DEF RateInv
<1>7. ASSUME NEW fd \in Fds, Deliver(fd) PROVE RateInv'
  <2>1. /\ UNCHANGED <<power, sample_rate_hz>>
        /\ \/ (Heartbeat(fd) \/ Sample(fd)) /\ downlink' = downlink
           \/ /\ Hello(fd, DefaultRate)
              /\ downlink' = [downlink EXCEPT ![fd] = Sent(fd, "kConfig")]
    BY <1>7, Zenon DEF Deliver
  <2>2. CASE (Heartbeat(fd) \/ Sample(fd)) /\ downlink' = downlink
    BY <1>2, <2>1, <2>2, Zenon DEF Heartbeat, Sample
  <2>3. CASE /\ Hello(fd, DefaultRate)
             /\ downlink' = [downlink EXCEPT ![fd] = Sent(fd, "kConfig")]
    <3>1. /\ Sent(fd, "kConfig") \in Seq(Command)
          /\ Alive(fd) => Pending(Sent(fd, "kConfig"), sample_rate_hz[fd]) = told'[fd]
      BY <1>0, SentEffect
    <3>2. downlink' \in [Fds -> Seq(Command)]
      BY <2>3, <3>1, Zenon DEF RateInv
    <3>3. ASSUME NEW g \in Fds PROVE Kept(g)'
      <4>1. role' = role /\ closed' = closed
        BY <2>3 DEF Hello
      <4>2. CASE g = fd
        <5>1. rate'[g] = told'[g]
          BY <1>0, <2>3, <4>2 DEF Hello, TypeOK
        <5>2. downlink'[g] = Sent(g, "kConfig")
          BY <2>3, <4>2 DEF RateInv
        <5> QED
          BY <2>1, <3>1, <4>1, <4>2, <5>1, <5>2, Zenon DEF Alive
      <4>3. CASE g # fd
        <5>1. rate'[g] = rate[g] /\ session'[g] = session[g] /\ downlink'[g] = downlink[g]
          BY <1>0, <2>3, <4>3 DEF Hello, TypeOK, RateInv
        <5> QED
          BY <2>1, <4>1, <5>1, Zenon DEF RateInv, InSession, Device, Alive
      <4> QED
        BY <4>2, <4>3
    <3> QED
      BY <1>0, <2>1, <3>2, <3>3, Zenon DEF RateInv
  <2> QED
    BY <2>1, <2>2, <2>3
<1>8. ASSUME NEW fd \in Fds, Cut(fd) PROVE RateInv'
  <2>1. /\ closed' = [closed EXCEPT ![fd] = TRUE]
        /\ downlink' = [downlink EXCEPT ![fd] = <<>>]
        /\ UNCHANGED <<role, session, rate, power, sample_rate_hz>>
    BY <1>8 DEF Cut, PeerCloses
  <2>2. downlink' \in [Fds -> Seq(Command)]
    BY <1>1, <2>1, Zenon DEF RateInv
  <2>3. ASSUME NEW g \in Fds PROVE Kept(g)'
    <3>1. /\ g = fd => closed'[g]
          /\ g # fd => closed'[g] = closed[g] /\ downlink'[g] = downlink[g]
      BY <1>0, <2>1, Zenon DEF RateInv, TypeOK
    <3> QED
      BY <2>1, <3>1, Zenon DEF RateInv, InSession, Device, Alive
  <2> QED
    BY <1>0, <2>1, <2>2, <2>3, Zenon DEF RateInv
<1>9. ASSUME Serve PROVE RateInv'
  <2>1. UNCHANGED <<power, sample_rate_hz, downlink>>
    BY <1>9 DEF Serve, devices
  <2>2. ASSUME NEW fd \in Fds, AcceptSubscriber(fd) PROVE RateInv'
    <3>1. ASSUME NEW g \in Fds PROVE Kept(g)'
      <4>1. /\ g = fd => role'[g] # "device"
            /\ g # fd => role'[g] = role[g] /\ closed'[g] = closed[g]
            /\ session' = session /\ rate' = rate
        BY <1>0, <2>2, Zenon DEF AcceptSubscriber, TypeOK
      <4> QED
        BY <2>1, <4>1, Zenon DEF RateInv, InSession, Device, Alive
    <3> QED
      BY <1>0, <2>1, <3>1, Zenon DEF RateInv
  <2>3. ASSUME NEW fd \in Fds, Drain(fd) \/ (\E s \in Ids : Ack(fd, s)) PROVE RateInv'
    BY <1>2, <2>1, <2>3, Zenon DEF Drain, Ack
  <2> QED
    BY <1>9, <2>2, <2>3, Zenon DEF Serve
<1>10. ASSUME Sweep PROVE RateInv'
  <2>1. SlowDown /\ Destroy
    BY <1>10 DEF Sweep, Housekeeping
  <2>2. \A g \in Fds : /\ Sent(g, "kSlowDown") \in Seq(Command)
                       /\ Alive(g) =>
                            Pending(Sent(g, "kSlowDown"), sample_rate_hz[g]) = told'[g]
    BY <1>0, SentEffect
  <2>3. ASSUME NEW g \in Fds
        PROVE  /\ g \in Evicted => /\ power'[g] = "off" /\ sample_rate_hz'[g] = DefaultRate
                                   /\ downlink'[g] = <<>>
               /\ g \notin Evicted => /\ power'[g] = power[g]
                                      /\ sample_rate_hz'[g] = sample_rate_hz[g]
               /\ g \notin Evicted /\ g \in Slowed => downlink'[g] = Sent(g, "kSlowDown")
               /\ g \notin Evicted /\ g \notin Slowed => downlink'[g] = downlink[g]
    <3>1. /\ power'[g] = IF g \in Evicted THEN "off" ELSE power[g]
          /\ sample_rate_hz'[g] = IF g \in Evicted THEN DefaultRate ELSE sample_rate_hz[g]
      BY <1>10, Zenon DEF Sweep
    <3>2. downlink'[g] = CASE g \in Evicted -> <<>>
                           [] g \in Slowed -> Sent(g, "kSlowDown")
                           [] OTHER -> downlink[g]
      BY <1>10, Zenon DEF Sweep
    <3>3. g \in Slowed => g \notin Evicted
      BY DEF Slowed
    <3> QED
      BY <3>1, <3>2, <3>3
  <2>4. /\ \A g \in Fds : downlink'[g] \in Seq(Command)
        /\ \A g \in Fds : sample_rate_hz'[g] \in Nat
        /\ \A g \in Fds : power'[g] \in {"off", "on", "dead"}
    BY <1>1, <2>2, <2>3, Zenon DEF RateInv
  <2>5. /\ downlink' = [g \in Fds |-> downlink'[g]]
        /\ sample_rate_hz' = [g \in Fds |-> sample_rate_hz'[g]]
        /\ power' = [g \in Fds |-> power'[g]]
    BY <1>10 DEF Sweep
  <2>6. /\ downlink' \in [Fds -> Seq(Command)] /\ sample_rate_hz' \in [Fds -> Nat]
        /\ power' \in [Fds -> {"off", "on", "dead"}]
    BY <2>4, <2>5, Zenon
  <2>7. ASSUME NEW g \in Fds PROVE Kept(g)'
    <3>1. CASE g \in Evicted
      <4>1. power'[g] # "on"
        BY <2>3, <3>1
      <4> QED
        BY <4>1, Zenon DEF Alive
    <3>2. CASE g \notin Evicted
      <4>1. /\ session'[g] => session[g]
            /\ role'[g] = "device" => role[g] = "device" /\ closed'[g] = closed[g]
        <5>1. CASE g \in Dropped
          BY <2>1, <5>1, Zenon DEF Destroy
        <5>2. CASE g \notin Dropped
          BY <1>0, <2>1, <3>2, <5>2 DEF Destroy, TypeOK
        <5> QED
          BY <5>1, <5>2
      <4>2. CASE g \in Slowed
        <5>1. rate'[g] = told'[g]
          BY <2>1, <4>2 DEF SlowDown
        <5> QED
          BY <2>2, <2>3, <3>2, <4>1, <4>2, <5>1, Zenon DEF InSession, Device, Alive
      <4>3. CASE g \notin Slowed
        <5>1. rate'[g] = rate[g]
          BY <2>1, <3>2, <4>3 DEF SlowDown
        <5> QED
          BY <2>3, <3>2, <4>1, <4>3, <5>1, ZenonT(30) DEF RateInv, InSession, Device, Alive
      <4> QED
        BY <4>2, <4>3
    <3> QED
      BY <3>1, <3>2
  <2> QED
    BY <1>0, <2>6, <2>7, Zenon DEF RateInv
<1>11. ASSUME Pass PROVE RateInv'
  BY <1>2, <1>11, Zenon DEF Pass, Tick
<1>12. ASSUME UNCHANGED sysvars PROVE RateInv'
  <2>1. UNCHANGED <<role, closed, session, rate, power, sample_rate_hz, downlink>>
    BY <1>12 DEF sysvars, vars, devices
  <2> QED
    BY <1>2, <2>1
<1> QED
  BY <1>3, <1>4, <1>5, <1>6, <1>7, <1>8, <1>9, <1>10, <1>11, <1>12, Zenon DEF SysNext

\* A device that has read all it was sent samples at the rate its session
\* holds, whatever sweeps, HELLOs and readings came in between.
THEOREM RateKept == SysSpec => []RateFollowed
<1>1. SysInit => RateInv
  <2> SUFFICES ASSUME SysInit PROVE RateInv
    OBVIOUS
  <2>1. <<>> \in Seq(Command) /\ DefaultRate \in Nat
    BY SystemConstants
  <2>2. TypeOK
    BY TypeInit DEF SysInit
  <2>3. \A fd \in Fds : power[fd] # "on"
    BY DEF SysInit
  <2> QED
    BY <2>1, <2>2, <2>3 DEF SysInit, RateInv, Alive
<1>2. RateInv => RateFollowed
  BY Zenon DEF RateInv, RateFollowed, Pending
<1> QED
  BY <1>1, <1>2, RateInvStep, PTL DEF SysSpec
=============================================================================
