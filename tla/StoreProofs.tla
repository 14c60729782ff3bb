----------------------------- MODULE StoreProofs ----------------------------
(***************************************************************************)
(* Proofs that the store keeps its promises for every set of sessions,     *)
(* metrics, readings and subscribers, every ring size and every threshold; *)
(* that the sample ring of record() and history() implements "the most     *)
(* recent samples"; and that the smoothed average stays between the        *)
(* readings it smooths.                                                    *)
(***************************************************************************)
EXTENDS Store, RingBuffer, TLAPS

\* The default value and timestamp of an alert are typed.
LEMMA ZeroInt32 == 0 \in Int32
BY StoreConstants DEF Int32

LEMMA ClockNat == ASSUME TypeOK PROVE now \in Nat
BY StoreConstants DEF TypeOK

\* The ring index stays in range and the ring keeps its shape.
LEMMA WrittenType ==
  ASSUME NEW h \in DeviceHistory, NEW sample \in Sample, NEW average \in Int32
  PROVE  Written(h, sample, average) \in DeviceHistory
<1>1. (h.next + 1) % kHistoryPerDevice \in 0..(kHistoryPerDevice - 1)
  BY StoreConstants DEF DeviceHistory
<1> QED
  BY <1>1, StoreConstants DEF Written, DeviceHistory

\* Whatever overflows, the average is a value of its type.
LEMMA AveragesType ==
  ASSUME NEW h \in DeviceHistory, NEW v \in Values
  PROVE  Averages(h, v) \subseteq Int32
<1>1. \A x : Overflowing(x) \subseteq Int32
  BY DEF Overflowing
<1> QED
  BY <1>1, StoreConstants DEF Averages

\* Notifying about an alert keeps the lines typed.
LEMMA NotifiedType ==
  ASSUME NEW told \in [SubscriberIds -> [Sessions -> AlertLine \cup {None}]],
         NEW s \in Sessions, NEW a \in Alert
  PROVE  Notified(told, s, a) \in [SubscriberIds -> [Sessions -> AlertLine \cup {None}]]
BY DEF Notified, Line, Alert, AlertLine

\* The alerts replayed on registration are lines.
LEMMA ReplayType ==
  ASSUME NEW alerts \in [Sessions -> Alert]
  PROVE  Replay(alerts) \in [Sessions -> AlertLine \cup {None}]
BY DEF Replay, Line, Alert, AlertLine

---------------------------------------------------------------------------
\* A recorded sample keeps every variable typed.
LEMMA RecordType ==
  ASSUME TypeOK, NEW s \in Sessions, NEW m \in Metrics, NEW v \in Values,
         NEW ts \in Stamps, Record(s, m, v, ts)
  PROVE  TypeOK'
<1> DEFINE h == history[<<s, m>>]
           sample == [timestamp |-> ts, value |-> v]
<1>1. h \in DeviceHistory
  BY DEF TypeOK
<1>2. PICK average \in Averages(h, v) :
        /\ history' = [history EXCEPT ![<<s, m>>] = Written(h, sample, average)]
        /\ IF Latches(s, m, average)
           THEN LET a == [active |-> TRUE, value |-> average, timestamp |-> ts,
                          triggered_at |-> now]
                IN  /\ excursion' = [excursion EXCEPT ![s] = a]
                    /\ toldExcursion' = Notified(toldExcursion, s, a)
           ELSE UNCHANGED <<excursion, toldExcursion>>
        /\ UNCHANGED <<offline, subscribers, toldOffline, acked, now>>
  BY Zenon DEF Record
<1>3. average \in Int32
  BY <1>1, AveragesType
<1>4. sample \in Sample
  BY DEF Sample
<1>5. history' \in [Sessions \X Metrics -> DeviceHistory]
  BY <1>1, <1>2, <1>3, <1>4, WrittenType DEF TypeOK
<1>6. /\ excursion' \in [Sessions -> Alert]
      /\ toldExcursion' \in [SubscriberIds -> [Sessions -> AlertLine \cup {None}]]
  <2> DEFINE a == [active |-> TRUE, value |-> average, timestamp |-> ts,
                   triggered_at |-> now]
  <2>1. a \in Alert
    BY <1>3, ClockNat DEF Alert
  <2>2. Notified(toldExcursion, s, a)
          \in [SubscriberIds -> [Sessions -> AlertLine \cup {None}]]
    BY <2>1, NotifiedType, Zenon DEF TypeOK
  <2> QED
    BY <1>2, <2>1, <2>2, Zenon DEF TypeOK
<1> QED
  BY <1>2, <1>5, <1>6 DEF TypeOK

\* Every step keeps every variable typed.
LEMMA TypeStep == TypeOK /\ [Next]_vars => TypeOK'
<1> SUFFICES ASSUME TypeOK, [Next]_vars PROVE TypeOK'
  OBVIOUS
<1>1. ASSUME NEW s \in Sessions, NEW m \in Metrics, NEW v \in Values,
             NEW ts \in Stamps, Record(s, m, v, ts)
      PROVE  TypeOK'
  BY <1>1, RecordType
<1>2. ASSUME NEW s \in Sessions, NEW ts \in Stamps, LatchOffline(s, ts)
      PROVE  TypeOK'
  <2> DEFINE a == [active |-> TRUE, value |-> 0, timestamp |-> ts,
                   triggered_at |-> now]
  <2>1. a \in Alert
    BY ZeroInt32, ClockNat DEF Alert
  <2>2. Notified(toldOffline, s, a)
          \in [SubscriberIds -> [Sessions -> AlertLine \cup {None}]]
    BY <2>1, NotifiedType, Zenon DEF TypeOK
  <2> QED
    BY <1>2, <2>1, <2>2, Zenon DEF TypeOK, LatchOffline
<1>3. ASSUME NEW s \in Sessions, Ack(s)
      PROVE  TypeOK'
  <2>1. /\ excursion[s] \in Alert /\ offline[s] \in Alert /\ now \in Int
        /\ excursion[s].triggered_at \in Int /\ offline[s].triggered_at \in Int
    BY ClockNat DEF TypeOK, Alert
  <2>2. /\ Recovered(s) \in BOOLEAN /\ excursion[s].active \in BOOLEAN
        /\ offline[s].active \in BOOLEAN
    BY <2>1 DEF Recovered, Alert
  <2>3. acked' \in [Sessions -> AckResult]
    BY <1>3, <2>1, <2>2 DEF Ack, TypeOK, AckResult, AckReport
  <2>4. offline' \in [Sessions -> Alert]
    BY <1>3, Zenon DEF Ack, TypeOK, Alert
  <2>5. excursion' \in [Sessions -> Alert]
    <3>1. [excursion EXCEPT ![s].active = FALSE] \in [Sessions -> Alert]
      BY Zenon DEF TypeOK, Alert
    <3> QED
      BY <1>3, <3>1 DEF Ack, TypeOK
  <2> QED
    BY <1>3, <2>3, <2>4, <2>5 DEF Ack, TypeOK
<1>4. ASSUME NEW sub \in SubscriberIds, AddSubscriber(sub)
      PROVE  TypeOK'
  BY <1>4, ReplayType, Zenon DEF AddSubscriber, TypeOK
<1>5. ASSUME NEW sub \in SubscriberIds, RemoveSubscriber(sub)
      PROVE  TypeOK'
  BY <1>5 DEF RemoveSubscriber, TypeOK
<1>6. CASE Tick
  <2>1. now + 1 \in 0..MaxNow
    BY <1>6, ClockNat, StoreConstants DEF Tick
  <2> QED
    BY <1>6, <2>1 DEF Tick, TypeOK
<1>7. CASE UNCHANGED vars
  BY <1>7 DEF vars, TypeOK
<1> QED
  BY <1>1, <1>2, <1>3, <1>4, <1>5, <1>6, <1>7 DEF Next

LEMMA TypeInit == Init => TypeOK
<1> SUFFICES ASSUME Init PROVE TypeOK
  OBVIOUS
<1>1. NewHistory \in DeviceHistory
  BY ZeroInt32, StoreConstants DEF NewHistory, DeviceHistory, Sample
<1>2. NoAlert \in Alert
  BY ZeroInt32 DEF NoAlert, Alert
<1>3. NoAck \in AckResult
  BY DEF NoAck, AckResult
<1>4. 0 \in 0..MaxNow
  BY StoreConstants
<1> QED
  BY <1>1, <1>2, <1>3, <1>4 DEF Init, TypeOK, NoLines

\* The type invariant: in particular the ring's write index and count stay
\* in range and the average stays a 32-bit value through record().
THEOREM TypeCorrect == Spec => []TypeOK
BY TypeInit, TypeStep, PTL DEF Spec

\* What record() does to the alerts and the lines, once it has the average.
RecordedAs(s, m, v, ts, average) ==
  LET a == [active |-> TRUE, value |-> average, timestamp |-> ts,
            triggered_at |-> now]
  IN  /\ history' = [history EXCEPT ![<<s, m>>] =
           Written(history[<<s, m>>], [timestamp |-> ts, value |-> v], average)]
      /\ \/ /\ Latches(s, m, average)
            /\ excursion' = [excursion EXCEPT ![s] = a]
            /\ toldExcursion' = Notified(toldExcursion, s, a)
         \/ /\ ~Latches(s, m, average)
            /\ UNCHANGED <<excursion, toldExcursion>>
      /\ UNCHANGED <<offline, subscribers, toldOffline, acked, now>>

\* record() ends in one of the two ways RecordedAs describes.
LEMMA RecordEffect ==
  ASSUME NEW s \in Sessions, NEW m \in Metrics, NEW v \in Values,
         NEW ts \in Stamps, Record(s, m, v, ts)
  PROVE  \E average \in Averages(history[<<s, m>>], v) :
           RecordedAs(s, m, v, ts, average)
BY Zenon DEF Record, RecordedAs

---------------------------------------------------------------------------
\* No step leaves a hot session without an active excursion.
LEMMA SilentStep ==
  TypeOK /\ ExcursionNeverSilent /\ [Next]_vars => ExcursionNeverSilent'
<1> SUFFICES ASSUME TypeOK, ExcursionNeverSilent, [Next]_vars,
                    NEW r \in Sessions, Hot(r)'
             PROVE  excursion'[r].active
  BY DEF ExcursionNeverSilent
<1>1. ASSUME NEW s \in Sessions, NEW m \in Metrics, NEW v \in Values,
             NEW ts \in Stamps, Record(s, m, v, ts)
      PROVE  excursion'[r].active
  <2>1. PICK average \in Averages(history[<<s, m>>], v) :
          RecordedAs(s, m, v, ts, average)
    BY <1>1, RecordEffect
  <2>2. CASE r = s /\ m = kTempMetricId
    <3>1. history'[<<r, kTempMetricId>>].average = average
      BY <2>1, <2>2 DEF TypeOK, Written, RecordedAs
    <3>2. average > kHighThresholdMilli
      BY <3>1 DEF Hot
    <3> QED
      BY <2>1, <2>2, <3>2 DEF Latches, TypeOK, RecordedAs
  <2>3. CASE ~(r = s /\ m = kTempMetricId)
    <3>1. history'[<<r, kTempMetricId>>] = history[<<r, kTempMetricId>>]
      BY <2>1, <2>3, StoreConstants DEF TypeOK, RecordedAs
    <3>2. excursion[r].active
      BY <3>1 DEF Hot, ExcursionNeverSilent
    <3>3. CASE Latches(s, m, average)
      <4>1. r # s
        BY <3>2, <3>3 DEF Latches
      <4> QED
        BY <2>1, <3>2, <3>3, <4>1 DEF TypeOK, RecordedAs
    <3>4. CASE ~Latches(s, m, average)
      BY <2>1, <3>2, <3>4 DEF RecordedAs
    <3> QED
      BY <3>3, <3>4
  <2> QED
    BY <2>2, <2>3
<1>2. ASSUME NEW s \in Sessions, Ack(s)
      PROVE  excursion'[r].active
  <2>1. history' = history /\ Hot(r) /\ excursion[r].active
    BY <1>2 DEF Ack, Hot, ExcursionNeverSilent
  <2>2. ~Recovered(r)
    <3>1. history[<<r, kTempMetricId>>] \in DeviceHistory
      BY StoreConstants DEF TypeOK
    <3>2. history[<<r, kTempMetricId>>].average \in Int
      BY <3>1, StoreConstants DEF DeviceHistory, Int32
    <3> QED
      BY <2>1, <3>2, StoreConstants DEF Hot, Recovered
  <2> QED
    BY <1>2, <2>1, <2>2 DEF Ack, TypeOK
<1>3. ASSUME UNCHANGED <<history, excursion>>
      PROVE  excursion'[r].active
  BY <1>3 DEF Hot, ExcursionNeverSilent
<1> QED
  BY <1>1, <1>2, <1>3, Zenon DEF Next, vars, LatchOffline, AddSubscriber,
     RemoveSubscriber, Tick

\* No excursion goes unreported: however samples, acknowledgements and
\* subscriptions interleave, a device whose smoothed temperature exceeds the
\* threshold has an active excursion alert.
THEOREM NeverSilent == Spec => []ExcursionNeverSilent
<1>1. Init => ExcursionNeverSilent
  BY StoreConstants DEF Init, ExcursionNeverSilent, Hot, NewHistory
<1> QED
  BY <1>1, SilentStep, TypeCorrect, PTL DEF Spec

---------------------------------------------------------------------------
\* No step leaves a subscriber without the line of an active alert.
LEMMA ToldStep == TypeOK /\ EveryoneTold /\ [Next]_vars => EveryoneTold'
<1> SUFFICES ASSUME TypeOK, EveryoneTold, [Next]_vars,
                    NEW w \in subscribers', NEW r \in Sessions
             PROVE  /\ excursion'[r].active => toldExcursion'[w][r] = Line(excursion'[r])
                    /\ offline'[r].active => toldOffline'[w][r] = Line(offline'[r])
  BY Zenon DEF EveryoneTold, Line
<1> DEFINE Goal ==
      /\ excursion'[r].active => toldExcursion'[w][r] = Line(excursion'[r])
      /\ offline'[r].active => toldOffline'[w][r] = Line(offline'[r])
<1>1. ASSUME NEW s \in Sessions, NEW m \in Metrics, NEW v \in Values,
             NEW ts \in Stamps, Record(s, m, v, ts)
      PROVE  Goal
  <2>1. PICK average \in Averages(history[<<s, m>>], v) :
          RecordedAs(s, m, v, ts, average)
    BY <1>1, RecordEffect
  <2> DEFINE a == [active |-> TRUE, value |-> average, timestamp |-> ts,
                   triggered_at |-> now]
  <2>2. w \in subscribers /\ w \in SubscriberIds
    BY <2>1 DEF RecordedAs, TypeOK
  <2>3. offline'[r].active => toldOffline'[w][r] = Line(offline'[r])
    BY <2>1, <2>2 DEF RecordedAs, EveryoneTold
  <2>4. CASE Latches(s, m, average)
    <3>1. /\ excursion' = [excursion EXCEPT ![s] = a]
          /\ toldExcursion' = Notified(toldExcursion, s, a)
      BY <2>1, <2>4 DEF RecordedAs
    <3>2. toldExcursion'[w] = [toldExcursion[w] EXCEPT ![s] = Line(a)]
      BY <2>2, <3>1 DEF Notified
    <3>3. toldExcursion[w] \in [Sessions -> AlertLine \cup {None}]
      BY <2>2 DEF TypeOK
    <3>4. CASE r = s
      BY <2>3, <3>1, <3>2, <3>3, <3>4 DEF TypeOK
    <3>5. CASE r # s
      BY <2>2, <2>3, <3>1, <3>2, <3>3, <3>5, Zenon DEF TypeOK, EveryoneTold
    <3> QED
      BY <3>4, <3>5
  <2>5. CASE ~Latches(s, m, average)
    BY <2>1, <2>2, <2>3, <2>5 DEF RecordedAs, EveryoneTold
  <2> QED
    BY <2>4, <2>5
<1>2. ASSUME NEW s \in Sessions, NEW ts \in Stamps, LatchOffline(s, ts)
      PROVE  Goal
  <2> DEFINE a == [active |-> TRUE, value |-> 0, timestamp |-> ts,
                   triggered_at |-> now]
  <2>1. w \in subscribers /\ w \in SubscriberIds
    BY <1>2 DEF LatchOffline, TypeOK
  <2>2. excursion'[r].active => toldExcursion'[w][r] = Line(excursion'[r])
    BY <1>2, <2>1 DEF LatchOffline, EveryoneTold
  <2>3. CASE offline[s].active
    BY <1>2, <2>1, <2>2, <2>3 DEF LatchOffline, EveryoneTold
  <2>4. CASE ~offline[s].active
    <3>1. /\ offline' = [offline EXCEPT ![s] = a]
          /\ toldOffline' = Notified(toldOffline, s, a)
      BY <1>2, <2>4 DEF LatchOffline
    <3>2. toldOffline'[w] = [toldOffline[w] EXCEPT ![s] = Line(a)]
      BY <2>1, <3>1 DEF Notified
    <3>3. toldOffline[w] \in [Sessions -> AlertLine \cup {None}]
      BY <2>1 DEF TypeOK
    <3>4. CASE r = s
      BY <2>2, <3>1, <3>2, <3>3, <3>4 DEF TypeOK
    <3>5. CASE r # s
      BY <2>1, <2>2, <3>1, <3>2, <3>3, <3>5, Zenon DEF TypeOK, EveryoneTold
    <3> QED
      BY <3>4, <3>5
  <2> QED
    BY <2>3, <2>4
<1>3. ASSUME NEW s \in Sessions, Ack(s)
      PROVE  Goal
  <2>1. w \in subscribers
    BY <1>3 DEF Ack
  <2>2. /\ offline'[r].active => offline[r] = offline'[r]
        /\ excursion'[r].active => excursion[r] = excursion'[r]
    BY <1>3 DEF Ack, TypeOK, Alert
  <2> QED
    BY <1>3, <2>1, <2>2 DEF Ack, EveryoneTold
<1>4. ASSUME NEW sub \in SubscriberIds, AddSubscriber(sub)
      PROVE  Goal
  <2>1. CASE w = sub
    BY <1>4, <2>1 DEF AddSubscriber, TypeOK, Replay
  <2>2. CASE w # sub
    BY <1>4, <2>2 DEF AddSubscriber, TypeOK, EveryoneTold
  <2> QED
    BY <2>1, <2>2
<1>5. ASSUME NEW sub \in SubscriberIds, RemoveSubscriber(sub)
      PROVE  Goal
  BY <1>5 DEF RemoveSubscriber, EveryoneTold
<1>6. CASE UNCHANGED <<excursion, offline, subscribers, toldExcursion, toldOffline>>
  BY <1>6 DEF EveryoneTold
<1> QED
  BY <1>1, <1>2, <1>3, <1>4, <1>5, <1>6 DEF Next, vars, Tick

\* Nobody misses an alert: a subscriber, however late it registered, has been
\* sent the line of every alert that is active.
THEOREM AllTold == Spec => []EveryoneTold
<1>1. Init => EveryoneTold
  BY Zenon DEF Init, EveryoneTold
<1> QED
  BY <1>1, ToldStep, TypeCorrect, PTL DEF Spec

---------------------------------------------------------------------------
\* The life of a latched alert: acknowledgements are consistent, only an
\* acknowledgement closes an alert, and the store implements the alert board.

\* An excursion last acknowledged as still active is the one open now, and it
\* has been open at least as long as that acknowledgement reported.
StillOpen ==
  \A s \in Sessions : acked[s].excursion_still_active =>
    /\ excursion[s].active
    /\ acked[s].excursion_duration <= now - excursion[s].triggered_at

\* A step keeps StillOpen and reports no shorter duration.
LEMMA AckGrowsStep ==
  TypeOK /\ StillOpen /\ [Next]_vars => AckStep /\ StillOpen'
<1> SUFFICES ASSUME TypeOK, StillOpen, [Next]_vars, NEW r \in Sessions
             PROVE  /\ acked[r].excursion_still_active /\ acked'[r] # acked[r] =>
                         /\ acked'[r].had_excursion
                         /\ acked'[r].excursion_duration >= acked[r].excursion_duration
                    /\ acked'[r].excursion_still_active =>
                         /\ excursion'[r].active
                         /\ acked'[r].excursion_duration
                              <= now' - excursion'[r].triggered_at
  BY DEF StillOpen, AckStep
<1> DEFINE Goal ==
      /\ acked[r].excursion_still_active /\ acked'[r] # acked[r] =>
           /\ acked'[r].had_excursion
           /\ acked'[r].excursion_duration >= acked[r].excursion_duration
      /\ acked'[r].excursion_still_active =>
           /\ excursion'[r].active
           /\ acked'[r].excursion_duration <= now' - excursion'[r].triggered_at
<1>0. /\ now \in Int /\ excursion[r].triggered_at \in Int
      /\ acked[r].excursion_duration \in Int
  BY ClockNat DEF TypeOK, Alert, AckResult
<1>1. ASSUME NEW s \in Sessions, NEW m \in Metrics, NEW v \in Values,
             NEW ts \in Stamps, Record(s, m, v, ts)
      PROVE  Goal
  <2>1. PICK average \in Averages(history[<<s, m>>], v) :
          RecordedAs(s, m, v, ts, average)
    BY <1>1, RecordEffect
  <2>2. excursion[r].active => excursion'[r] = excursion[r]
    BY <2>1 DEF RecordedAs, Latches, TypeOK
  <2>3. acked' = acked /\ now' = now
    BY <2>1 DEF RecordedAs
  <2> QED
    BY <2>2, <2>3 DEF StillOpen
<1>2. ASSUME NEW s \in Sessions, Ack(s)
      PROVE  Goal
  <2>1. CASE r = s
    <3>1. acked'[r] = AckReport(r)
      BY <1>2, <2>1 DEF Ack, TypeOK
    <3>2. excursion[r].active /\ ~Recovered(r) => excursion' = excursion
      BY <1>2, <2>1 DEF Ack
    <3>3. now' = now
      BY <1>2 DEF Ack
    <3>4. /\ AckReport(r).had_excursion <=> excursion[r].active
          /\ AckReport(r).excursion_still_active <=> (excursion[r].active /\ ~Recovered(r))
          /\ excursion[r].active =>
               AckReport(r).excursion_duration = now - excursion[r].triggered_at
      BY Zenon DEF AckReport
    <3>5. acked[r].excursion_still_active =>
            /\ acked'[r].had_excursion
            /\ acked'[r].excursion_duration >= acked[r].excursion_duration
      BY <1>0, <3>1, <3>4 DEF StillOpen
    <3>6. acked'[r].excursion_still_active =>
            /\ excursion'[r].active
            /\ acked'[r].excursion_duration <= now' - excursion'[r].triggered_at
      BY <1>0, <3>1, <3>2, <3>3, <3>4
    <3> QED
      BY <3>5, <3>6
  <2>2. CASE r # s
    <3>1. acked'[r] = acked[r] /\ excursion'[r] = excursion[r] /\ now' = now
      BY <1>2, <2>2 DEF Ack, TypeOK
    <3> QED
      BY <3>1 DEF StillOpen
  <2> QED
    BY <2>1, <2>2
<1>3. CASE Tick
  BY <1>0, <1>3 DEF Tick, StillOpen
<1>4. CASE UNCHANGED <<excursion, acked, now>>
  BY <1>4 DEF StillOpen
<1> QED
  BY <1>1, <1>2, <1>3, <1>4, Zenon DEF Next, vars, LatchOffline, AddSubscriber,
     RemoveSubscriber

\* Repeated acknowledgements of an ongoing excursion report durations that
\* never decrease: nothing between them restarts triggered_at.
THEOREM AckGrows == Spec => AckDurationGrows
<1>1. Init => StillOpen
  BY DEF Init, StillOpen, NoAck
<1>2. TypeOK /\ StillOpen /\ [Next]_vars => [AckStep]_vars
  BY AckGrowsStep
<1> QED
  BY <1>1, <1>2, AckGrowsStep, TypeCorrect, PTL DEF Spec, AckDurationGrows

---------------------------------------------------------------------------
\* Every step leaves active alerts alone or closes them as LatchStep says.
LEMMA LatchKept == TypeOK /\ [Next]_vars => LatchStep
<1> SUFFICES ASSUME TypeOK, [Next]_vars, NEW r \in Sessions
             PROVE  /\ excursion[r].active /\ excursion'[r] # excursion[r] =>
                         /\ excursion'[r] = [excursion[r] EXCEPT !.active = FALSE]
                         /\ ~Hot(r) /\ history' = history
                         /\ acked'[r].had_excursion /\ ~acked'[r].excursion_still_active
                    /\ offline[r].active /\ offline'[r] # offline[r] =>
                         /\ offline'[r] = [offline[r] EXCEPT !.active = FALSE]
                         /\ acked'[r].had_offline
  BY Zenon DEF LatchStep
<1>1. ASSUME NEW s \in Sessions, NEW m \in Metrics, NEW v \in Values,
             NEW ts \in Stamps, Record(s, m, v, ts)
      PROVE  /\ excursion[r].active => excursion'[r] = excursion[r]
             /\ offline'[r] = offline[r]
  <2>1. PICK n \in Averages(history[<<s, m>>], v) : RecordedAs(s, m, v, ts, n)
    BY <1>1, RecordEffect
  <2> QED
    BY <2>1 DEF RecordedAs, Latches, TypeOK
<1>2. ASSUME NEW s \in Sessions, NEW ts \in Stamps, LatchOffline(s, ts)
      PROVE  /\ offline[r].active => offline'[r] = offline[r]
             /\ excursion'[r] = excursion[r]
  BY <1>2 DEF LatchOffline, TypeOK
<1>3. ASSUME NEW s \in Sessions, Ack(s)
      PROVE  /\ excursion[r].active /\ excursion'[r] # excursion[r] =>
                  /\ excursion'[r] = [excursion[r] EXCEPT !.active = FALSE]
                  /\ ~Hot(r) /\ history' = history
                  /\ acked'[r].had_excursion /\ ~acked'[r].excursion_still_active
             /\ offline[r].active /\ offline'[r] # offline[r] =>
                  /\ offline'[r] = [offline[r] EXCEPT !.active = FALSE]
                  /\ acked'[r].had_offline
  <2>1. CASE r # s
    BY <1>3, <2>1 DEF Ack, TypeOK
  <2>2. CASE r = s
    <3>1. acked'[r] = AckReport(r)
      BY <1>3, <2>2 DEF Ack, TypeOK
    <3>2. offline'[r] = [offline[r] EXCEPT !.active = FALSE]
      BY <1>3, <2>2 DEF Ack, TypeOK
    <3>3. excursion'[r] # excursion[r] =>
            /\ Recovered(r)
            /\ excursion'[r] = [excursion[r] EXCEPT !.active = FALSE]
      BY <1>3, <2>2 DEF Ack, TypeOK
    <3>4. /\ AckReport(r).had_excursion <=> excursion[r].active
          /\ AckReport(r).had_offline <=> offline[r].active
          /\ AckReport(r).excursion_still_active <=> (excursion[r].active /\ ~Recovered(r))
      BY Zenon DEF AckReport
    <3>5. Recovered(r) => ~Hot(r)
      <4>1. history[<<r, kTempMetricId>>] \in DeviceHistory
        BY StoreConstants DEF TypeOK
      <4>2. history[<<r, kTempMetricId>>].average \in Int
        BY <4>1, StoreConstants DEF DeviceHistory, Int32
      <4> QED
        BY <4>2, StoreConstants DEF Hot, Recovered
    <3>6. history' = history
      BY <1>3 DEF Ack
    <3> QED
      BY <3>1, <3>2, <3>3, <3>4, <3>5, <3>6
  <2> QED
    BY <2>1, <2>2
<1>4. CASE UNCHANGED <<excursion, offline>>
  BY <1>4
<1> QED
  BY <1>1, <1>2, <1>3, <1>4, Zenon DEF Next, vars, AddSubscriber,
     RemoveSubscriber, Tick

\* An alert stays exactly as it was latched until it is acknowledged, and an
\* excursion is closed only by an acknowledgement after the recovery.
THEOREM Latched == Spec => LatchedUntilAcked
<1>1. TypeOK /\ [Next]_vars => [LatchStep]_vars
  BY LatchKept
<1> QED
  BY <1>1, TypeCorrect, PTL DEF Spec, LatchedUntilAcked

---------------------------------------------------------------------------
\* Only a session that has been measured has an excursion: ack() never finds
\* an open one without an average.
Measured ==
  \A s \in Sessions : excursion[s].active => history[<<s, kTempMetricId>>].have_average

LEMMA MeasuredStep == TypeOK /\ Measured /\ [Next]_vars => Measured'
<1> SUFFICES ASSUME TypeOK, Measured, [Next]_vars, NEW r \in Sessions,
                    excursion'[r].active
             PROVE  history'[<<r, kTempMetricId>>].have_average
  BY DEF Measured
<1>1. ASSUME NEW s \in Sessions, NEW m \in Metrics, NEW v \in Values,
             NEW ts \in Stamps, Record(s, m, v, ts)
      PROVE  history'[<<r, kTempMetricId>>].have_average
  <2>1. PICK average \in Averages(history[<<s, m>>], v) :
          RecordedAs(s, m, v, ts, average)
    BY <1>1, RecordEffect
  <2>2. CASE r = s /\ m = kTempMetricId
    BY <2>1, <2>2 DEF TypeOK, Written, RecordedAs
  <2>3. CASE ~(r = s /\ m = kTempMetricId)
    <3>1. history'[<<r, kTempMetricId>>] = history[<<r, kTempMetricId>>]
      BY <2>1, <2>3, StoreConstants DEF TypeOK, RecordedAs
    <3>2. excursion'[r] = excursion[r]
      BY <2>1, <2>3 DEF TypeOK, RecordedAs, Latches
    <3> QED
      BY <3>1, <3>2 DEF Measured
  <2> QED
    BY <2>2, <2>3
<1>2. ASSUME NEW s \in Sessions, Ack(s)
      PROVE  history'[<<r, kTempMetricId>>].have_average
  <2>1. excursion[r].active
    BY <1>2 DEF Ack, TypeOK, Alert
  <2> QED
    BY <1>2, <2>1 DEF Ack, Measured
<1>3. ASSUME UNCHANGED <<history, excursion>>
      PROVE  history'[<<r, kTempMetricId>>].have_average
  BY <1>3 DEF Measured
<1> QED
  BY <1>1, <1>2, <1>3, Zenon DEF Next, vars, LatchOffline, AddSubscriber,
     RemoveSubscriber, Tick

\* Where everyone has been told, each watcher knows exactly the open alerts.
LEMMA KnowsOpen == EveryoneTold' => Board!Announce
<1> SUFFICES ASSUME EveryoneTold' PROVE Board!Announce
  OBVIOUS
<1>1. ASSUME NEW w \in subscribers' PROVE Knows(w)' = Board!Open'
  <2>1. \A s \in Sessions :
          /\ excursion'[s].active => toldExcursion'[w][s] = Line(excursion'[s])
          /\ offline'[s].active => toldOffline'[w][s] = Line(offline'[s])
    BY <1>1, Zenon DEF EveryoneTold, Line
  <2>2. {t \in Sessions : /\ excursion'[t].active
                        /\ toldExcursion'[w][t] = Line(excursion'[t])} = Excursions'
    BY <2>1, Zenon DEF Excursions
  <2>3. {t \in Sessions : /\ offline'[t].active
                        /\ toldOffline'[w][t] = Line(offline'[t])} = Offlines'
    BY <2>1, Zenon DEF Offlines
  <2>4. Knows(w)' = {<<"excursion", s>> : s \in Excursions'}
                       \cup {<<"offline", s>> : s \in Offlines'}
    BY <2>2, <2>3, Zenon DEF Knows, Line
  <2>5. Board!Open' = {<<"excursion", s>> : s \in Excursions'}
                         \cup {<<"offline", s>> : s \in Offlines'}
    BY DEF Board!Open
  <2> QED
    BY <2>4, <2>5
<1>2. Known' = [w \in SubscriberIds |-> IF w \in subscribers' THEN Knows(w)' ELSE {}]
  BY DEF Known
<1> QED
  BY <1>1, <1>2 DEF Board!Announce

\* Every step of the store is a step of the board.
BoardInv == TypeOK /\ ExcursionNeverSilent /\ EveryoneTold /\ Measured

LEMMA BoardStep ==
  ASSUME BoardInv, BoardInv', [Next]_vars
  PROVE  [Board!Next]_<<HotNow, Excursions, Offlines, subscribers, Known>>
<1>0. Board!Announce
  BY KnowsOpen DEF BoardInv
<1>1. ASSUME NEW s \in Sessions, NEW m \in Metrics, NEW v \in Values,
             NEW ts \in Stamps, Record(s, m, v, ts)
      PROVE  Board!Assess(s)
  <2>1. PICK average \in Averages(history[<<s, m>>], v) :
          RecordedAs(s, m, v, ts, average)
    BY <1>1, RecordEffect
  <2>2. ASSUME NEW r \in Sessions, r # s
        PROVE  (Hot(r)' <=> Hot(r)) /\ excursion'[r] = excursion[r]
    <3>1. history'[<<r, kTempMetricId>>] = history[<<r, kTempMetricId>>]
      BY <2>1, <2>2, StoreConstants DEF BoardInv, TypeOK, RecordedAs
    <3>2. excursion'[r] = excursion[r]
      BY <2>1, <2>2 DEF BoardInv, TypeOK, RecordedAs
    <3> QED
      BY <3>1, <3>2 DEF Hot
  <2>3. excursion'[s].active <=> (excursion[s].active \/ Hot(s)')
    <3>1. CASE Latches(s, m, average)
      <4>1. /\ history'[<<s, kTempMetricId>>].have_average
            /\ history'[<<s, kTempMetricId>>].average = average
        BY <2>1, <3>1 DEF BoardInv, TypeOK, Written, RecordedAs, Latches
      <4>2. excursion'[s].active
        BY <2>1, <3>1 DEF BoardInv, TypeOK, RecordedAs
      <4> QED
        BY <3>1, <4>1, <4>2 DEF Hot, Latches
    <3>2. CASE ~Latches(s, m, average)
      BY <2>1, <3>2 DEF RecordedAs, BoardInv, ExcursionNeverSilent
    <3> QED
      BY <3>1, <3>2
  <2>4. HotNow' \in {HotNow \cup {s}, HotNow \ {s}}
    <3>1. CASE Hot(s)'
      BY <2>2, <3>1 DEF HotNow
    <3>2. CASE ~Hot(s)'
      BY <2>2, <3>2 DEF HotNow
    <3> QED
      BY <3>1, <3>2
  <2>5. Excursions' = Excursions \cup (HotNow' \cap {s})
    BY <2>2, <2>3 DEF HotNow, Excursions
  <2>6. UNCHANGED <<Offlines, subscribers>>
    BY <2>1 DEF RecordedAs, Offlines
  <2> QED
    BY <1>0, <2>4, <2>5, <2>6 DEF Board!Assess
<1>2. ASSUME NEW s \in Sessions, NEW ts \in Stamps, LatchOffline(s, ts)
      PROVE  Board!GoneOffline(s)
  <2>1. UNCHANGED <<HotNow, Excursions, subscribers>>
    BY <1>2 DEF LatchOffline, HotNow, Hot, Excursions
  <2>2. Offlines' = Offlines \cup {s}
    BY <1>2 DEF LatchOffline, Offlines, BoardInv, TypeOK
  <2> QED
    BY <1>0, <2>1, <2>2 DEF Board!GoneOffline
<1>3. ASSUME NEW s \in Sessions, Ack(s)
      PROVE  Board!Acknowledge(s)
  <2>1. UNCHANGED <<HotNow, subscribers>>
    BY <1>3 DEF Ack, HotNow, Hot
  <2>2. Offlines' = Offlines \ {s}
    BY <1>3 DEF Ack, Offlines, BoardInv, TypeOK, Alert
  <2>3. excursion[s].active => (Recovered(s) <=> ~Hot(s))
    <3>1. history[<<s, kTempMetricId>>] \in DeviceHistory
      BY StoreConstants DEF BoardInv, TypeOK
    <3>2. history[<<s, kTempMetricId>>].average \in Int
      BY <3>1, StoreConstants DEF DeviceHistory, Int32
    <3> QED
      BY <3>2, StoreConstants DEF BoardInv, Measured, Hot, Recovered
  <2>4. Excursions' = Excursions \ ({s} \ HotNow)
    BY <1>3, <2>3 DEF Ack, Excursions, HotNow, BoardInv, TypeOK, Alert
  <2> QED
    BY <1>0, <2>1, <2>2, <2>4 DEF Board!Acknowledge
<1>4. ASSUME NEW sub \in SubscriberIds, AddSubscriber(sub)
      PROVE  Board!Join(sub)
  BY <1>0, <1>4 DEF AddSubscriber, Board!Join, HotNow, Hot, Excursions, Offlines
<1>5. ASSUME NEW sub \in SubscriberIds, RemoveSubscriber(sub)
      PROVE  Board!Leave(sub)
  BY <1>0, <1>5 DEF RemoveSubscriber, Board!Leave, HotNow, Hot, Excursions, Offlines
<1>6. CASE Tick \/ UNCHANGED vars
  <2>1. UNCHANGED <<history, excursion, offline, subscribers, toldExcursion, toldOffline>>
    BY <1>6 DEF Tick, vars
  <2>2. UNCHANGED <<HotNow, Excursions, Offlines>>
    BY <2>1 DEF HotNow, Hot, Excursions, Offlines
  <2>3. Known' = Known
    BY <2>1, Zenon DEF Known, Knows, Line
  <2> QED
    BY <2>1, <2>2, <2>3
<1> QED
  BY <1>1, <1>2, <1>3, <1>4, <1>5, <1>6 DEF Next, Board!Next

\* The store implements the alert board: record() assesses a session's
\* temperature, latch_offline() and ack() open and close alerts as the board
\* allows, and whoever is registered knows exactly the open alerts.
THEOREM BoardRefinement == Spec => ImplementsAlertBoard
<1>1. Init => Measured
  BY DEF Init, Measured, NoAlert
<1>2. Spec => []Measured
  BY <1>1, MeasuredStep, TypeCorrect, PTL DEF Spec
<1>3. Init => Board!Init
  <2> SUFFICES ASSUME Init PROVE Board!Init
    OBVIOUS
  <2>1. HotNow = {} /\ Excursions = {} /\ Offlines = {}
    BY StoreConstants DEF Init, HotNow, Hot, Excursions, Offlines, NewHistory, NoAlert
  <2>2. Known = [w \in SubscriberIds |-> {}]
    BY Zenon DEF Init, Known
  <2> QED
    BY <2>1, <2>2 DEF Init, Board!Init
<1>4. BoardInv /\ BoardInv' /\ [Next]_vars =>
        [Board!Next]_<<HotNow, Excursions, Offlines, subscribers, Known>>
  BY BoardStep
<1>5. Spec => []BoardInv
  BY <1>2, TypeCorrect, NeverSilent, AllTold, PTL DEF BoardInv
<1> QED
  BY <1>3, <1>4, <1>5, PTL DEF Spec, ImplementsAlertBoard, Board!Spec, Board!vars

---------------------------------------------------------------------------
\* The sample ring.

\* The elements of a sequence.
LEMMA Elements ==
  ASSUME NEW S, NEW s \in Seq(S)
  PROVE  Len(s) \in Nat /\ \A i \in 1..Len(s) : s[i] \in S
OBVIOUS

\* Sequences with the same elements are the same.
LEMMA SameElements ==
  ASSUME NEW S, NEW s \in Seq(S), NEW t \in Seq(S), Len(s) = Len(t),
         \A i \in 1..Len(s) : s[i] = t[i]
  PROVE  s = t
OBVIOUS

\* A function over 1..n is a sequence of length n.
LEMMA Listed ==
  ASSUME NEW S, NEW n \in Nat, NEW s \in [1..n -> S]
  PROVE  s \in Seq(S) /\ Len(s) = n
OBVIOUS

\* Part of a sequence.
LEMMA PartOf ==
  ASSUME NEW S, NEW s, NEW m \in Int, NEW n \in Int, \A i \in m..n : s[i] \in S
  PROVE  LET t == SubSeq(s, m, n)
         IN  /\ t \in Seq(S) /\ Len(t) = IF m <= n THEN n - m + 1 ELSE 0
             /\ \A i \in 1..(n - m + 1) : t[i] = s[m + i - 1]
OBVIOUS

\* The ring index arithmetic: one reduction is enough below 2 * capacity.
LEMMA RingIndex ==
  ASSUME NEW x \in Nat, NEW n \in Nat \ {0}, x < n + n
  PROVE  /\ x < n => x % n = x
         /\ ~(x < n) => x % n = x - n
OBVIOUS

\* Until the ring has wrapped, samples fill it from slot 0 on.
Aligned(h) == h.count < kHistoryPerDevice => h.next = h.count

\* The slot of the i-th oldest sample.
SlotOf(h, i) ==
  IF Oldest(h) + i - 1 < kHistoryPerDevice THEN Oldest(h) + i - 1
                                           ELSE Oldest(h) + i - 1 - kHistoryPerDevice

\* history() of a typed ring is a sequence of samples, count long.
LEMMA HistoryType ==
  ASSUME NEW h \in DeviceHistory
  PROVE  /\ History(h) \in Seq(Sample)
         /\ Len(History(h)) = h.count
         /\ \A i \in 1..h.count : History(h)[i] = h.entries[SlotOf(h, i)]
<1>1. /\ Oldest(h) \in 0..(kHistoryPerDevice - 1) /\ h.count \in Nat
      /\ h.count <= kHistoryPerDevice /\ kHistoryPerDevice \in Nat \ {0}
  BY StoreConstants DEF DeviceHistory, Oldest
<1>2. ASSUME NEW i \in 1..h.count
      PROVE  /\ (Oldest(h) + i - 1) % kHistoryPerDevice = SlotOf(h, i)
             /\ SlotOf(h, i) \in 0..(kHistoryPerDevice - 1)
  <2>1. /\ Oldest(h) + i - 1 \in Nat
        /\ Oldest(h) + i - 1 < kHistoryPerDevice + kHistoryPerDevice
    BY <1>1
  <2>2. (Oldest(h) + i - 1) % kHistoryPerDevice = SlotOf(h, i)
    BY <1>1, <2>1, RingIndex DEF SlotOf
  <2> QED
    BY <1>1, <2>1, <2>2 DEF SlotOf
<1>3. \A i \in 1..h.count : h.entries[SlotOf(h, i)] \in Sample
  BY <1>2, Zenon DEF DeviceHistory
<1>4. History(h) = [i \in 1..h.count |-> h.entries[SlotOf(h, i)]]
  BY <1>2 DEF History
<1>5. History(h) \in [1..h.count -> Sample]
  BY <1>3, <1>4
<1> QED
  BY <1>1, <1>4, <1>5, Listed

\* Recording appends to what history() returns and drops the oldest sample
\* when there are more than the ring holds.
LEMMA RingStep ==
  ASSUME NEW h \in DeviceHistory, Aligned(h), NEW sample \in Sample, NEW average \in Int32
  PROVE  /\ Aligned(Written(h, sample, average))
         /\ History(Written(h, sample, average))
              = Recent!LastOf(Append(History(h), sample))
<1> DEFINE N == kHistoryPerDevice
           g == Written(h, sample, average)
           q == History(h)
           r == Append(q, sample)
<1>1. /\ N \in Nat \ {0} /\ h.count \in 0..N /\ h.next \in 0..(N - 1)
      /\ h.entries \in [0..(N - 1) -> Sample]
  BY StoreConstants DEF DeviceHistory
<1>2. /\ g.entries = [h.entries EXCEPT ![h.next] = sample]
      /\ g.count = IF h.count < N THEN h.count + 1 ELSE h.count
      /\ g.next = (h.next + 1) % N
  BY DEF Written
<1>3. g.next = IF h.next + 1 < N THEN h.next + 1 ELSE 0
  <2>1. h.next + 1 \in Nat /\ h.next + 1 < N + N
    BY <1>1
  <2> DEFINE x == h.next + 1
  <2>2. /\ x < N => x % N = x
        /\ ~(x < N) => x % N = x - N
    <3>1. x \in Nat /\ x < N + N /\ N \in Nat \ {0}
      BY <1>1, <2>1
    <3> HIDE DEF x
    <3> QED
      BY <3>1, RingIndex, Zenon
  <2>3. h.next + 1 < N \/ h.next + 1 - N = 0
    BY <1>1
  <2>4. g.next = x % N
    BY <1>2
  <2>5. h.next \in Int /\ N \in Int
    BY <1>1
  <2>6. CASE x < N
    BY <2>2, <2>4, <2>6
  <2>7. CASE ~(x < N)
    BY <2>2, <2>3, <2>4, <2>5, <2>7
  <2> QED
    BY <2>6, <2>7
<1>4. Aligned(g)
  BY <1>1, <1>2, <1>3 DEF Aligned
<1>5. g \in DeviceHistory
  BY WrittenType
<1>6. /\ q \in Seq(Sample) /\ Len(q) = h.count
      /\ \A i \in 1..h.count : q[i] = h.entries[SlotOf(h, i)]
  BY HistoryType
<1>7. /\ History(g) \in Seq(Sample) /\ Len(History(g)) = g.count
      /\ \A i \in 1..g.count : History(g)[i] = g.entries[SlotOf(g, i)]
  BY <1>5, HistoryType
<1>8. /\ r \in Seq(Sample) /\ Len(r) = h.count + 1 /\ r[h.count + 1] = sample
      /\ \A i \in 1..h.count : r[i] = q[i]
  BY <1>1, <1>6
<1> HIDE DEF g, q, r
<1>9. CASE h.count < N
  <2>1. /\ h.next = h.count /\ g.count = h.count + 1
        /\ Oldest(h) = 0 /\ Oldest(g) = 0
    BY <1>1, <1>2, <1>3, <1>9 DEF Aligned, Oldest
  <2>2. /\ \A i \in 1..h.count : SlotOf(h, i) = i - 1
        /\ \A i \in 1..g.count : SlotOf(g, i) = i - 1
    BY <1>1, <1>9, <2>1 DEF SlotOf
  <2>3. Recent!LastOf(r) = r
    BY <1>1, <1>8, <1>9 DEF Recent!LastOf
  <2>4. ASSUME NEW i \in 1..g.count
        PROVE  History(g)[i] = r[i]
    <3>1. History(g)[i] = g.entries[i - 1]
      BY <1>7, <2>2
    <3>2. CASE i = h.count + 1
      BY <1>1, <1>2, <1>8, <2>1, <3>1, <3>2
    <3>3. CASE i # h.count + 1
      <4>1. i \in 1..h.count /\ i - 1 \in 0..(N - 1) /\ i - 1 # h.next
        BY <1>1, <1>9, <2>1, <3>3
      <4>2. r[i] = h.entries[i - 1]
        BY <1>6, <1>8, <2>2, <4>1
      <4> QED
        BY <1>1, <1>2, <3>1, <4>1, <4>2
    <3> QED
      BY <3>2, <3>3
  <2>5. History(g) = r
    BY <1>7, <1>8, <2>1, <2>4, SameElements
  <2> QED
    BY <1>4, <2>3, <2>5 DEF g, q, r
<1>10. CASE h.count = N
  <2>1. g.count = N /\ Oldest(h) = h.next /\ Oldest(g) = g.next
    BY <1>1, <1>2, <1>10 DEF Oldest
  <2>2. Recent!LastOf(r) = SubSeq(r, 2, N + 1)
    BY <1>1, <1>8, <1>10 DEF Recent!LastOf
  <2>3. \A i \in 2..(N + 1) : r[i] \in Sample
    BY <1>1, <1>8, <1>10, Elements
  <2>4. /\ SubSeq(r, 2, N + 1) \in Seq(Sample) /\ Len(SubSeq(r, 2, N + 1)) = N
        /\ \A i \in 1..N : SubSeq(r, 2, N + 1)[i] = r[i + 1]
    <3>1. /\ SubSeq(r, 2, N + 1) \in Seq(Sample)
          /\ Len(SubSeq(r, 2, N + 1)) = IF 2 <= N + 1 THEN N + 1 - 2 + 1 ELSE 0
          /\ \A i \in 1..(N + 1 - 2 + 1) : SubSeq(r, 2, N + 1)[i] = r[2 + i - 1]
      BY <1>1, <2>3, PartOf
    <3> QED
      BY <1>1, <3>1
  <2>5. ASSUME NEW i \in 1..N
        PROVE  History(g)[i] = r[i + 1]
    <3>1. /\ History(g)[i] = g.entries[SlotOf(g, i)]
          /\ SlotOf(g, i) = IF h.next + i < N THEN h.next + i ELSE h.next + i - N
      <4>1. SlotOf(g, i) = IF g.next + i - 1 < N THEN g.next + i - 1 ELSE g.next + i - 1 - N
        BY <2>1 DEF SlotOf
      <4>2. SlotOf(g, i) = IF h.next + i < N THEN h.next + i ELSE h.next + i - N
        <5>1. g.next \in Int /\ h.next \in 0..(N - 1) /\ N \in Nat /\ i \in 1..N
          BY <1>1, <1>3
        <5> QED
          BY <1>3, <4>1, <5>1
      <4> QED
        BY <1>7, <2>1, <4>2
    <3>2. CASE i = N
      BY <1>1, <1>2, <1>8, <1>10, <3>1, <3>2
    <3>3. CASE i # N
      <4>1. i + 1 \in 1..N
        BY <1>1, <3>3
      <4>2. r[i + 1] = h.entries[SlotOf(h, i + 1)]
        BY <1>6, <1>8, <1>10, <4>1
      <4>3. SlotOf(h, i + 1) = SlotOf(g, i)
        BY <1>1, <2>1, <3>1 DEF SlotOf
      <4>4. SlotOf(g, i) # h.next /\ SlotOf(g, i) \in 0..(N - 1)
        BY <1>1, <3>1, <3>3
      <4> QED
        BY <1>1, <1>2, <3>1, <4>2, <4>3, <4>4
    <3> QED
      BY <3>2, <3>3
  <2>6. History(g) = SubSeq(r, 2, N + 1)
    BY <1>7, <2>1, <2>4, <2>5, SameElements
  <2> QED
    BY <1>4, <2>2, <2>6 DEF g, q, r
<1> QED
  BY <1>1, <1>9, <1>10

---------------------------------------------------------------------------
\* Every ring is aligned.
RingsAligned == \A k \in Sessions \X Metrics : Aligned(history[k])

\* What history() returns for every key, as RecentSamples names it.
recent == [k \in Sessions \X Metrics |-> History(history[k])]

\* The initial store has recorded nothing.
LEMMA RingsInit == Init => RingsAligned /\ Recent!Init
<1> SUFFICES ASSUME Init PROVE RingsAligned /\ Recent!Init
  OBVIOUS
<1>1. Aligned(NewHistory)
  BY DEF Aligned, NewHistory
<1>2. NewHistory \in DeviceHistory
  BY TypeInit, ZeroInt32, StoreConstants DEF NewHistory, DeviceHistory, Sample
<1>3. History(NewHistory) = <<>>
  <2>1. Len(History(NewHistory)) = 0 /\ History(NewHistory) \in Seq(Sample)
    BY <1>2, HistoryType DEF NewHistory
  <2> QED
    BY <2>1
<1> QED
  BY <1>1, <1>3 DEF Init, RingsAligned, Recent!Init

\* A recorded sample is an Add step of its key; nothing else changes what
\* history() returns.
LEMMA RingsStep ==
  TypeOK /\ RingsAligned /\ [Next]_vars => RingsAligned' /\ [Recent!Next]_recent
<1> SUFFICES ASSUME TypeOK, RingsAligned, [Next]_vars
             PROVE  RingsAligned' /\ [Recent!Next]_recent
  OBVIOUS
<1>1. ASSUME NEW s \in Sessions, NEW m \in Metrics, NEW v \in Values,
             NEW ts \in Stamps, Record(s, m, v, ts)
      PROVE  RingsAligned' /\ Recent!Next
  <2> DEFINE key == <<s, m>>
             h == history[key]
             sample == [timestamp |-> ts, value |-> v]
  <2>1. PICK n \in Averages(h, v) : RecordedAs(s, m, v, ts, n)
    BY <1>1, RecordEffect
  <2>2. h \in DeviceHistory /\ key \in Sessions \X Metrics
    BY DEF TypeOK
  <2>3. n \in Int32 /\ sample \in Sample
    BY <2>1, <2>2, AveragesType DEF Sample
  <2>4. Aligned(h)
    BY <2>2, Zenon DEF RingsAligned
  <2>5. /\ Aligned(Written(h, sample, n))
        /\ History(Written(h, sample, n)) = Recent!LastOf(Append(History(h), sample))
    BY <2>2, <2>3, <2>4, RingStep
  <2>6. history' = [history EXCEPT ![key] = Written(h, sample, n)]
    BY <2>1 DEF RecordedAs
  <2>7. RingsAligned'
    BY <2>5, <2>6 DEF RingsAligned, TypeOK
  <2>8. recent' = [recent EXCEPT ![key] = Recent!LastOf(Append(recent[key], sample))]
    <3>1. \A k \in Sessions \X Metrics :
            recent'[k] = IF k = key THEN Recent!LastOf(Append(recent[key], sample))
                                    ELSE recent[k]
      BY <2>2, <2>5, <2>6 DEF TypeOK, recent
    <3> QED
      BY <3>1, Zenon DEF recent
  <2>9. Recent!Add(key, sample)
    BY <2>8, Zenon DEF Recent!Add, recent
  <2>10. sample \in [timestamp : Stamps, value : Values]
    BY Zenon
  <2> QED
    BY <2>2, <2>7, <2>9, <2>10, Zenon DEF Recent!Next
<1>2. CASE UNCHANGED history
  BY <1>2, Zenon DEF RingsAligned, recent
<1> QED
  BY <1>1, <1>2, Zenon DEF Next, vars, LatchOffline, Ack, AddSubscriber,
     RemoveSubscriber, Tick

\* The ring written by record() and read by history() implements "the most
\* recent kHistoryPerDevice samples, oldest first", for every capacity.
THEOREM HistoryRefinement == Spec => HistoryIsRecentSamples
<1>1. TypeOK /\ RingsAligned /\ [Next]_vars => [Recent!Next]_recent
  BY RingsStep
<1> QED
  BY <1>1, RingsInit, RingsStep, TypeCorrect, PTL
     DEF Spec, HistoryIsRecentSamples, Recent!Spec, recent
---------------------------------------------------------------------------
\* One smoothing step moves the average towards the reading and not past it.
\* Rounding is one-sided: a reading up to 3 above the average leaves it where
\* it is, while any reading below it moves it.
LEMMA SmoothingStep ==
  ASSUME NEW a \in Int, NEW v \in Int
  PROVE  /\ v >= a => a <= a + ((v - a) \div 4) /\ a + ((v - a) \div 4) <= v
         /\ v <= a => v <= a + ((v - a) \div 4) /\ a + ((v - a) \div 4) <= a
         /\ v > a + 3 => a + ((v - a) \div 4) > a
         /\ v - a \in 0..3 => a + ((v - a) \div 4) = a
         /\ v < a => a + ((v - a) \div 4) < a
OBVIOUS

\* Without overflow there is one new average, between the old one and v.
LEMMA AveragesBetween ==
  ASSUME NEW h \in DeviceHistory, NEW v \in Values, NEW lo \in Values, NEW hi \in Values,
         \A x, y \in Values : x - y \in Int32,
         h.have_average, lo <= h.average, h.average <= hi,
         NEW n \in Averages(h, v)
  PROVE  \/ lo <= n /\ n <= v
         \/ v <= n /\ n <= hi
         \/ lo <= n /\ n <= hi
<1> DEFINE a == h.average
           d == v - a
<1>1. a \in Int /\ v \in Int /\ lo \in Int /\ hi \in Int
  BY StoreConstants DEF DeviceHistory, Int32
<1>2. MinInt <= a /\ a <= MaxInt /\ MinInt <= v /\ v <= MaxInt
  BY <1>1, StoreConstants DEF DeviceHistory, Int32
<1>3. d \in Int32
  <2>1. v - hi \in Int32 /\ v - lo \in Int32
    OBVIOUS
  <2> QED
    BY <1>1, <2>1, StoreConstants DEF Int32
<1>4. Overflowing(d) = {d}
  BY <1>3 DEF Overflowing
<1>5. /\ v >= a => a <= a + (d \div 4) /\ a + (d \div 4) <= v
      /\ v <= a => v <= a + (d \div 4) /\ a + (d \div 4) <= a
  BY <1>1, SmoothingStep
<1>6. a + (d \div 4) \in Int
  BY <1>1
<1>7. a + (d \div 4) \in Int32
  BY <1>1, <1>2, <1>5, <1>6, StoreConstants DEF Int32
<1>8. n = a + (d \div 4)
  BY <1>4, <1>7 DEF Averages, Overflowing
<1> QED
  BY <1>1, <1>5, <1>6, <1>8

\* Smoothing keeps an average that lies between readings between readings.
LEMMA AverageStep == TypeOK /\ AverageWithinReadings /\ [Next]_vars => AverageWithinReadings'
<1> SUFFICES ASSUME TypeOK, AverageWithinReadings, [Next]_vars,
                    \A x, y \in Values : x - y \in Int32,
                    NEW k \in Sessions \X Metrics, history'[k].have_average
             PROVE  \E x, y \in Values :
                      x <= history'[k].average /\ history'[k].average <= y
  BY DEF AverageWithinReadings
<1>1. ASSUME NEW s \in Sessions, NEW m \in Metrics, NEW v \in Values,
             NEW ts \in Stamps, Record(s, m, v, ts)
      PROVE  \E x, y \in Values :
               x <= history'[k].average /\ history'[k].average <= y
  <2> DEFINE h == history[<<s, m>>]
  <2>1. PICK n \in Averages(h, v) : RecordedAs(s, m, v, ts, n)
    BY <1>1, RecordEffect
  <2>2. h \in DeviceHistory
    BY DEF TypeOK
  <2>3. CASE k # <<s, m>>
    <3>1. history'[k] = history[k]
      BY <2>1, <2>3 DEF RecordedAs, TypeOK
    <3> QED
      BY <3>1 DEF AverageWithinReadings
  <2>4. CASE k = <<s, m>>
    <3>1. history'[k].average = n
      BY <2>1, <2>4 DEF RecordedAs, TypeOK, Written
    <3>2. CASE ~h.have_average
      <4>1. n = v /\ v \in Int
        BY <2>1, <3>2, StoreConstants DEF Averages, Int32
      <4> QED
        BY <3>1, <4>1
    <3>3. CASE h.have_average
      <4>1. PICK lo \in Values, hi \in Values : lo <= h.average /\ h.average <= hi
        BY <3>3 DEF AverageWithinReadings
      <4>2. \/ lo <= n /\ n <= v
            \/ v <= n /\ n <= hi
            \/ lo <= n /\ n <= hi
        BY <2>1, <2>2, <3>3, <4>1, AveragesBetween
      <4> QED
        BY <3>1, <4>2
    <3> QED
      BY <3>2, <3>3
  <2> QED
    BY <2>3, <2>4
<1>2. CASE UNCHANGED history
  BY <1>2 DEF AverageWithinReadings
<1> QED
  BY <1>1, <1>2, Zenon DEF Next, vars, LatchOffline, Ack, AddSubscriber,
     RemoveSubscriber, Tick

\* When no two readings are further apart than the integer type can hold, the
\* smoothed reading always lies between two readings that devices sent.
THEOREM AverageWithin == Spec => []AverageWithinReadings
<1>1. Init => AverageWithinReadings
  BY DEF Init, AverageWithinReadings, NewHistory
<1> QED
  BY <1>1, AverageStep, TypeCorrect, PTL DEF Spec

---------------------------------------------------------------------------
\* The ring buffer of proto/.

\* One element more.
LEMMA OneAdded ==
  ASSUME NEW S, NEW s \in Seq(S), NEW x \in S
  PROVE  LET t == Append(s, x)
         IN  /\ t \in Seq(S) /\ Len(t) = Len(s) + 1 /\ t # <<>>
             /\ t[Len(s) + 1] = x /\ \A i \in 1..Len(s) : t[i] = s[i]
OBVIOUS

\* All but the first element.
LEMMA Rest ==
  ASSUME NEW S, NEW s \in Seq(S), s # <<>>
  PROVE  /\ Len(s) - 1 \in Nat /\ Tail(s) \in Seq(S) /\ Len(Tail(s)) = Len(s) - 1
         /\ \A i \in 1..(Len(s) - 1) : Tail(s)[i] = s[i + 1]
OBVIOUS

\* A multiple of the capacity that lies strictly within a turn of 0 is 0.
LEMMA WithinTurn ==
  ASSUME NEW d \in Int, -Capacity < Capacity * d, Capacity * d < Capacity
  PROVE  d = 0
<1>1. Capacity \in Nat /\ Capacity > 0
  BY RingConstants
<1>2. ASSUME d >= 1 PROVE Capacity * d >= Capacity
  BY <1>1, <1>2
<1>3. ASSUME d <= -1 PROVE Capacity * d <= -Capacity
  BY <1>1, <1>3
<1>4. Capacity * d \in Int
  BY <1>1
<1> QED
  BY <1>1, <1>2, <1>3, <1>4

\* Where a count stands: its turn and its slot.
LEMMA Turn ==
  ASSUME NEW a \in Nat
  PROVE  /\ Slot(a) \in 0..(Capacity - 1)
         /\ a \div Capacity \in Int
         /\ a = Capacity * (a \div Capacity) + Slot(a)
BY RingConstants DEF Slot

\* A count and one a whole turn later share a slot.
LEMMA SameSlot ==
  ASSUME NEW a \in Nat
  PROVE  Slot(a + Capacity) = Slot(a)
<1> DEFINE b == a + Capacity
           q == a \div Capacity
           r == b \div Capacity
           d == r - q - 1
<1>1. Capacity \in Nat /\ Capacity > 0 /\ b \in Nat
  BY RingConstants
<1>2. /\ Slot(a) \in 0..(Capacity - 1) /\ q \in Int
      /\ Slot(b) \in 0..(Capacity - 1) /\ r \in Int
      /\ a = Capacity * q + Slot(a)
      /\ b = Capacity * r + Slot(b)
  BY <1>1, Turn, Zenon
<1>3. Capacity * d = Capacity * r - Capacity * q - Capacity
  BY <1>1, <1>2
<1>4. Capacity * d = Slot(a) - Slot(b)
  BY <1>1, <1>2, <1>3
<1>5. d = 0
  BY <1>1, <1>2, <1>4, WithinTurn
<1> QED
  BY <1>1, <1>2, <1>4, <1>5

\* Counts less than a turn apart do not.
LEMMA OtherSlot ==
  ASSUME NEW a \in Nat, NEW b \in Nat, a < b, b < a + Capacity
  PROVE  Slot(a) # Slot(b)
<1> DEFINE q == a \div Capacity
           r == b \div Capacity
           d == r - q
<1>1. Capacity \in Nat /\ Capacity > 0
  BY RingConstants
<1>2. /\ Slot(a) \in 0..(Capacity - 1) /\ q \in Int
      /\ Slot(b) \in 0..(Capacity - 1) /\ r \in Int
      /\ a = Capacity * q + Slot(a)
      /\ b = Capacity * r + Slot(b)
  BY Turn
<1>3. Capacity * d = Capacity * r - Capacity * q
  BY <1>1, <1>2
<1> SUFFICES ASSUME Slot(a) = Slot(b) PROVE FALSE
  OBVIOUS
<1>4. Capacity * d = b - a
  BY <1>1, <1>2, <1>3
<1>5. d = 0
  BY <1>1, <1>2, <1>4, WithinTurn
<1> QED
  BY <1>1, <1>2, <1>4, <1>5

\* A later view of head_ leaves at least as much room.
LEMMA Room ==
  ASSUME NEW t \in Nat, NEW h \in Nat, NEW k \in Nat, NEW c \in Nat,
         h <= k, t <= h + c - 1
  PROVE  /\ t <= k + c - 1
         /\ t + 1 # k + c => t < k + c - 1
OBVIOUS

\* Two ways to recognise a sequence: as what Append and as what Tail leave.
LEMMA IsAppend ==
  ASSUME NEW S, NEW s \in Seq(S), NEW e \in S, NEW f \in [1..(Len(s) + 1) -> S],
         \A i \in 1..Len(s) : f[i] = s[i], f[Len(s) + 1] = e
  PROVE  f = Append(s, e)
<1>1. f \in Seq(S) /\ Len(f) = Len(s) + 1
  OBVIOUS
<1>2. Append(s, e) \in Seq(S) /\ Len(Append(s, e)) = Len(s) + 1
  OBVIOUS
<1>3. \A i \in 1..Len(f) : f[i] = Append(s, e)[i]
  BY <1>1, OneAdded
<1> QED
  BY <1>1, <1>2, <1>3, SameElements

LEMMA IsTail ==
  ASSUME NEW S, NEW s \in Seq(S), s # <<>>, NEW f \in [1..(Len(s) - 1) -> S],
         \A i \in 1..(Len(s) - 1) : f[i] = s[i + 1]
  PROVE  f = Tail(s)
<1>1. Len(s) - 1 \in Nat
  BY Rest
<1>2. f \in Seq(S) /\ Len(f) = Len(s) - 1
  BY <1>1
<1>3. Tail(s) \in Seq(S) /\ Len(Tail(s)) = Len(s) - 1
  BY Rest
<1>4. \A i \in 1..Len(f) : f[i] = Tail(s)[i]
  BY <1>2, <1>3, Rest
<1> QED
  BY <1>2, <1>3, <1>4, SameElements

---------------------------------------------------------------------------
\* Where the indices and the views of them can be.  A view only lags behind,
\* so the producer sees less room than there is, the consumer fewer values;
\* what push() is about to make visible is in its slot already.
RingInv ==
  /\ slots \in [0..(Capacity - 1) -> Items]
  /\ head \in Nat /\ tail \in Nat /\ head_seen \in Nat /\ tail_seen \in Nat
  /\ producer \in {"idle", "write", "store"} /\ consumer \in {"idle", "read", "store"}
  /\ value \in Items /\ out \in Items
  /\ head_seen <= head /\ head <= tail_seen /\ tail_seen <= tail
  /\ tail <= head_seen + Capacity - 1
  /\ producer # "idle" => tail < head_seen + Capacity - 1
  /\ consumer # "idle" => head < tail_seen
  /\ producer = "store" => slots[Slot(tail)] = value

LEMMA RingInvInit == RingInit => RingInv
BY RingConstants DEF RingInit, RingInv

LEMMA RingInvNext == RingInv /\ [RingNext]_ringvars => RingInv'
<1> SUFFICES ASSUME RingInv, [RingNext]_ringvars PROVE RingInv'
  OBVIOUS
<1>0. Capacity \in Nat /\ Capacity > 1
  BY RingConstants
<1>1. ASSUME NEW v \in Items, PushLoad(v) PROVE RingInv'
  <2>1. head_seen' \in Nat /\ head_seen <= head_seen' /\ head_seen' <= head
    BY <1>1 DEF PushLoad, RingInv
  <2>2. UNCHANGED <<slots, head, tail, tail_seen, consumer, out>> /\ producer = "idle"
    BY <1>1 DEF PushLoad
  <2>3. head_seen \in Nat /\ tail \in Nat /\ tail <= head_seen + Capacity - 1
    BY DEF RingInv
  <2>4. tail <= head_seen' + Capacity - 1
    BY <1>0, <2>1, <2>3, Room, Zenon
  <2>5. CASE Filled(head_seen')
    <3>1. UNCHANGED <<producer, value>>
      BY <1>1, <2>5, Zenon DEF PushLoad
    <3> QED
      BY <2>1, <2>2, <2>4, <3>1 DEF RingInv
  <2>6. CASE ~Filled(head_seen')
    <3>1. tail + 1 # head_seen' + Capacity
      BY <2>1, <2>6, SameSlot, Zenon DEF Filled
    <3>2. tail < head_seen' + Capacity - 1
      BY <1>0, <2>1, <2>3, <2>4, <3>1, Room, Zenon
    <3>3. producer' = "write" /\ value' = v
      BY <1>1, <2>6, Zenon DEF PushLoad
    <3> QED
      BY <1>1, <2>1, <2>2, <2>4, <3>2, <3>3 DEF RingInv
  <2> QED
    BY <2>5, <2>6
<1>2. CASE PushWrite
  <2>1. Slot(tail) \in 0..(Capacity - 1)
    BY Turn DEF RingInv
  <2> QED
    BY <1>0, <1>2, <2>1 DEF PushWrite, RingInv
<1>3. CASE PushStore
  BY <1>0, <1>3 DEF PushStore, RingInv
<1>4. CASE PopLoad
  <2>1. tail_seen' \in Nat /\ tail_seen <= tail_seen' /\ tail_seen' <= tail
    BY <1>4 DEF PopLoad, RingInv
  <2>2. ~Emptied(tail_seen') => head # tail_seen'
    BY DEF Emptied
  <2> QED
    BY <1>0, <1>4, <2>1, <2>2 DEF PopLoad, RingInv
<1>5. CASE PopRead
  <2>1. Slot(head) \in 0..(Capacity - 1)
    BY Turn, Zenon DEF RingInv
  <2> QED
    BY <1>0, <1>5, <2>1 DEF PopRead, RingInv
<1>6. CASE PopStore
  BY <1>0, <1>6 DEF PopStore, RingInv
<1>7. CASE UNCHANGED ringvars
  BY <1>7 DEF ringvars, RingInv, Slot
<1> QED
  BY <1>1, <1>2, <1>3, <1>4, <1>5, <1>6, <1>7 DEF RingNext

LEMMA RingInvAlways == RingSpec => []RingInv
BY RingInvInit, RingInvNext, PTL DEF RingSpec

\* push() never writes the slot that pop() is reading, whatever the capacity
\* of the ring_buffer and however stale the indices the threads have loaded.
THEOREM Unraced == RingSpec => []NoRace
<1>1. RingInv => NoRace
  <2> SUFFICES ASSUME RingInv, producer = "write", consumer = "read"
               PROVE  Slot(tail) # Slot(head)
    BY DEF NoRace
  <2>1. /\ Capacity \in Nat /\ head \in Nat /\ tail \in Nat
        /\ head < tail /\ tail < head + Capacity
    BY RingConstants DEF RingInv
  <2> QED
    BY <2>1, OtherSlot
<1> QED
  BY <1>1, RingInvAlways, PTL

---------------------------------------------------------------------------
\* What each step does to the values inside.

LEMMA InsideSeq ==
  ASSUME RingInv
  PROVE  /\ First \in Nat /\ tail - First \in Nat
         /\ head <= First /\ First <= tail /\ tail < First + Capacity
         /\ Inside \in Seq(Items) /\ Len(Inside) = tail - First
<1>1. /\ First \in Nat /\ tail - First \in Nat
      /\ head <= First /\ First <= tail /\ tail < First + Capacity
  BY RingConstants DEF RingInv, First
<1>2. ASSUME NEW i \in 1..(tail - First)
      PROVE  slots[Slot(First + i - 1)] \in Items
  <2>1. First + i - 1 \in Nat
    BY <1>1
  <2> QED
    BY <2>1, Turn, Zenon DEF RingInv
<1>3. Inside \in [1..(tail - First) -> Items]
  BY <1>2 DEF Inside
<1> QED
  BY <1>1, <1>3 DEF Inside

LEMMA WriteInside ==
  ASSUME RingInv, PushWrite
  PROVE  Inside' = Inside
<1>1. First' = First /\ tail' = tail
  BY DEF PushWrite, First
<1>2. ASSUME NEW i \in 1..(tail - First)
      PROVE  slots'[Slot(First + i - 1)] = slots[Slot(First + i - 1)]
  <2> DEFINE k == First + i - 1
  <2>1. k \in Nat /\ tail \in Nat /\ k < tail /\ tail < k + Capacity
    <3>1. Capacity \in Nat /\ tail < head + Capacity - 1 /\ tail \in Nat /\ head \in Nat
      BY RingConstants DEF RingInv, PushWrite
    <3> QED
      BY <3>1, InsideSeq
  <2>2. Slot(k) # Slot(tail)
    BY <2>1, OtherSlot
  <2>3. Slot(k) \in 0..(Capacity - 1) /\ Slot(tail) \in 0..(Capacity - 1)
    BY <2>1, Turn
  <2> HIDE DEF k
  <2>4. slots'[Slot(k)] = slots[Slot(k)]
    BY <2>2, <2>3 DEF PushWrite, RingInv
  <2> QED
    BY <2>4 DEF k
<1>3. Inside' = [i \in 1..(tail - First) |-> slots'[Slot(First + i - 1)]]
  BY <1>1 DEF Inside, Slot
<1> QED
  BY <1>2, <1>3, Zenon DEF Inside

LEMMA StoreInside ==
  ASSUME RingInv, PushStore
  PROVE  Inside' = Append(Inside, value) /\ Len(Inside) < Capacity - 1
<1>1. First' = First /\ tail' = tail + 1 /\ slots' = slots
  BY DEF PushStore, First
<1>2. Inside' = [i \in 1..(tail' - First') |-> slots'[Slot(First' + i - 1)]]
  BY DEF Inside, Slot
<1>3. /\ First \in Nat /\ tail \in Nat /\ First <= tail
      /\ Inside \in Seq(Items) /\ Len(Inside) = tail - First
  BY InsideSeq DEF RingInv
<1>4. tail' - First' = Len(Inside) + 1
  BY <1>1, <1>3
<1>5. Inside' = [i \in 1..(Len(Inside) + 1) |-> slots[Slot(First + i - 1)]]
  BY <1>1, <1>2, <1>4, Zenon
<1>6. ASSUME NEW i \in 1..(Len(Inside) + 1)
      PROVE  /\ slots[Slot(First + i - 1)] \in Items
             /\ i # Len(Inside) + 1 => Inside[i] = slots[Slot(First + i - 1)]
             /\ i = Len(Inside) + 1 => slots[Slot(First + i - 1)] = value
  <2>1. First + i - 1 \in Nat
    BY <1>3
  <2>2. slots[Slot(First + i - 1)] \in Items
    BY <2>1, Turn, Zenon DEF RingInv
  <2>3. ASSUME i # Len(Inside) + 1 PROVE Inside[i] = slots[Slot(First + i - 1)]
    <3>1. i \in 1..(tail - First)
      BY <1>3, <2>3
    <3> QED
      BY <3>1 DEF Inside
  <2>4. ASSUME i = Len(Inside) + 1 PROVE slots[Slot(First + i - 1)] = value
    <3>1. First + i - 1 = tail
      BY <1>3, <2>4
    <3>2. slots[Slot(tail)] = value
      BY DEF PushStore, RingInv
    <3> QED
      BY <3>1, <3>2
  <2> QED
    BY <2>2, <2>3, <2>4
<1>7. /\ Inside' \in [1..(Len(Inside) + 1) -> Items]
      /\ \A i \in 1..Len(Inside) : Inside'[i] = Inside[i]
      /\ Inside'[Len(Inside) + 1] = value
  <2>1. Inside' \in [1..(Len(Inside) + 1) -> Items]
    BY <1>5, <1>6
  <2>2. ASSUME NEW i \in 1..Len(Inside) PROVE Inside'[i] = Inside[i]
    <3>1. i \in 1..(Len(Inside) + 1) /\ i # Len(Inside) + 1
      BY <1>3
    <3> QED
      BY <1>5, <1>6, <3>1, Zenon
  <2>3. Len(Inside) + 1 \in 1..(Len(Inside) + 1)
    BY <1>3
  <2>4. Inside'[Len(Inside) + 1] = value
    BY <1>5, <1>6, <2>3, Zenon
  <2> QED
    BY <2>1, <2>2, <2>4
<1>8. value \in Items
  BY DEF RingInv
<1>9. Inside' = Append(Inside, value)
  BY <1>3, <1>7, <1>8, IsAppend
<1>10. tail - First < Capacity - 1
  BY RingConstants, InsideSeq DEF RingInv, PushStore
<1> QED
  BY <1>3, <1>9, <1>10

LEMMA ReadInside ==
  ASSUME RingInv, PopRead
  PROVE  Inside # <<>> /\ Inside' = Tail(Inside) /\ out' = Head(Inside)
<1>1. First = head /\ First' = head + 1 /\ tail' = tail /\ slots' = slots
  BY DEF PopRead, First
<1>2. head < tail /\ head \in Nat /\ tail \in Nat
  BY DEF RingInv, PopRead
<1>3. Inside \in Seq(Items) /\ Len(Inside) = tail - head /\ Inside # <<>>
  BY <1>1, <1>2, InsideSeq
<1>4. Inside' = [i \in 1..(tail' - First') |-> slots'[Slot(First' + i - 1)]]
  BY DEF Inside, Slot
<1>5. tail - (head + 1) = Len(Inside) - 1
  BY <1>2, <1>3
<1>6. Inside' = [i \in 1..(Len(Inside) - 1) |-> slots[Slot(head + 1 + i - 1)]]
  BY <1>1, <1>4, <1>5, Zenon
<1>7. Inside[1] = slots[Slot(head)]
  <2>1. head + 1 - 1 = head /\ 1 \in 1..(tail - First)
    BY <1>1, <1>2
  <2> QED
    BY <1>1, <2>1 DEF Inside
<1>8. ASSUME NEW i \in 1..(Len(Inside) - 1)
      PROVE  /\ Inside[i + 1] = slots[Slot(head + 1 + i - 1)]
             /\ Inside[i + 1] \in Items
  <2>1. /\ i + 1 \in 1..(tail - First) /\ i + 1 \in 1..Len(Inside)
        /\ head + (i + 1) - 1 = head + 1 + i - 1
    BY <1>1, <1>2, <1>3
  <2>2. Inside[i + 1] = slots[Slot(head + (i + 1) - 1)]
    BY <1>1, <2>1 DEF Inside
  <2> QED
    BY <1>3, <2>1, <2>2
<1>9. /\ Inside' \in [1..(Len(Inside) - 1) -> Items]
      /\ \A i \in 1..(Len(Inside) - 1) : Inside'[i] = Inside[i + 1]
  BY <1>6, <1>8, Zenon
<1>10. Inside' = Tail(Inside)
  BY <1>3, <1>9, IsTail
<1> QED
  BY <1>3, <1>7, <1>10 DEF PopRead

\* The ring_buffer implements a bounded queue: the initial buffer is an empty
\* queue, the store of tail_ is its Push, the read of a slot its Pop, and no
\* other access to shared memory changes what is inside.
THEOREM RingRefinement == RingSpec => ImplementsFifo
<1>1. RingInit => Fifo!FifoInit
  BY RingConstants DEF RingInit, Fifo!FifoInit, Inside, First
<1>2. RingInv /\ [RingNext]_ringvars => [Fifo!FifoNext]_<<Inside, out>>
  <2> SUFFICES ASSUME RingInv, [RingNext]_ringvars
               PROVE  Fifo!FifoNext \/ UNCHANGED <<Inside, out>>
    OBVIOUS
  <2>1. ASSUME NEW v \in Items, PushLoad(v) PROVE UNCHANGED <<Inside, out>>
    BY <2>1 DEF PushLoad, Inside, First, Slot
  <2>2. CASE PushWrite
    BY <2>2, WriteInside DEF PushWrite
  <2>3. CASE PushStore
    <3>1. value \in Items
      BY DEF RingInv
    <3>2. Fifo!Push(value)
      BY <2>3, StoreInside DEF Fifo!Push, PushStore
    <3> QED
      BY <3>1, <3>2 DEF Fifo!FifoNext
  <2>4. CASE PopLoad
    BY <2>4 DEF PopLoad, Inside, First, Slot
  <2>5. CASE PopRead
    BY <2>5, ReadInside DEF Fifo!FifoNext, Fifo!Pop
  <2>6. CASE PopStore
    BY <2>6 DEF PopStore, Inside, First, Slot
  <2>7. CASE UNCHANGED ringvars
    BY <2>7 DEF ringvars, Inside, First, Slot
  <2> QED
    BY <2>1, <2>2, <2>3, <2>4, <2>5, <2>6, <2>7 DEF RingNext
<1> QED
  BY <1>1, <1>2, RingInvAlways, PTL DEF RingSpec, ImplementsFifo, Fifo!FifoSpec
=============================================================================
