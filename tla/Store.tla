------------------------------- MODULE Store -------------------------------
(***************************************************************************)
(* server::store: the sample history, the smoothed readings, the latched   *)
(* alerts and the subscribers they are published to.                       *)
(*                                                                         *)
(* The server is single-threaded, so every public operation is one step.   *)
(* Of what the store pushes into a subscriber object this module keeps the *)
(* last alert line per session.  The live feed, which record() offers to   *)
(* every subscriber and each filters by its own subscription, changes no   *)
(* state of the store: module Feed has it.                                 *)
(***************************************************************************)
EXTENDS Integers, Sequences

CONSTANTS
  Sessions,            \* session ids (uint16_t)
  Metrics,             \* metric ids (uint8_t)
  kTempMetricId,       \* the one metric with a threshold
  Values,              \* readings the devices send
  Stamps,              \* device timestamps
  SubscriberIds,       \* subscriber objects
  None,                \* no line sent
  kHistoryPerDevice,   \* ring capacity, 64 in the code
  kHighThresholdMilli, \* excursion threshold, 5500 in the code
  MinInt, MaxInt,      \* range of std::int32_t
  MaxNow               \* bound on the server clock

Int32 == MinInt..MaxInt

ASSUME StoreConstants ==
  /\ kTempMetricId \in Metrics
  /\ MinInt \in Int /\ MaxInt \in Int /\ MinInt <= 0 /\ 0 <= MaxInt
  /\ Values \subseteq Int32
  /\ Stamps \subseteq Nat
  /\ kHistoryPerDevice \in Nat \ {0}
  /\ kHighThresholdMilli \in Int
  /\ MaxNow \in Nat

VARIABLES
  history,       \* history_, an absent entry being a fresh device_history
  excursion,     \* alerts_[s].excursion, likewise
  offline,       \* alerts_[s].offline
  subscribers,   \* subscribers_
  toldExcursion, \* the last ALERT EXCURSION line, per subscriber and session
  toldOffline,   \* the last ALERT OFFLINE line
  acked,         \* the last ack_result returned for each session
  now            \* steady_clock

vars == <<history, excursion, offline, subscribers, toldExcursion,
          toldOffline, acked, now>>

---------------------------------------------------------------------------
\* The sample ring and the moving average of one (session, metric).

Sample == [timestamp : Stamps \cup {0}, value : Values \cup {0}]

DeviceHistory ==
  [entries : [0..(kHistoryPerDevice - 1) -> Sample],
   count : 0..kHistoryPerDevice, next : 0..(kHistoryPerDevice - 1),
   have_average : BOOLEAN, average : Int32]

NewHistory ==
  [entries      |-> [i \in 0..(kHistoryPerDevice - 1) |-> [timestamp |-> 0, value |-> 0]],
   count        |-> 0,
   next         |-> 0,
   have_average |-> FALSE,
   average      |-> 0]

\* Mutant: the write index stops at the last slot instead of wrapping.
WrittenNoWrap(h, sample, average) ==
  [entries      |-> [h.entries EXCEPT ![h.next] = sample],
   count        |-> IF h.count < kHistoryPerDevice THEN h.count + 1 ELSE h.count,
   next         |-> IF h.next + 1 < kHistoryPerDevice THEN h.next + 1 ELSE h.next,
   have_average |-> TRUE,
   average      |-> average]

\* record(), the ring (the oldest slot is overwritten once it is full) and
\* the new average.
Written(h, sample, average) ==
  [entries      |-> [h.entries EXCEPT ![h.next] = sample],
   count        |-> IF h.count < kHistoryPerDevice THEN h.count + 1 ELSE h.count,
   next         |-> (h.next + 1) % kHistoryPerDevice,
   have_average |-> TRUE,
   average      |-> average]

\* store::history(): the samples, oldest first.
Oldest(h) == IF h.count < kHistoryPerDevice THEN 0 ELSE h.next

History(h) ==
  [i \in 1..h.count |-> h.entries[(Oldest(h) + i - 1) % kHistoryPerDevice]]

\* Signed overflow is undefined: any value of the type may come out.
Overflowing(x) == IF x \in Int32 THEN {x} ELSE Int32

\* Mutant: the difference is shifted as an unsigned value.
AveragesUnsigned(h, v) ==
  IF h.have_average
  THEN UNION {Overflowing(h.average + ((d % (MaxInt - MinInt + 1)) \div 4)) :
                d \in Overflowing(v - h.average)}
  ELSE {v}

\* record(), the EMA: ">> 2" on a signed value rounds towards minus infinity.
Averages(h, v) ==
  IF h.have_average
  THEN UNION {Overflowing(h.average + (d \div 4)) : d \in Overflowing(v - h.average)}
  ELSE {v}

---------------------------------------------------------------------------
\* Alerts.

NoAlert == [active |-> FALSE, value |-> 0, timestamp |-> 0, triggered_at |-> 0]

Alert == [active : BOOLEAN, value : Int32, timestamp : Stamps \cup {0},
          triggered_at : Nat]

\* The ALERT line a subscriber is sent for alert a.
Line(a) == [value |-> a.value, timestamp |-> a.timestamp]

AlertLine == [value : Int32, timestamp : Stamps \cup {0}]

NoLines == [s \in Sessions |-> None]

\* Mutant: nothing is sent on registration.
ReplayNothing(alerts) == NoLines

\* add_subscriber(): every alert already active, to the new subscriber alone.
Replay(alerts) ==
  [s \in Sessions |-> IF alerts[s].active THEN Line(alerts[s]) ELSE None]

\* notify_excursion(), notify_offline(): a line to every subscriber.
Notified(told, s, a) ==
  [sub \in SubscriberIds |->
     IF sub \in subscribers THEN [told[sub] EXCEPT ![s] = Line(a)] ELSE told[sub]]

AckResult ==
  [had_excursion : BOOLEAN, excursion_duration : Int,
   excursion_still_active : BOOLEAN,
   had_offline : BOOLEAN, offline_duration : Int]

NoAck == [had_excursion |-> FALSE, excursion_duration |-> 0,
          excursion_still_active |-> FALSE,
          had_offline |-> FALSE, offline_duration |-> 0]

---------------------------------------------------------------------------
Init ==
  /\ history = [k \in Sessions \X Metrics |-> NewHistory]
  /\ excursion = [s \in Sessions |-> NoAlert]
  /\ offline = [s \in Sessions |-> NoAlert]
  /\ subscribers = {}
  /\ toldExcursion = [sub \in SubscriberIds |-> NoLines]
  /\ toldOffline = [sub \in SubscriberIds |-> NoLines]
  /\ acked = [s \in Sessions |-> NoAck]
  /\ now = 0

\* Mutant: the average before this sample is compared.
LatchesStale(s, m, average) ==
  /\ m = kTempMetricId
  /\ history[<<s, m>>].average > kHighThresholdMilli
  /\ ~excursion[s].active

\* Mutant: every hot sample restarts the alert.
LatchesAgain(s, m, average) ==
  /\ m = kTempMetricId
  /\ average > kHighThresholdMilli

\* record(): does this sample open a new excursion?
Latches(s, m, average) ==
  /\ m = kTempMetricId
  /\ average > kHighThresholdMilli
  /\ ~excursion[s].active

Record(s, m, v, ts) ==
  \E average \in Averages(history[<<s, m>>], v) :
    /\ history' =
         [history EXCEPT ![<<s, m>>] =
            Written(@, [timestamp |-> ts, value |-> v], average)]
    /\ IF Latches(s, m, average)
       THEN LET a == [active |-> TRUE, value |-> average, timestamp |-> ts,
                      triggered_at |-> now]
            IN  /\ excursion' = [excursion EXCEPT ![s] = a]
                /\ toldExcursion' = Notified(toldExcursion, s, a)
       ELSE UNCHANGED <<excursion, toldExcursion>>
    /\ UNCHANGED <<offline, subscribers, toldOffline, acked, now>>

\* latch_offline(): idempotent while the alert is active.
LatchOffline(s, ts) ==
  /\ IF offline[s].active
     THEN UNCHANGED <<offline, toldOffline>>
     ELSE LET a == [active |-> TRUE, value |-> 0, timestamp |-> ts,
                    triggered_at |-> now]
          IN  /\ offline' = [offline EXCEPT ![s] = a]
              /\ toldOffline' = Notified(toldOffline, s, a)
  /\ UNCHANGED <<history, excursion, subscribers, toldExcursion, acked, now>>

\* Mutant: an acknowledged excursion closes whatever the reading.
RecoveredAlways(s) == TRUE

\* ack(): has the smoothed temperature come back under the threshold?
Recovered(s) ==
  /\ history[<<s, kTempMetricId>>].have_average
  /\ history[<<s, kTempMetricId>>].average <= kHighThresholdMilli

\* ack(): the ack_result, taken before anything closes.
AckReport(s) ==
  [had_excursion |-> excursion[s].active,
   excursion_duration |->
     IF excursion[s].active THEN now - excursion[s].triggered_at ELSE 0,
   excursion_still_active |-> excursion[s].active /\ ~Recovered(s),
   had_offline |-> offline[s].active,
   offline_duration |->
     IF offline[s].active THEN now - offline[s].triggered_at ELSE 0]

Ack(s) ==
  /\ acked' = [acked EXCEPT ![s] = AckReport(s)]
  /\ offline' = [offline EXCEPT ![s].active = FALSE]
  /\ excursion' = IF excursion[s].active /\ Recovered(s)
                  THEN [excursion EXCEPT ![s].active = FALSE]
                  ELSE excursion
  /\ UNCHANGED <<history, subscribers, toldExcursion, toldOffline, now>>

\* add_subscriber(), of a subscriber just constructed.
AddSubscriber(sub) ==
  /\ sub \notin subscribers
  /\ subscribers' = subscribers \cup {sub}
  /\ toldExcursion' = [toldExcursion EXCEPT ![sub] = Replay(excursion)]
  /\ toldOffline' = [toldOffline EXCEPT ![sub] = Replay(offline)]
  /\ UNCHANGED <<history, excursion, offline, acked, now>>

RemoveSubscriber(sub) ==
  /\ sub \in subscribers
  /\ subscribers' = subscribers \ {sub}
  /\ UNCHANGED <<history, excursion, offline, toldExcursion, toldOffline,
                 acked, now>>

Tick ==
  /\ now < MaxNow
  /\ now' = now + 1
  /\ UNCHANGED <<history, excursion, offline, subscribers, toldExcursion,
                 toldOffline, acked>>

Next ==
  \/ \E s \in Sessions, m \in Metrics, v \in Values, ts \in Stamps : Record(s, m, v, ts)
  \/ \E s \in Sessions, ts \in Stamps : LatchOffline(s, ts)
  \/ \E s \in Sessions : Ack(s)
  \/ \E sub \in SubscriberIds : AddSubscriber(sub)
  \/ \E sub \in SubscriberIds : RemoveSubscriber(sub)
  \/ Tick

Spec == Init /\ [][Next]_vars

---------------------------------------------------------------------------
\* Properties.

\* Every variable keeps the type store.hpp gives it.
TypeOK ==
  /\ history \in [Sessions \X Metrics -> DeviceHistory]
  /\ excursion \in [Sessions -> Alert]
  /\ offline \in [Sessions -> Alert]
  /\ subscribers \subseteq SubscriberIds
  /\ toldExcursion \in [SubscriberIds -> [Sessions -> AlertLine \cup {None}]]
  /\ toldOffline \in [SubscriberIds -> [Sessions -> AlertLine \cup {None}]]
  /\ acked \in [Sessions -> AckResult]
  /\ now \in 0..MaxNow

\* The session's smoothed temperature is above the threshold.
Hot(s) ==
  /\ history[<<s, kTempMetricId>>].have_average
  /\ history[<<s, kTempMetricId>>].average > kHighThresholdMilli

\* A device whose smoothed temperature is above the threshold has an active
\* excursion alert, whatever has been recorded and acknowledged before:
\* record() latches on crossing and ack() refuses to close while hot.
ExcursionNeverSilent == \A s \in Sessions : Hot(s) => excursion[s].active

\* Every registered subscriber's latest alert line for a session describes
\* the alert that is active now: record() and latch_offline() notify everyone,
\* and add_subscriber() replays to those who come later.
EveryoneTold ==
  \A sub \in subscribers, s \in Sessions :
    /\ excursion[s].active => toldExcursion[sub][s] = Line(excursion[s])
    /\ offline[s].active => toldOffline[sub][s] = Line(offline[s])

\* Without signed overflow the smoothed reading never leaves the range of the
\* readings it smooths, although ">> 2" rounds negative differences down.
AverageWithinReadings ==
  (\A v, w \in Values : v - w \in Int32) =>
    \A k \in Sessions \X Metrics :
      history[k].have_average =>
        \E v, w \in Values : v <= history[k].average /\ history[k].average <= w

\* How a step may change an active alert: an excursion only by an ack() that
\* found the smoothed temperature recovered, OFFLINE only by an ack().
LatchStep ==
  \A s \in Sessions :
    /\ excursion[s].active /\ excursion'[s] # excursion[s] =>
         /\ excursion'[s] = [excursion[s] EXCEPT !.active = FALSE]
         /\ ~Hot(s) /\ history' = history
         /\ acked'[s].had_excursion /\ ~acked'[s].excursion_still_active
    /\ offline[s].active /\ offline'[s] # offline[s] =>
         /\ offline'[s] = [offline[s] EXCEPT !.active = FALSE]
         /\ acked'[s].had_offline

\* An active alert keeps its value, stamp and start until it is acknowledged:
\* record() and latch_offline() return early, ack() closes no hot excursion.
LatchedUntilAcked == [][LatchStep]_vars

\* How the report on an ongoing excursion may change.
AckStep ==
  \A s \in Sessions :
    acked[s].excursion_still_active /\ acked'[s] # acked[s] =>
      /\ acked'[s].had_excursion
      /\ acked'[s].excursion_duration >= acked[s].excursion_duration

\* An operator who acknowledges an ongoing excursion again is told a duration
\* at least as long as before: nothing restarts triggered_at meanwhile
\* (store.hpp, the contract of ack).
AckDurationGrows == [][AckStep]_vars

\* history() returns the most recent samples of its key, oldest first.
Recent == INSTANCE RecentSamples WITH
  Keys <- Sessions \X Metrics,
  SampleSet <- [timestamp : Stamps, value : Values],
  Capacity <- kHistoryPerDevice,
  recent <- [k \in Sessions \X Metrics |-> History(history[k])]

\* The ring buffer of record() and history() implements RecentSamples.
HistoryIsRecentSamples == Recent!Spec

\* The active alerts whose current latch a subscriber's last line describes.
Knows(sub) ==
  {<<"excursion", s>> : s \in {t \in Sessions : excursion[t].active
                                 /\ toldExcursion[sub][t] = Line(excursion[t])}}
  \cup
  {<<"offline", s>> : s \in {t \in Sessions : offline[t].active
                                 /\ toldOffline[sub][t] = Line(offline[t])}}

HotNow == {s \in Sessions : Hot(s)}
Excursions == {s \in Sessions : excursion[s].active}
Offlines == {s \in Sessions : offline[s].active}
Known == [sub \in SubscriberIds |-> IF sub \in subscribers THEN Knows(sub) ELSE {}]

Board == INSTANCE AlertBoard WITH
  Watchers <- SubscriberIds, hot <- HotNow, excursion <- Excursions,
  offline <- Offlines, watching <- subscribers, knows <- Known

\* The store implements the alert board: alerts open, stay open and close as
\* store.hpp promises, and every watcher always knows exactly the open ones.
ImplementsAlertBoard == Board!Spec
=============================================================================
