------------------------------- MODULE System -------------------------------
(***************************************************************************)
(* The server of module Server with the devices at the other end of its    *)
(* connections: who sends which frame when, what of it arrives, and what   *)
(* becomes of the rate a device is told.                                   *)
(*                                                                         *)
(* A device is the firmware as its tasks show it on the line: HELLO once,  *)
(* then a heartbeat whenever kHeartbeatInterval is over, and samples.      *)
(* Frames keep their order; some are lost, as module Node finds: never the *)
(* HELLO, any sample, and a heartbeat that breaks into a sample.  Frames   *)
(* to the device are not lost.  Time is in the server's ticks.             *)
(***************************************************************************)
EXTENDS Server, Sequences

CONSTANTS
  kHeartbeatInterval, \* 2000 ms
  Jitter,             \* how much later than due a heartbeat may be sent
  Latency,            \* how long a frame is under way at most
  MaxLost,            \* heartbeats lost in a row
  MaxBehind,          \* frames CommandTask has yet to read when time passes
  DefaultRate         \* DeviceConfig::sample_rate_hz before any CONFIG

ASSUME SystemConstants ==
  /\ kHeartbeatInterval \in Nat \ {0}
  /\ {Jitter, Latency, MaxLost, MaxBehind, DefaultRate} \subseteq Nat
  /\ DefaultRate \in Rates
  /\ (MaxLost + 1) * (kHeartbeatInterval + Jitter) + Latency <= kDeviceTimeout

VARIABLES
  power,          \* of the device behind a descriptor: "off", "on" or "dead"
  since,          \* time since its last_heartbeat
  sample_rate_hz, \* its DeviceConfig
  connected,      \* its SessionState
  uplink,         \* frames under way to the server, with their age
  downlink,       \* CONFIG and SLOW_DOWN frames under way to it
  lost            \* heartbeats lost in a row

devices == <<power, since, sample_rate_hz, connected, uplink, downlink, lost>>
sysvars == <<vars, devices>>

SysInit ==
  /\ Init
  /\ power = [fd \in Fds |-> "off"]
  /\ since = [fd \in Fds |-> 0]
  /\ sample_rate_hz = [fd \in Fds |-> DefaultRate]
  /\ connected = [fd \in Fds |-> FALSE]
  /\ uplink = [fd \in Fds |-> <<>>]
  /\ downlink = [fd \in Fds |-> <<>>]
  /\ lost = [fd \in Fds |-> 0]

---------------------------------------------------------------------------
\* The device.

\* transmit_frame(); nobody reads what goes to a connection that has ended.
Put(fd, type) ==
  uplink' = [uplink EXCEPT ![fd] =
               IF closed[fd] THEN @ ELSE Append(@, [type |-> type, age |-> 0])]

\* The device starts, its connection is accepted, and SendHello().
Boot(fd) ==
  /\ AcceptDevice(fd)
  /\ power' = [power EXCEPT ![fd] = "on"]
  /\ Put(fd, "kHello")
  /\ UNCHANGED <<since, sample_rate_hz, connected, downlink, lost>>

\* SendHeartbeat().
Beat(fd) ==
  /\ power[fd] = "on" /\ since[fd] >= kHeartbeatInterval
  /\ since' = [since EXCEPT ![fd] = 0]
  /\ Put(fd, "kHeartbeat")
  /\ UNCHANGED <<vars, power, sample_rate_hz, connected, downlink, lost>>

\* A sample; one is under way at a time.
Take(fd) ==
  /\ power[fd] = "on"
  /\ \A i \in DOMAIN uplink[fd] : uplink[fd][i].type # "kSample"
  /\ Put(fd, "kSample")
  /\ UNCHANGED <<vars, power, since, sample_rate_hz, connected, downlink, lost>>

\* Mutant: the rate of a CONFIG alone is applied.
ApplyConfigOnly(fd) ==
  /\ power[fd] = "on" /\ downlink[fd] # <<>>
  /\ LET frame == Head(downlink[fd])
     IN  /\ sample_rate_hz' = [sample_rate_hz EXCEPT ![fd] =
                                 IF frame.type = "kConfig" THEN frame.rate ELSE @]
         /\ connected' = [connected EXCEPT ![fd] = @ \/ frame.type = "kConfig"]
  /\ downlink' = [downlink EXCEPT ![fd] = Tail(@)]
  /\ UNCHANGED <<vars, power, since, uplink, lost>>

\* CommandTask applies a CONFIG or SLOW_DOWN.
Apply(fd) ==
  /\ power[fd] = "on" /\ downlink[fd] # <<>>
  /\ LET frame == Head(downlink[fd])
     IN  /\ sample_rate_hz' = [sample_rate_hz EXCEPT ![fd] = frame.rate]
         /\ connected' = [connected EXCEPT ![fd] = @ \/ frame.type = "kConfig"]
  /\ downlink' = [downlink EXCEPT ![fd] = Tail(@)]
  /\ UNCHANGED <<vars, power, since, uplink, lost>>

\* The device stops without a word; its connection stays open.
Die(fd) ==
  /\ power[fd] = "on"
  /\ power' = [power EXCEPT ![fd] = "dead"]
  /\ downlink' = [downlink EXCEPT ![fd] = <<>>]
  /\ UNCHANGED <<vars, since, sample_rate_hz, connected, uplink, lost>>

---------------------------------------------------------------------------
\* The line.

Lose(fd) ==
  /\ uplink[fd] # <<>>
  /\ \/ Head(uplink[fd]).type = "kSample" /\ UNCHANGED lost
     \/ /\ Head(uplink[fd]).type = "kHeartbeat" /\ lost[fd] < MaxLost
        /\ lost' = [lost EXCEPT ![fd] = @ + 1]
  /\ uplink' = [uplink EXCEPT ![fd] = Tail(@)]
  /\ UNCHANGED <<vars, power, since, sample_rate_hz, connected, downlink>>

\* Mutant: a device that had no session before is not written to.
SentInSession(fd, type) ==
  IF power[fd] = "on" /\ ~closed[fd] /\ session[fd]
  THEN Append(downlink[fd], [type |-> type, rate |-> told'[fd]]) ELSE downlink[fd]

\* send_frame() to the device of fd; nobody reads it of a dead one.
Sent(fd, type) ==
  IF power[fd] = "on" /\ ~closed[fd]
  THEN Append(downlink[fd], [type |-> type, rate |-> told'[fd]]) ELSE downlink[fd]

\* A frame arrives, and dispatch() hands it to its handler.
Deliver(fd) ==
  /\ uplink[fd] # <<>>
  /\ uplink' = [uplink EXCEPT ![fd] = Tail(@)]
  /\ LET type == Head(uplink[fd]).type
     IN  \/ /\ type = "kHello" /\ Hello(fd, DefaultRate)
            /\ downlink' = [downlink EXCEPT ![fd] = Sent(fd, "kConfig")]
            /\ UNCHANGED lost
         \/ /\ type = "kHeartbeat" /\ Heartbeat(fd)
            /\ lost' = [lost EXCEPT ![fd] = 0]
            /\ UNCHANGED downlink
         \/ /\ type = "kSample" /\ Sample(fd)
            /\ UNCHANGED <<downlink, lost>>
  /\ UNCHANGED <<power, since, sample_rate_hz, connected>>

\* The server sees the connection of a device or a subscriber end; what was
\* under way is lost with it.
Cut(fd) ==
  /\ PeerCloses(fd)
  /\ uplink' = [uplink EXCEPT ![fd] = <<>>]
  /\ downlink' = [downlink EXCEPT ![fd] = <<>>]
  /\ UNCHANGED <<power, since, sample_rate_hz, connected, lost>>

---------------------------------------------------------------------------
\* The server's own steps.

Serve ==
  /\ \/ \E fd \in Fds : AcceptSubscriber(fd) \/ Drain(fd)
     \/ \E fd \in Fds, s \in Ids : Ack(fd, s)
  /\ UNCHANGED devices

\* SLOW_DOWN frames go out; the devices of destroyed slots are forgotten.
Sweep ==
  /\ Housekeeping
  /\ LET Keep(f, reset) == [fd \in Fds |-> IF fd \in Evicted THEN reset ELSE f[fd]]
     IN  /\ power' = Keep(power, "off")
         /\ since' = Keep(since, 0)
         /\ sample_rate_hz' = Keep(sample_rate_hz, DefaultRate)
         /\ connected' = Keep(connected, FALSE)
         /\ uplink' = Keep(uplink, <<>>)
         /\ lost' = Keep(lost, 0)
         /\ downlink' = [fd \in Fds |-> CASE fd \in Evicted -> <<>>
                                          [] fd \in Slowed -> Sent(fd, "kSlowDown")
                                          [] OTHER -> downlink[fd]]

\* Time passes: a heartbeat is sent within Jitter of its time, a frame arrives
\* within Latency, and CommandTask, which polls the UART every 10 ms, keeps up.
Pass ==
  /\ Tick
  /\ \A fd \in Fds :
       /\ power[fd] = "on" => /\ since[fd] < kHeartbeatInterval + Jitter
                              /\ Len(downlink[fd]) <= MaxBehind
       /\ \A i \in DOMAIN uplink[fd] : uplink[fd][i].age < Latency
  /\ since' = [fd \in Fds |-> IF power[fd] = "on" THEN since[fd] + 1 ELSE since[fd]]
  /\ uplink' = [fd \in Fds |->
                  [i \in DOMAIN uplink[fd] |-> [uplink[fd][i] EXCEPT !.age = @ + 1]]]
  /\ UNCHANGED <<power, sample_rate_hz, connected, downlink, lost>>

SysNext ==
  \/ \E fd \in Fds : \/ Boot(fd) \/ Beat(fd) \/ Take(fd) \/ Apply(fd) \/ Die(fd)
                     \/ Lose(fd) \/ Deliver(fd) \/ Cut(fd)
  \/ Serve \/ Sweep \/ Pass

\* Frames arrive or are lost and are read, and the sweep is made; time does
\* not stop for them (strong fairness: it waits for a frame that has to arrive
\* first).  A device may stop and a connection may end, but need not.
SysSpec ==
  /\ SysInit /\ [][SysNext]_sysvars
  /\ \A fd \in Fds : /\ WF_sysvars(Deliver(fd) \/ Lose(fd))
                     /\ WF_sysvars(Apply(fd)) /\ WF_sysvars(Beat(fd))
  /\ WF_sysvars(Sweep) /\ SF_sysvars(Pass)

---------------------------------------------------------------------------
\* Properties.

Alive(fd) == power[fd] = "on" /\ ~closed[fd]

\* main.cpp at kDeviceTimeout: one delayed or dropped heartbeat must not evict
\* a device that is still alive.  No device that runs and whose connection is
\* open loses its session, however late its heartbeats are sent and its frames
\* arrive within the bounds, although the sweep may come just before one.
LiveKept ==
  [][\A fd \in Fds : Alive(fd) /\ InSession(fd) => InSession(fd)']_sysvars

\* The rate a device has been told last, or will have when the frames under
\* way have arrived, is the one its session holds: the sweep halves what the
\* device really does, although it never asks.
RateFollowed ==
  \A fd \in Fds : InSession(fd) /\ Alive(fd) =>
    LET d == downlink[fd]
    IN  rate[fd] = IF d = <<>> THEN sample_rate_hz[fd] ELSE d[Len(d)].rate

\* A device that stops without a word or is cut off is reported: its OFFLINE
\* alert opens, although frames it had sent are still to arrive, and although
\* connection::closed_ and the clock are only looked at by the sweep.
MissingReported ==
  \A fd \in Fds, s \in Ids :
    (~Alive(fd) /\ InSession(fd) /\ id[fd] = s) ~> (s \in offline)

\* A device that starts is configured, unless it stops or is cut off: HELLO
\* is sent once, so its one copy has to do.
Served ==
  \A fd \in Fds :
    power[fd] = "on" ~>
      \/ ~Alive(fd)
      \/ InSession(fd) /\ connected[fd]

\* A subscriber that stays congested brings every device that stays down to
\* 1 Hz and no further, in its own configuration and not in the server's books
\* only.
DevicesThrottled ==
  \A fd \in Fds :
    <>[](Alive(fd) /\ InSession(fd) /\ Pressure) => <>[](sample_rate_hz[fd] = 1)
=============================================================================
