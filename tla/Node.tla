-------------------------------- MODULE Node --------------------------------
(***************************************************************************)
(* The device: SensorTask, CommandTask and TelemetryTask under a           *)
(* preemptive fixed-priority scheduler, the mutex and the queue between    *)
(* them, and the UART they share, down to the check and the store of       *)
(* write_byte().  What arrives at the other end of the line is judged the  *)
(* way a frame_parser judges it: a run of bytes up to a delimiter is a     *)
(* frame or it is dropped.                                                 *)
(*                                                                         *)
(* Delays are untimed: a sleeping task may wake at any moment.  A reading  *)
(* is its index, a frame its type and a number, a byte its frame and its   *)
(* place in it; the last byte of a frame is the delimiter.                 *)
(***************************************************************************)
EXTENDS Integers, Sequences, FiniteSets, FiniteSetsExt

CONSTANTS
  kQueueCapacity,  \* readings the queue holds
  FrameSize,       \* bytes of a frame, the delimiter included
  Rates,           \* sample rates the server may ask for
  DefaultRate,     \* sample_rate_hz before any CONFIG
  MaxReadings,     \* bound on readings taken
  MaxHeartbeats,   \* bound on heartbeats sent
  MaxArrivals      \* bound on bytes that arrive

ASSUME NodeConstants ==
  /\ kQueueCapacity \in Nat \ {0}
  /\ FrameSize \in Nat \ {0, 1}
  /\ Rates \subseteq Nat /\ DefaultRate \in Nat
  /\ {MaxReadings, MaxHeartbeats, MaxArrivals} \subseteq Nat

VARIABLES
  pc,             \* where each task is
  mutex,          \* the task that holds config_mutex, or "free"
  sample_rate_hz, \* pipeline.config
  rate_hz,        \* SensorTask's copy of it
  sample_index,   \* readings taken so far
  reading_queue,
  reading,        \* TelemetryTask's reading
  message,        \* the frame a task is writing
  written,        \* how many of its bytes it has stored
  due,            \* kHeartbeatInterval has passed since last_heartbeat
  heartbeats,     \* heartbeats begun
  command,        \* the rate in the frame CommandTask has parsed
  data,           \* the UART's transmit buffer: a byte or none
  rx,             \* its receive buffer: what push_byte() makes of the byte
  arrivals,
  run,            \* bytes on the line since the last delimiter
  delivered,      \* frames the other end accepts, in order
  waited          \* SensorTask has had to wait for room in this cycle

sampling == <<rate_hz, sample_index, waited>>
commanding == <<due, heartbeats, command>>
writing == <<message, written>>
line == <<data, run, delivered>>
receiving == <<rx, arrivals>>
vars == <<pc, mutex, sample_rate_hz, reading_queue, reading,
          sampling, commanding, writing, line, receiving>>

Task == {"sensor", "command", "telemetry"}
Writer == {"command", "telemetry"}

---------------------------------------------------------------------------
\* The scheduler.

\* Mutant: sensor_task is given the lowest priority.
BaseSensorLow == [sensor |-> 1, command |-> 3, telemetry |-> 2]

\* Mutant: command_task is given a lower priority than telemetry_task.
BaseSwapped == [sensor |-> 3, command |-> 1, telemetry |-> 2]

Base == [sensor |-> 3, command |-> 2, telemetry |-> 1]

Blocked(t) ==
  \/ pc[t] = "sleep"
  \/ pc[t] = "lock" /\ mutex # "free"
  \/ pc[t] = "send" /\ Len(reading_queue) = kQueueCapacity
  \/ pc[t] = "receive" /\ reading_queue = <<>>

\* Mutant: a plain semaphore, which hands no priority on.
PriorityPlain(t) == Base[t]

\* A FreeRTOS mutex hands the priority of the tasks that wait to its owner.
Priority(t) ==
  LET waiting == {u \in Task : mutex = t /\ pc[u] = "lock"}
  IN  Max({Base[u] : u \in waiting \union {t}})

\* A task that polls the UART is running, and keeps the others from it.
Runs(t) ==
  /\ ~Blocked(t)
  /\ \A u \in Task \ {t} : ~Blocked(u) => Priority(u) < Priority(t)

Goto(t, label) == pc' = [pc EXCEPT ![t] = label]

---------------------------------------------------------------------------
\* os::Mutex::Guard.

Take(t, label) ==
  /\ pc[t] = "lock" /\ Runs(t)
  /\ mutex' = t
  /\ Goto(t, label)

Give(t, label) ==
  /\ mutex' = "free"
  /\ Goto(t, label)

---------------------------------------------------------------------------
\* UartCmsdk::write() of a frame.

Begin(t, type, number) ==
  /\ message' = [message EXCEPT ![t] = <<type, number>>]
  /\ written' = [written EXCEPT ![t] = 0]

\* Mutant: DATA is stored without a look at TXBF.
CheckNot(t) ==
  /\ pc[t] = "check" /\ Runs(t)
  /\ Goto(t, "store")
  /\ UNCHANGED <<mutex, sample_rate_hz, reading_queue, reading,
                 sampling, commanding, writing, line, receiving>>

\* write_byte() has seen TXBF clear.
Check(t) ==
  /\ pc[t] = "check" /\ Runs(t)
  /\ data = <<>>
  /\ Goto(t, "store")
  /\ UNCHANGED <<mutex, sample_rate_hz, reading_queue, reading,
                 sampling, commanding, writing, line, receiving>>

\* DATA = byte.  In a full buffer one of the two bytes is lost.
Store(t) ==
  /\ pc[t] = "store" /\ Runs(t)
  /\ \/ data' = <<<<message[t], written[t] + 1>>>>
     \/ data # <<>> /\ UNCHANGED data
  /\ written' = [written EXCEPT ![t] = @ + 1]
  /\ Goto(t, IF written'[t] = FrameSize THEN "done" ELSE "check")
  /\ UNCHANGED <<mutex, sample_rate_hz, reading_queue, reading, message,
                 sampling, commanding, run, delivered, receiving>>

Body(frame) == [i \in 1..(FrameSize - 1) |-> <<frame, i>>]

\* The UART shifts the byte out.  At a delimiter the parser at the other end
\* has a frame if the run before it is the whole of one.
Transmit ==
  /\ data # <<>>
  /\ data' = <<>>
  /\ IF data[1][2] = FrameSize
     THEN /\ run' = <<>>
          /\ delivered' = IF run # <<>> /\ run = Body(run[1][1])
                          THEN Append(delivered, run[1][1]) ELSE delivered
     ELSE run' = Append(run, data[1]) /\ UNCHANGED delivered
  /\ UNCHANGED <<pc, mutex, sample_rate_hz, reading_queue, reading,
                 sampling, commanding, writing, receiving>>

\* A byte comes in: one that completes no frame, or the last of a CONFIG or
\* SLOW_DOWN.  The emulated UART holds the line while its buffer is full.
Arrive ==
  /\ rx[1] = "none" /\ arrivals < MaxArrivals
  /\ rx' \in {<<"part", 0>>} \union {<<"frame", r>> : r \in Rates}
  /\ arrivals' = arrivals + 1
  /\ UNCHANGED <<pc, mutex, sample_rate_hz, reading_queue, reading,
                 sampling, commanding, writing, line>>

---------------------------------------------------------------------------
\* SensorTask.

SensorTake ==
  /\ Take("sensor", "locked")
  /\ UNCHANGED <<sample_rate_hz, reading_queue, reading,
                 sampling, commanding, writing, line, receiving>>

SensorRead ==
  /\ pc["sensor"] = "locked" /\ Runs("sensor")
  /\ rate_hz' = sample_rate_hz
  /\ Give("sensor", "send")
  /\ UNCHANGED <<sample_rate_hz, reading_queue, reading, sample_index, waited,
                 commanding, writing, line, receiving>>

\* Mutant: send() without a wait, its result ignored.
SensorSendTimedOut ==
  /\ pc["sensor"] = "send"
  /\ reading_queue' = IF Len(reading_queue) = kQueueCapacity
                      THEN reading_queue ELSE Append(reading_queue, sample_index)
  /\ sample_index' = sample_index + 1
  /\ Goto("sensor", "sleep")
  /\ UNCHANGED <<mutex, sample_rate_hz, reading, rate_hz, waited,
                 commanding, writing, line, receiving>>

\* reading_queue.send() waits for room; then vTaskDelay() for rate_hz.
SensorSend ==
  /\ pc["sensor"] = "send" /\ Runs("sensor")
  /\ reading_queue' = Append(reading_queue, sample_index)
  /\ sample_index' = sample_index + 1
  /\ Goto("sensor", "sleep")
  /\ UNCHANGED <<mutex, sample_rate_hz, reading, rate_hz, waited,
                 commanding, writing, line, receiving>>

SensorWake ==
  /\ pc["sensor"] = "sleep" /\ sample_index < MaxReadings
  /\ Goto("sensor", "lock")
  /\ waited' = FALSE
  /\ UNCHANGED <<mutex, sample_rate_hz, reading_queue, reading, rate_hz, sample_index,
                 commanding, writing, line, receiving>>

---------------------------------------------------------------------------
\* CommandTask.

\* SendHello().
CommandHello ==
  /\ pc["command"] = "hello" /\ Runs("command")
  /\ Begin("command", "kHello", 0)
  /\ Goto("command", "check")
  /\ UNCHANGED <<mutex, sample_rate_hz, reading_queue, reading,
                 sampling, commanding, line, receiving>>

\* last_heartbeat = xTaskGetTickCount().
CommandStamp ==
  /\ pc["command"] = "done" /\ Runs("command")
  /\ due' = FALSE
  /\ Goto("command", IF message["command"][1] = "kHello" THEN "poll" ELSE "sleep")
  /\ UNCHANGED <<mutex, sample_rate_hz, reading_queue, reading, heartbeats, command,
                 sampling, writing, line, receiving>>

\* Mutant: the heartbeat timer is looked at when a byte has been read.
CommandIdleNever ==
  /\ pc["command"] = "poll" /\ Runs("command")
  /\ rx[1] = "none"
  /\ Goto("command", "sleep")
  /\ UNCHANGED <<mutex, sample_rate_hz, reading_queue, reading,
                 sampling, commanding, writing, line, receiving>>

\* No byte is waiting: SendHeartbeat() if it is time, then vTaskDelay().
CommandIdle ==
  /\ pc["command"] = "poll" /\ Runs("command")
  /\ rx[1] = "none"
  /\ IF due
     THEN /\ heartbeats' = heartbeats + 1
          /\ Begin("command", "kHeartbeat", heartbeats)
          /\ Goto("command", "check")
     ELSE /\ Goto("command", "sleep")
          /\ UNCHANGED <<heartbeats, writing>>
  /\ UNCHANGED <<mutex, sample_rate_hz, reading_queue, reading, due, command,
                 sampling, line, receiving>>

\* A byte is: push_byte(), and a CONFIG or SLOW_DOWN is applied.
CommandByte ==
  /\ pc["command"] = "poll" /\ Runs("command")
  /\ rx[1] # "none"
  /\ rx' = <<"none", 0>>
  /\ IF rx[1] = "frame"
     THEN command' = rx[2] /\ Goto("command", "lock")
     ELSE UNCHANGED <<command, pc>>
  /\ UNCHANGED <<mutex, sample_rate_hz, reading_queue, reading, due, heartbeats, arrivals,
                 sampling, writing, line>>

CommandTake ==
  /\ Take("command", "locked")
  /\ UNCHANGED <<sample_rate_hz, reading_queue, reading,
                 sampling, commanding, writing, line, receiving>>

\* Of a CONFIG the session fields are set too, under the same lock.
CommandApply ==
  /\ pc["command"] = "locked" /\ Runs("command")
  /\ sample_rate_hz' = command
  /\ Give("command", "poll")
  /\ UNCHANGED <<reading_queue, reading, sampling, commanding, writing, line, receiving>>

CommandWake ==
  /\ pc["command"] = "sleep"
  /\ Goto("command", "poll")
  /\ UNCHANGED <<mutex, sample_rate_hz, reading_queue, reading,
                 sampling, commanding, writing, line, receiving>>

\* kHeartbeatInterval passes.
Elapse ==
  /\ ~due /\ heartbeats < MaxHeartbeats
  /\ due' = TRUE
  /\ UNCHANGED <<pc, mutex, sample_rate_hz, reading_queue, reading, heartbeats, command,
                 sampling, writing, line, receiving>>

---------------------------------------------------------------------------
\* TelemetryTask.

TelemetryReceive ==
  /\ pc["telemetry"] = "receive" /\ Runs("telemetry")
  /\ reading' = Head(reading_queue)
  /\ reading_queue' = Tail(reading_queue)
  /\ waited' = (waited \/ (pc["sensor"] = "send" /\ Blocked("sensor")))
  /\ Goto("telemetry", "lock")
  /\ UNCHANGED <<mutex, sample_rate_hz, rate_hz, sample_index,
                 commanding, writing, line, receiving>>

TelemetryTake ==
  /\ Take("telemetry", "locked")
  /\ UNCHANGED <<sample_rate_hz, reading_queue, reading,
                 sampling, commanding, writing, line, receiving>>

\* The session id is copied under the lock, then the sample is written.
TelemetryRead ==
  /\ pc["telemetry"] = "locked" /\ Runs("telemetry")
  /\ Begin("telemetry", "kSample", reading)
  /\ Give("telemetry", "check")
  /\ UNCHANGED <<sample_rate_hz, reading_queue, reading,
                 sampling, commanding, line, receiving>>

TelemetryDone ==
  /\ pc["telemetry"] = "done" /\ Runs("telemetry")
  /\ Goto("telemetry", "receive")
  /\ UNCHANGED <<mutex, sample_rate_hz, reading_queue, reading,
                 sampling, commanding, writing, line, receiving>>

---------------------------------------------------------------------------
Init ==
  /\ pc = [sensor |-> "lock", command |-> "hello", telemetry |-> "receive"]
  /\ mutex = "free"
  /\ sample_rate_hz = DefaultRate /\ rate_hz = DefaultRate
  /\ sample_index = 0
  /\ reading_queue = <<>>
  /\ reading = -1
  /\ message = [t \in Writer |-> <<"none", 0>>]
  /\ written = [t \in Writer |-> 0]
  /\ due = FALSE /\ heartbeats = 0
  /\ command = DefaultRate
  /\ data = <<>> /\ run = <<>> /\ delivered = <<>>
  /\ rx = <<"none", 0>> /\ arrivals = 0
  /\ waited = FALSE

Next ==
  \/ SensorTake \/ SensorRead \/ SensorSend \/ SensorWake
  \/ CommandHello \/ CommandStamp \/ CommandIdle \/ CommandByte
  \/ CommandTake \/ CommandApply \/ CommandWake
  \/ TelemetryReceive \/ TelemetryTake \/ TelemetryRead \/ TelemetryDone
  \/ \E t \in Writer : Check(t) \/ Store(t)
  \/ Transmit \/ Arrive \/ Elapse

Spec == Init /\ [][Next]_vars

\* The scheduler runs the ready task of the highest priority, delays end, and
\* the UART shifts its byte out.  A task of lower priority gets the processor
\* whenever the others sleep, and the 10 ms CommandTask sleeps are long enough
\* for a step of it (strong fairness: it may be preempted again and again).
Fairness ==
  /\ WF_vars(SensorTake \/ SensorRead \/ SensorSend)
  /\ WF_vars(SensorWake)
  /\ WF_vars(CommandHello \/ CommandStamp \/ CommandIdle \/ CommandByte)
  /\ WF_vars(CommandTake \/ CommandApply \/ CommandWake)
  /\ WF_vars(Check("command") \/ Store("command"))
  /\ WF_vars(Transmit)
  /\ SF_vars(\/ TelemetryReceive \/ TelemetryTake \/ TelemetryRead \/ TelemetryDone
             \/ Check("telemetry") \/ Store("telemetry"))

FairSpec == Spec /\ Fairness

---------------------------------------------------------------------------
\* Properties.

Label == {"lock", "locked", "send", "sleep", "hello", "check", "store", "done", "poll", "receive"}

\* Types; and only the task inside its critical section holds config_mutex.
TypeOK ==
  /\ pc \in [Task -> Label]
  /\ mutex \in Task \union {"free"}
  /\ \A t \in Task : pc[t] = "locked" <=> mutex = t
  /\ sample_rate_hz \in Rates \union {DefaultRate} /\ rate_hz \in Rates \union {DefaultRate}
  /\ Len(reading_queue) <= kQueueCapacity
  /\ \A t \in Writer : written[t] \in 0..FrameSize
  /\ Len(data) <= 1

\* The HELLO that opens a session is the first thing on the line, and arrives
\* whole: TelemetryTask cannot write before CommandTask has.
HelloFirst ==
  IF delivered = <<>>
  THEN \A i \in DOMAIN (run \o data) : (run \o data)[i][1][1] = "kHello"
  ELSE delivered[1][1] = "kHello"

\* Backpressure loses nothing: every reading taken is in the queue or has been
\* received, in order, and the samples that arrive are in that order.
PipelineIntact ==
  LET n == sample_index - Len(reading_queue)
  IN  /\ reading_queue = [i \in 1..Len(reading_queue) |-> n + i - 1]
      /\ reading = n - 1
      /\ \A i, j \in DOMAIN delivered :
           i < j /\ delivered[i][1] = "kSample" /\ delivered[j][1] = "kSample"
             => delivered[i][2] < delivered[j][2]

\* Samples written out of which nothing has arrived.
Missed ==
  {n \in 0..reading :
     /\ n < reading \/ pc["telemetry"] = "receive"
     /\ <<"kSample", n>> \notin Range(delivered)
     /\ \A i \in DOMAIN (run \o data) : (run \o data)[i][1] # <<"kSample", n>>}

\* CommandTask and TelemetryTask write to the UART without a lock.  A heartbeat
\* that breaks into a sample destroys that sample and no other, whichever byte
\* it breaks in at, and whether or not the one-byte buffer overruns.
DamageBounded == Cardinality(Missed) <= heartbeats

\* node/main.cpp: "a short delay there just means data reaches the wire a
\* little later, not a missed sample."
NoMissedSample == Missed = {}

\* While SensorTask waits for config_mutex only its owner runs: CommandTask
\* cannot hold up a reading by preempting a TelemetryTask that has the lock.
InversionBounded ==
  [][pc["sensor"] = "lock" /\ mutex # "free" =>
       \A t \in Task : pc'[t] # pc[t] => t = mutex \/ pc[t] = "sleep"]_vars

\* The delay after a reading is for the rate in force, unless SensorTask had to
\* wait for room in the queue meanwhile.
PromptRate ==
  [][pc["sensor"] = "send" /\ pc'["sensor"] = "sleep" /\ ~waited
       => rate_hz = sample_rate_hz]_vars

\* Nothing starves: every reading that is taken is written to the UART, and a
\* heartbeat that is due is sent, although TelemetryTask has the lowest
\* priority and CommandTask looks at its timer only when no byte waits.
NothingStarves ==
  /\ \A n \in 0..(MaxReadings - 1) :
       sample_index > n ~> reading > n \/ (reading = n /\ pc["telemetry"] = "receive")
  /\ due ~> ~due
=============================================================================
