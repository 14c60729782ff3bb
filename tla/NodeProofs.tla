----------------------------- MODULE NodeProofs -----------------------------
(***************************************************************************)
(* Proofs about the device, for every capacity of the queue, every length  *)
(* of a frame and any number of readings, heartbeats and bytes received.   *)
(***************************************************************************)
EXTENDS Node, TLAPS

---------------------------------------------------------------------------
\* The control of the three tasks.

Frame == {"none", "kHello", "kHeartbeat", "kSample"} \X Int
Byte == Frame \X (1..FrameSize)

SensorLabel == {"lock", "locked", "send", "sleep"}
CommandLabel == {"hello", "check", "store", "done", "poll", "lock", "locked", "sleep"}
TelemetryLabel == {"receive", "lock", "locked", "check", "store", "done"}

Writing(t) == pc[t] \in {"check", "store"}

\* Where each task can be, and who holds config_mutex.
ControlInv ==
  /\ pc \in [Task -> Label]
  /\ pc["sensor"] \in SensorLabel /\ pc["command"] \in CommandLabel
  /\ pc["telemetry"] \in TelemetryLabel
  /\ mutex \in Task \union {"free"}
  /\ \A t \in Task : pc[t] = "locked" <=> mutex = t
  /\ sample_rate_hz \in Rates \union {DefaultRate} /\ rate_hz \in Rates \union {DefaultRate}
  /\ command \in Rates \union {DefaultRate}
  /\ rx[1] = "frame" => rx[2] \in Rates

\* A task that writes has bytes left; one that does not has written the whole
\* of its last frame.
WritingInv ==
  /\ written \in [Writer -> 0..FrameSize]
  /\ message \in [Writer -> Frame]
  /\ \A t \in Writer : Writing(t) => written[t] < FrameSize
  /\ message["command"][1] # "kSample"
  /\ ~Writing("command") /\ pc["command"] # "hello" => written["command"] = FrameSize
  /\ pc["telemetry"] \in {"check", "store", "done"} => message["telemetry"] = <<"kSample", reading>>
  /\ pc["telemetry"] = "done" => written["telemetry"] = FrameSize
  /\ pc["telemetry"] = "receive" => reading < 0 \/ written["telemetry"] = FrameSize
  /\ pc["telemetry"] # "receive" => reading >= 0

\* The readings taken and not yet received are in the queue, in order.
QueueInv ==
  /\ sample_index \in Nat /\ reading \in Int /\ heartbeats \in Nat
  /\ reading_queue \in Seq(Int) /\ Len(reading_queue) <= kQueueCapacity
  /\ reading = sample_index - Len(reading_queue) - 1
  /\ reading >= -1
  /\ \A i \in 1..Len(reading_queue) : reading_queue[i] = reading + i

\* The rate SensorTask has read is stale only while the queue is full: nothing
\* of lower priority has run otherwise.
RateInv ==
  pc["sensor"] = "send" /\ ~waited =>
    rate_hz = sample_rate_hz \/ Len(reading_queue) = kQueueCapacity

LEMMA Names == Task = {"sensor", "command", "telemetry"} /\ Writer = {"command", "telemetry"}
BY DEF Task, Writer

LEMMA Bases == Base["sensor"] = 3 /\ Base["command"] = 2 /\ Base["telemetry"] = 1
BY DEF Base

LEMMA MaxOfThree ==
  ASSUME NEW S, S # {}, S \subseteq 1..3
  PROVE  Max(S) \in S /\ \A x \in S : x <= Max(S)
<1>1. \E x \in S : \A y \in S : x >= y
  <2>1. CASE 3 \in S
    BY <2>1
  <2>2. CASE 3 \notin S /\ 2 \in S
    BY <2>2
  <2>3. CASE 3 \notin S /\ 2 \notin S
    <3>1. PICK x \in S : TRUE
      BY Zenon
    <3>2. \A y \in S : y = 1
      BY <2>3
    <3>3. QED
      BY <3>1, <3>2
  <2>4. QED
    BY <2>1, <2>2, <2>3
<1>2. QED
  BY <1>1, Zenon DEF Max

\* What priority inheritance makes of the three priorities.
LEMMA Priorities ==
  ASSUME NEW t \in Task
  PROVE  /\ Priority(t) \in 1..3 /\ Base[t] <= Priority(t)
         /\ mutex # t => Priority(t) = Base[t]
         /\ mutex = t /\ pc["sensor"] = "lock" => Priority(t) = 3
         /\ t # "sensor" /\ pc["sensor"] # "lock" => Priority(t) <= 2
<1> DEFINE waiting == {u \in Task : mutex = t /\ pc[u] = "lock"}
           S == {Base[u] : u \in waiting \union {t}}
<1>1. Priority(t) = Max(S)
  BY DEF Priority
<1>2. S # {} /\ S \subseteq 1..3 /\ Base[t] \in S
  BY Bases, Names
<1>3. Max(S) \in S /\ \A x \in S : x <= Max(S)
  BY <1>2, MaxOfThree, Zenon
<1>4. mutex # t => S = {Base[t]}
  OBVIOUS
<1>5. mutex = t /\ pc["sensor"] = "lock" => 3 \in S
  BY Bases, Names
<1>6. t # "sensor" /\ pc["sensor"] # "lock" => S \subseteq 1..2
  BY Bases, Names
<1> HIDE DEF waiting, S
<1>7. mutex # t => Priority(t) = Base[t]
  BY <1>1, <1>3, <1>4, Zenon
<1>8. Priority(t) \in 1..3 /\ Base[t] <= Priority(t)
  BY <1>1, <1>2, <1>3, Zenon
<1>9. mutex = t /\ pc["sensor"] = "lock" => 3 <= Priority(t)
  BY <1>1, <1>3, <1>5
<1>10. t # "sensor" /\ pc["sensor"] # "lock" => Priority(t) \in 1..2
  BY <1>1, <1>3, <1>6, Zenon
<1>11. QED
  BY <1>7, <1>8, <1>9, <1>10

\* Nobody runs beside a TelemetryTask outside its critical section that could.
LEMMA TelemetryRuns ==
  ASSUME Runs("telemetry"), mutex # "telemetry"
  PROVE  Blocked("sensor") /\ Blocked("command")
BY Names, Bases, Priorities DEF Runs

LEMMA CommandRuns ==
  ASSUME Runs("command"), pc["sensor"] # "lock"
  PROVE  Blocked("sensor")
BY Names, Bases, Priorities DEF Runs

LEMMA OwnerRuns ==
  ASSUME ControlInv, NEW t \in Task, Runs(t), pc["sensor"] = "lock", mutex # "free"
  PROVE  t = mutex
<1>1. mutex \in Task /\ Priority(mutex) = 3 /\ Priority(t) \in 1..3
  BY Priorities DEF ControlInv
<1>2. pc[mutex] = "locked"
  BY <1>1 DEF ControlInv
<1>3. ~Blocked(mutex)
  BY <1>2 DEF Blocked
<1>4. QED
  BY <1>1, <1>3 DEF Runs

---------------------------------------------------------------------------
\* Control and types are invariant.

LEMMA ControlInit == Init => ControlInv
BY Names, NodeConstants DEF Init, ControlInv, Label, SensorLabel, CommandLabel, TelemetryLabel

LEMMA ControlStep == ControlInv /\ [Next]_vars => ControlInv'
<1> SUFFICES ASSUME ControlInv, [Next]_vars PROVE ControlInv'
  OBVIOUS
<1> USE Names DEF ControlInv, Label, SensorLabel, CommandLabel, TelemetryLabel, Goto,
                  sampling, commanding, receiving
<1>1. CASE SensorTake
  BY <1>1 DEF SensorTake, Take, Runs, Blocked
<1>2. CASE SensorRead
  BY <1>2 DEF SensorRead, Give
<1>3. CASE SensorSend
  BY <1>3 DEF SensorSend
<1>4. CASE SensorWake
  BY <1>4 DEF SensorWake
<1>5. CASE CommandHello
  BY <1>5 DEF CommandHello
<1>6. CASE CommandStamp
  BY <1>6 DEF CommandStamp
<1>7. CASE CommandIdle
  BY <1>7 DEF CommandIdle
<1>8. CASE CommandByte
  BY <1>8 DEF CommandByte
<1>9. CASE CommandTake
  BY <1>9 DEF CommandTake, Take, Runs, Blocked
<1>10. CASE CommandApply
  BY <1>10 DEF CommandApply, Give
<1>11. CASE CommandWake
  BY <1>11 DEF CommandWake
<1>12. CASE TelemetryReceive
  BY <1>12 DEF TelemetryReceive
<1>13. CASE TelemetryTake
  BY <1>13 DEF TelemetryTake, Take, Runs, Blocked
<1>14. CASE TelemetryRead
  BY <1>14 DEF TelemetryRead, Give
<1>15. CASE TelemetryDone
  BY <1>15 DEF TelemetryDone
<1>16. ASSUME NEW t \in Writer, Check(t) PROVE ControlInv'
  BY <1>16 DEF Check
<1>17. ASSUME NEW t \in Writer, Store(t) PROVE ControlInv'
  BY <1>17 DEF Store
<1>18. CASE Transmit
  BY <1>18 DEF Transmit
<1>19. CASE Arrive
  BY <1>19 DEF Arrive
<1>20. CASE Elapse
  BY <1>20 DEF Elapse
<1>21. CASE UNCHANGED vars
  BY <1>21 DEF vars
<1>22. QED
  BY <1>1, <1>2, <1>3, <1>4, <1>5, <1>6, <1>7, <1>8, <1>9, <1>10, <1>11, <1>12, <1>13,
     <1>14, <1>15, <1>16, <1>17, <1>18, <1>19, <1>20, <1>21 DEF Next

---------------------------------------------------------------------------
\* Backpressure: the queue.

LEMMA AppendReading ==
  ASSUME NEW q \in Seq(Int), NEW n \in Int
  PROVE  /\ Append(q, n) \in Seq(Int) /\ Len(q) \in Nat /\ Len(Append(q, n)) = Len(q) + 1
         /\ \A i \in 1..Len(q) : Append(q, n)[i] = q[i]
         /\ Append(q, n)[Len(q) + 1] = n
OBVIOUS

LEMMA TailReading ==
  ASSUME NEW q \in Seq(Int), q # <<>>
  PROVE  /\ Tail(q) \in Seq(Int) /\ Len(q) \in Nat \ {0} /\ Len(Tail(q)) = Len(q) - 1
         /\ \A i \in 1..(Len(q) - 1) : Tail(q)[i] = q[i + 1]
         /\ Head(q) = q[1]
OBVIOUS

LEMMA QueueInit == Init => QueueInv
<1> SUFFICES ASSUME Init PROVE QueueInv
  OBVIOUS
<1>1. sample_index = 0 /\ reading = 0 - 1 /\ heartbeats = 0
  BY DEF Init
<1>2. Len(reading_queue) = 0 /\ reading_queue \in Seq(Int)
  BY DEF Init
<1>3. kQueueCapacity \in Nat
  BY NodeConstants
<1>4. QED
  BY <1>1, <1>2, <1>3 DEF QueueInv

LEMMA QueueStep == QueueInv /\ [Next]_vars => QueueInv'
<1> SUFFICES ASSUME QueueInv, [Next]_vars PROVE QueueInv'
  OBVIOUS
<1>1. ASSUME UNCHANGED <<sample_index, reading_queue, reading, heartbeats>> PROVE QueueInv'
  BY <1>1 DEF QueueInv
<1>2. CASE SensorSend
  <2>1. Len(reading_queue) # kQueueCapacity
    BY <1>2 DEF SensorSend, Runs, Blocked
  <2>2. /\ reading_queue' = Append(reading_queue, sample_index)
        /\ sample_index' = sample_index + 1
        /\ UNCHANGED <<reading, heartbeats>>
    BY <1>2 DEF SensorSend, commanding
  <2>3. QED
    BY <2>1, <2>2, AppendReading, NodeConstants DEF QueueInv
<1>3. CASE TelemetryReceive
  <2>1. reading_queue # <<>>
    BY <1>3 DEF TelemetryReceive, Runs, Blocked
  <2>2. /\ reading' = Head(reading_queue)
        /\ reading_queue' = Tail(reading_queue)
        /\ UNCHANGED <<sample_index, heartbeats>>
    BY <1>3 DEF TelemetryReceive, commanding
  <2>3. /\ reading_queue' \in Seq(Int) /\ Len(reading_queue) \in Nat \ {0}
        /\ Len(reading_queue') = Len(reading_queue) - 1
        /\ \A i \in 1..(Len(reading_queue) - 1) : reading_queue'[i] = reading_queue[i + 1]
        /\ reading' = reading_queue[1]
    BY <2>1, <2>2, TailReading DEF QueueInv
  <2>4. reading' = reading + 1
    BY <2>3 DEF QueueInv
  <2>5. QED
    BY <2>2, <2>3, <2>4, NodeConstants DEF QueueInv
<1>4. CASE CommandIdle
  BY <1>4 DEF CommandIdle, QueueInv, sampling
<1>5. QED
  <2> USE <1>1 DEF sampling, commanding
  <2>1. CASE SensorTake \/ SensorRead \/ SensorWake
    BY <2>1 DEF SensorTake, SensorRead, SensorWake
  <2>2. CASE CommandHello \/ CommandStamp \/ CommandByte \/ CommandTake \/ CommandApply \/ CommandWake
    BY <2>2 DEF CommandHello, CommandStamp, CommandByte, CommandTake, CommandApply, CommandWake
  <2>3. CASE TelemetryTake \/ TelemetryRead \/ TelemetryDone
    BY <2>3 DEF TelemetryTake, TelemetryRead, TelemetryDone
  <2>4. CASE \E t \in Writer : Check(t) \/ Store(t)
    BY <2>4 DEF Check, Store
  <2>5. CASE Transmit \/ Arrive \/ Elapse
    BY <2>5 DEF Transmit, Arrive, Elapse
  <2>6. CASE UNCHANGED vars
    BY <2>6 DEF vars
  <2>7. QED
    BY <1>2, <1>3, <1>4, <2>1, <2>2, <2>3, <2>4, <2>5, <2>6 DEF Next

---------------------------------------------------------------------------
\* The rate in force.

LEMMA RateInit == Init => RateInv
BY DEF Init, RateInv

LEMMA RateStep == ControlInv /\ QueueInv /\ RateInv /\ [Next]_vars => RateInv'
<1> SUFFICES ASSUME ControlInv, QueueInv, RateInv, [Next]_vars PROVE RateInv'
  OBVIOUS
<1> USE DEF ControlInv, RateInv
<1>1. ASSUME UNCHANGED <<rate_hz, sample_rate_hz, reading_queue, waited>>,
             pc'["sensor"] = "send" => pc["sensor"] = "send"
      PROVE  RateInv'
  BY <1>1
<1>2. CASE SensorRead
  BY <1>2 DEF SensorRead, Give, Goto
<1>3. CASE SensorSend \/ SensorWake
  BY <1>3, Names DEF SensorSend, SensorWake, Goto
<1>4. CASE CommandApply
  <2>1. pc' = [pc EXCEPT !["command"] = "poll"] /\ UNCHANGED <<reading_queue, waited>>
    BY <1>4 DEF CommandApply, Give, Goto, sampling
  <2>2. pc["sensor"] = "send" => Len(reading_queue) = kQueueCapacity
    BY <1>4, CommandRuns DEF CommandApply, Blocked
  <2>3. QED
    BY <2>1, <2>2, Names
<1>5. CASE TelemetryReceive
  <2>1. Blocked("sensor")
    BY <1>5, TelemetryRuns, Names DEF TelemetryReceive
  <2>2. pc["sensor"] = "send" => waited'
    BY <1>5, <2>1, Zenon DEF TelemetryReceive
  <2>3. pc'["sensor"] = pc["sensor"]
    BY <1>5, Names DEF TelemetryReceive, Goto
  <2>4. QED
    BY <2>2, <2>3
<1>6. QED
  <2> USE <1>1, Names DEF sampling, Goto, Take, Give
  <2>1. CASE SensorTake
    BY <2>1 DEF SensorTake
  <2>2. CASE CommandHello \/ CommandStamp \/ CommandIdle \/ CommandByte \/ CommandTake \/ CommandWake
    BY <2>2 DEF CommandHello, CommandStamp, CommandIdle, CommandByte, CommandTake, CommandWake
  <2>3. CASE TelemetryTake \/ TelemetryRead \/ TelemetryDone
    BY <2>3 DEF TelemetryTake, TelemetryRead, TelemetryDone
  <2>4. CASE \E t \in Writer : Check(t) \/ Store(t)
    BY <2>4 DEF Check, Store
  <2>5. CASE Transmit \/ Arrive \/ Elapse
    BY <2>5 DEF Transmit, Arrive, Elapse
  <2>6. CASE UNCHANGED vars
    BY <2>6 DEF vars
  <2>7. QED
    BY <1>2, <1>3, <1>4, <1>5, <2>1, <2>2, <2>3, <2>4, <2>5, <2>6 DEF Next

---------------------------------------------------------------------------
\* The frames the two writers are at.

LEMMA Size == FrameSize \in Nat /\ FrameSize >= 2
BY NodeConstants

LEMMA FrameOf ==
  ASSUME NEW type \in {"none", "kHello", "kHeartbeat", "kSample"}, NEW n \in Int
  PROVE  <<type, n>> \in Frame /\ <<type, n>>[1] = type /\ <<type, n>>[2] = n
BY DEF Frame

LEMMA WritingInit == Init => WritingInv
<1> SUFFICES ASSUME Init PROVE WritingInv
  OBVIOUS
<1>1. message = [t \in Writer |-> <<"none", 0>>] /\ <<"none", 0>> \in Frame
  BY FrameOf DEF Init
<1>2. written = [t \in Writer |-> 0]
  BY DEF Init
<1>3. pc["command"] = "hello" /\ pc["telemetry"] = "receive" /\ reading < 0
  BY DEF Init
<1>4. QED
  BY <1>1, <1>2, <1>3, Names, Size DEF WritingInv, Writing

LEMMA WritingStep == ControlInv /\ QueueInv /\ WritingInv /\ [Next]_vars => WritingInv'
<1> SUFFICES ASSUME ControlInv, QueueInv, WritingInv, [Next]_vars PROVE WritingInv'
  OBVIOUS
<1> USE Names, Size DEF ControlInv, WritingInv, Writing, CommandLabel, TelemetryLabel
<1>1. ASSUME UNCHANGED <<message, written, reading>>,
             pc'["command"] = pc["command"], pc'["telemetry"] = pc["telemetry"]
      PROVE  WritingInv'
  BY <1>1
<1>2. CASE CommandHello
  <2>1. /\ pc' = [pc EXCEPT !["command"] = "check"]
        /\ message' = [message EXCEPT !["command"] = <<"kHello", 0>>]
        /\ written' = [written EXCEPT !["command"] = 0]
        /\ reading' = reading
    BY <1>2 DEF CommandHello, Begin, Goto
  <2>2. QED
    BY <2>1, FrameOf
<1>3. CASE CommandStamp
  BY <1>3 DEF CommandStamp, Goto, writing
<1>4. CASE CommandIdle
  <2>1. CASE ~due
    BY <1>4, <2>1 DEF CommandIdle, Goto, writing
  <2>2. CASE due
    <3>1. /\ pc' = [pc EXCEPT !["command"] = "check"]
          /\ message' = [message EXCEPT !["command"] = <<"kHeartbeat", heartbeats>>]
          /\ written' = [written EXCEPT !["command"] = 0]
          /\ reading' = reading /\ heartbeats \in Int
      BY <1>4, <2>2 DEF CommandIdle, Begin, Goto, QueueInv
    <3>2. QED
      BY <3>1, FrameOf
  <2>3. QED
    BY <2>1, <2>2
<1>5. CASE CommandByte \/ CommandTake \/ CommandApply \/ CommandWake
  BY <1>5 DEF CommandByte, CommandTake, CommandApply, CommandWake, Take, Give, Goto, writing
<1>6. CASE TelemetryReceive
  <2>1. reading' >= 0
    <3>1. reading_queue # <<>> /\ reading' = Head(reading_queue)
      BY <1>6 DEF TelemetryReceive, Runs, Blocked
    <3>2. reading' = reading_queue[1] /\ Len(reading_queue) >= 1
      BY <3>1, TailReading DEF QueueInv
    <3>3. QED
      BY <3>2 DEF QueueInv
  <2>2. QED
    BY <1>6, <2>1 DEF TelemetryReceive, Goto, writing
<1>7. CASE TelemetryTake
  BY <1>7 DEF TelemetryTake, Take, Goto, writing
<1>8. CASE TelemetryRead
  <2>1. /\ pc' = [pc EXCEPT !["telemetry"] = "check"]
        /\ message' = [message EXCEPT !["telemetry"] = <<"kSample", reading>>]
        /\ written' = [written EXCEPT !["telemetry"] = 0]
        /\ reading' = reading /\ reading \in Int /\ pc["telemetry"] = "locked"
    BY <1>8 DEF TelemetryRead, Begin, Give, Goto, QueueInv
  <2>2. QED
    BY <2>1, FrameOf
<1>9. CASE TelemetryDone
  BY <1>9 DEF TelemetryDone, Goto, writing
<1>10. ASSUME NEW t \in Writer, Check(t) PROVE WritingInv'
  BY <1>10 DEF Check, Goto, writing
<1>11. ASSUME NEW t \in Writer, Store(t) PROVE WritingInv'
  <2>1. /\ written' = [written EXCEPT ![t] = written[t] + 1]
        /\ pc' = [pc EXCEPT ![t] = IF written[t] + 1 = FrameSize THEN "done" ELSE "check"]
        /\ UNCHANGED <<message, reading>>
        /\ pc[t] = "store"
    BY <1>11, Zenon DEF Store, Goto
  <2>2. QED
    BY <2>1
<1>12. CASE SensorTake \/ SensorRead \/ SensorSend \/ SensorWake
  BY <1>1, <1>12 DEF SensorTake, SensorRead, SensorSend, SensorWake, Take, Give, Goto, writing
<1>13. CASE Transmit \/ Arrive \/ Elapse
  BY <1>1, <1>13 DEF Transmit, Arrive, Elapse, writing
<1>14. CASE UNCHANGED vars
  BY <1>1, <1>14 DEF vars, writing
<1>15. QED
  BY <1>2, <1>3, <1>4, <1>5, <1>6, <1>7, <1>8, <1>9, <1>10, <1>11, <1>12, <1>13, <1>14, Zenon DEF Next

---------------------------------------------------------------------------
\* What the steps do to the two writers and the line, variable by variable.

Rest == <<reading, heartbeats, data, run, delivered>>

\* A step of no consequence for the line.
Quiet ==
  /\ UNCHANGED <<message, written, Rest>>
  /\ pc'["telemetry"] = pc["telemetry"]
  /\ \/ pc'["command"] = pc["command"]
     \/ /\ pc["command"] \in {"done", "poll", "lock", "locked", "sleep"}
        /\ pc'["command"] \in {"poll", "lock", "locked", "sleep"}

LEMMA Kinds ==
  ASSUME ControlInv, [Next]_vars
  PROVE  \/ Quiet \/ CommandHello \/ (CommandIdle /\ due)
         \/ TelemetryReceive \/ TelemetryTake \/ TelemetryRead \/ TelemetryDone
         \/ Check("command") \/ Check("telemetry") \/ Store("command") \/ Store("telemetry")
         \/ Transmit
<1> USE Names DEF ControlInv, Goto, Rest, Quiet, writing, line, commanding
<1>1. CASE SensorTake \/ SensorRead \/ SensorSend \/ SensorWake
  BY <1>1 DEF SensorTake, SensorRead, SensorSend, SensorWake, Take, Give
<1>2. CASE CommandStamp \/ CommandByte \/ CommandTake \/ CommandApply \/ CommandWake
  BY <1>2 DEF CommandStamp, CommandByte, CommandTake, CommandApply, CommandWake, Take, Give
<1>3. CASE CommandIdle /\ ~due
  BY <1>3 DEF CommandIdle
<1>4. CASE Arrive \/ Elapse
  BY <1>4, Zenon DEF Arrive, Elapse
<1>5. CASE UNCHANGED vars
  BY <1>5 DEF vars
<1>6. CASE \E t \in Writer : Check(t) \/ Store(t)
  BY <1>6
<1>7. QED
  BY <1>1, <1>2, <1>3, <1>4, <1>5, <1>6 DEF Next

\* CommandTask begins a frame f.
Begins(f) ==
  /\ pc'["command"] = "check" /\ pc'["telemetry"] = pc["telemetry"]
  /\ message'["command"] = f /\ message'["telemetry"] = message["telemetry"]
  /\ written'["command"] = 0 /\ written'["telemetry"] = written["telemetry"]
  /\ UNCHANGED <<reading, data, run, delivered>>

LEMMA HelloEffect ==
  ASSUME ControlInv, WritingInv, CommandHello
  PROVE  pc["command"] = "hello" /\ Begins(<<"kHello", 0>>) /\ heartbeats' = heartbeats
BY Names DEF ControlInv, WritingInv, CommandHello, Goto, Begin, Begins, line, commanding

LEMMA HeartbeatEffect ==
  ASSUME ControlInv, WritingInv, CommandIdle, due
  PROVE  /\ pc["command"] = "poll" /\ Begins(<<"kHeartbeat", heartbeats>>)
         /\ heartbeats' = heartbeats + 1
BY Names DEF ControlInv, WritingInv, CommandIdle, Goto, Begin, Begins, line

\* TelemetryTask goes from one label to another.
Moves(from, to) ==
  /\ pc["telemetry"] = from /\ pc'["telemetry"] = to /\ pc'["command"] = pc["command"]
  /\ UNCHANGED <<message, heartbeats, data, run, delivered>>

LEMMA ReceiveEffect ==
  ASSUME ControlInv, QueueInv, TelemetryReceive
  PROVE  Moves("receive", "lock") /\ written' = written /\ reading' = reading + 1
<1>1. reading_queue # <<>> /\ reading' = Head(reading_queue)
  BY DEF TelemetryReceive, Runs, Blocked
<1>2. reading' = reading_queue[1] /\ Len(reading_queue) >= 1
  BY <1>1, TailReading DEF QueueInv
<1>3. reading' = reading + 1
  BY <1>2 DEF QueueInv
<1>4. QED
  BY <1>3, Names DEF ControlInv, TelemetryReceive, Goto, Moves, writing, line, commanding

LEMMA TakeEffect ==
  ASSUME ControlInv, TelemetryTake
  PROVE  Moves("lock", "locked") /\ written' = written /\ reading' = reading
BY Names DEF ControlInv, TelemetryTake, Take, Goto, Moves, writing, line, commanding

LEMMA ReadEffect ==
  ASSUME ControlInv, WritingInv, TelemetryRead
  PROVE  /\ pc["telemetry"] = "locked" /\ pc'["telemetry"] = "check"
         /\ pc'["command"] = pc["command"]
         /\ message'["command"] = message["command"]
         /\ written'["command"] = written["command"] /\ written'["telemetry"] = 0
         /\ UNCHANGED Rest
BY Names DEF ControlInv, WritingInv, TelemetryRead, Give, Begin, Goto, Rest, line, commanding

LEMMA DoneEffect ==
  ASSUME ControlInv, TelemetryDone
  PROVE  Moves("done", "receive") /\ written' = written /\ reading' = reading
BY Names DEF ControlInv, TelemetryDone, Goto, Moves, writing, line, commanding

Other == [command |-> "telemetry", telemetry |-> "command"]

LEMMA Others == Other["command"] = "telemetry" /\ Other["telemetry"] = "command"
BY DEF Other

\* TelemetryTask runs outside its critical section: CommandTask is not writing.
LEMMA Alone ==
  ASSUME ControlInv, Runs("telemetry"), pc["telemetry"] # "locked"
  PROVE  pc["command"] \in {"sleep", "lock"}
<1>1. Blocked("command")
  BY TelemetryRuns, Names DEF ControlInv
<1>2. QED
  BY <1>1, Names DEF Blocked, ControlInv, CommandLabel

LEMMA CheckEffect ==
  ASSUME ControlInv, NEW t \in Writer, Check(t)
  PROVE  /\ pc[t] = "check" /\ pc'[t] = "store" /\ pc'[Other[t]] = pc[Other[t]]
         /\ data = <<>>
         /\ t = "telemetry" => pc["command"] \in {"sleep", "lock"}
         /\ UNCHANGED <<message, written, Rest>>
BY Names, Others, Alone DEF ControlInv, Check, Goto, Rest, writing, line, commanding

LEMMA StoreEffect ==
  ASSUME ControlInv, WritingInv, NEW t \in Writer, Store(t)
  PROVE  /\ pc[t] = "store"
         /\ pc'[t] = IF written[t] + 1 = FrameSize THEN "done" ELSE "check"
         /\ pc'[Other[t]] = pc[Other[t]]
         /\ written'[t] = written[t] + 1 /\ written'[Other[t]] = written[Other[t]]
         /\ data' = <<<<message[t], written[t] + 1>>>> \/ (data # <<>> /\ data' = data)
         /\ t = "telemetry" => pc["command"] \in {"sleep", "lock"}
         /\ UNCHANGED <<message, reading, heartbeats, run, delivered>>
<1>1. /\ pc[t] = "store" /\ Runs(t)
      /\ data' = <<<<message[t], written[t] + 1>>>> \/ (data # <<>> /\ data' = data)
      /\ UNCHANGED <<message, reading, heartbeats, run, delivered>>
  BY DEF Store, commanding
<1>2. written'[t] = written[t] + 1 /\ written'[Other[t]] = written[Other[t]]
  BY Names, Others DEF Store, WritingInv
<1>3. /\ pc'[t] = IF written[t] + 1 = FrameSize THEN "done" ELSE "check"
      /\ pc'[Other[t]] = pc[Other[t]]
  BY <1>2, Names, Others DEF Store, Goto, ControlInv
<1>4. QED
  BY <1>1, <1>2, <1>3, Alone

LEMMA TransmitEffect ==
  ASSUME Transmit
  PROVE  /\ data # <<>> /\ data' = <<>>
         /\ data[1][2] # FrameSize => run' = Append(run, data[1]) /\ delivered' = delivered
         /\ data[1][2] = FrameSize =>
              /\ run' = <<>>
              /\ delivered' = IF run # <<>> /\ run = Body(run[1][1])
                              THEN Append(delivered, run[1][1]) ELSE delivered
         /\ UNCHANGED <<pc, message, written, reading, heartbeats>>
BY Zenon DEF Transmit, writing, commanding

---------------------------------------------------------------------------
\* The line.

LineTypes ==
  /\ data \in Seq(Byte) /\ Len(data) <= 1
  /\ run \in Seq(Byte)
  /\ delivered \in Seq(Frame)
  /\ \A i \in 1..Len(run) : run[i][2] < FrameSize

LEMMA Appended ==
  ASSUME NEW S, NEW s \in Seq(S), NEW x \in S
  PROVE  /\ Append(s, x) \in Seq(S) /\ Len(s) \in Nat /\ Len(Append(s, x)) = Len(s) + 1
         /\ \A i \in 1..Len(s) : Append(s, x)[i] = s[i]
         /\ Append(s, x)[Len(s) + 1] = x
         /\ Append(s, x) # <<>>
OBVIOUS

LEMMA EmptySeq ==
  ASSUME NEW S
  PROVE  <<>> \in Seq(S) /\ Len(<<>>) = 0 /\ \A s \in Seq(S) : s = <<>> <=> Len(s) = 0
OBVIOUS

LEMMA SeqFunction ==
  ASSUME NEW S, NEW s \in Seq(S)
  PROVE  s \in [1..Len(s) -> S] /\ Len(s) \in Nat
OBVIOUS

LEMMA Single ==
  ASSUME NEW S, NEW s \in Seq(S), Len(s) = 1
  PROVE  s[1] \in S /\ s = <<s[1]>>
<1>1. s \in [1..1 -> S]
  BY SeqFunction, Zenon
<1>2. <<s[1]>> \in [1..1 -> S] /\ <<s[1]>>[1] = s[1]
  BY <1>1
<1>3. QED
  BY <1>1, <1>2

LEMMA OneByte ==
  ASSUME NEW b \in Byte
  PROVE  <<b>> \in Seq(Byte) /\ Len(<<b>>) = 1 /\ <<b>>[1] = b /\ <<b>> # <<>>
OBVIOUS

LEMMA ByteOf ==
  ASSUME NEW f \in Frame, NEW k \in 1..FrameSize
  PROVE  <<f, k>> \in Byte /\ <<f, k>>[1] = f /\ <<f, k>>[2] = k
BY DEF Byte

LEMMA ByteParts ==
  ASSUME NEW b \in Byte
  PROVE  b[1] \in Frame /\ b[2] \in 1..FrameSize /\ b = <<b[1], b[2]>>
BY DEF Byte

\* The buffer holds a byte or none.
LEMMA Buffer ==
  ASSUME LineTypes
  PROVE  /\ Len(run) \in Nat /\ (run = <<>> <=> Len(run) = 0)
         /\ data = <<>> <=> Len(data) = 0
         /\ data # <<>> => Len(data) = 1 /\ data[1] \in Byte /\ data = <<data[1]>>
         /\ \A i \in 1..Len(run) : run[i] \in Byte
<1>1. run \in Seq(Byte) /\ data \in Seq(Byte) /\ Len(data) <= 1
  BY DEF LineTypes
<1>2. Len(run) \in Nat /\ \A i \in 1..Len(run) : run[i] \in Byte
  BY <1>1
<1>3. (run = <<>> <=> Len(run) = 0) /\ (data = <<>> <=> Len(data) = 0)
  BY <1>1, EmptySeq
<1>4. Len(data) \in Nat /\ Len(data) <= 1
  BY <1>1
<1>5. data # <<>> => Len(data) = 1
  <2>1. data # <<>> => Len(data) # 0
    BY <1>3, Zenon
  <2>2. \A n \in Nat : n <= 1 => n = 0 \/ n = 1
    OBVIOUS
  <2>3. QED
    BY <1>4, <2>1, <2>2, Zenon
<1>6. Len(data) = 1 => data[1] \in Byte /\ data = <<data[1]>>
  BY <1>1, Single
<1>7. QED
  BY <1>2, <1>3, <1>5, <1>6

LEMMA LineTypesInit == Init => LineTypes
<1> SUFFICES ASSUME Init PROVE LineTypes
  OBVIOUS
<1>1. data = <<>> /\ run = <<>> /\ delivered = <<>>
  BY DEF Init
<1>2. QED
  BY <1>1, EmptySeq DEF LineTypes

LEMMA LineTypesStep ==
  ControlInv /\ QueueInv /\ WritingInv /\ LineTypes /\ [Next]_vars => LineTypes'
<1> SUFFICES ASSUME ControlInv, QueueInv, WritingInv, LineTypes, [Next]_vars PROVE LineTypes'
  OBVIOUS
<1>1. ASSUME UNCHANGED <<data, run, delivered>> PROVE LineTypes'
  BY <1>1 DEF LineTypes
<1>2. ASSUME NEW t \in Writer, Store(t) PROVE LineTypes'
  <2>1. message[t] \in Frame /\ written[t] + 1 \in 1..FrameSize
    BY <1>2, StoreEffect, Size DEF WritingInv, Writing
  <2>2. <<message[t], written[t] + 1>> \in Byte
    BY <2>1, ByteOf
  <2>3. data' = <<<<message[t], written[t] + 1>>>> \/ data' = data
    BY <1>2, StoreEffect
  <2>4. data' \in Seq(Byte) /\ Len(data') <= 1
    <3>1. CASE data' = <<<<message[t], written[t] + 1>>>>
      BY <2>2, <3>1, OneByte
    <3>2. CASE data' = data
      BY <3>2, Zenon DEF LineTypes
    <3>3. QED
      BY <2>3, <3>1, <3>2
  <2>5. run' = run /\ delivered' = delivered
    BY <1>2, StoreEffect
  <2>6. QED
    BY <2>4, <2>5 DEF LineTypes
<1>3. CASE Transmit
  <2>1. data[1] \in Byte /\ data' = <<>>
    BY <1>3, TransmitEffect, Buffer
  <2>2. CASE data[1][2] # FrameSize
    <3>1. run' = Append(run, data[1]) /\ delivered' = delivered /\ data[1][2] < FrameSize
      BY <1>3, <2>1, <2>2, TransmitEffect, ByteParts, Size
    <3>2. /\ run' \in Seq(Byte) /\ Len(run) \in Nat /\ Len(run') = Len(run) + 1
          /\ \A i \in 1..Len(run) : run'[i] = run[i]
          /\ run'[Len(run) + 1] = data[1]
      BY <2>1, <3>1, Appended DEF LineTypes
    <3>3. \A i \in 1..Len(run') : run'[i][2] < FrameSize
      BY <3>1, <3>2 DEF LineTypes
    <3>4. QED
      BY <2>1, <3>1, <3>2, <3>3, EmptySeq DEF LineTypes
  <2>3. CASE data[1][2] = FrameSize
    <3>1. /\ run' = <<>>
          /\ delivered' = delivered \/ (run # <<>> /\ delivered' = Append(delivered, run[1][1]))
      BY <1>3, <2>3, TransmitEffect
    <3>2. run # <<>> => run[1][1] \in Frame
      BY Buffer, ByteParts
    <3>3. delivered' \in Seq(Frame)
      BY <3>1, <3>2, Appended DEF LineTypes
    <3>4. QED
      BY <2>1, <3>1, <3>3, EmptySeq DEF LineTypes
  <2>4. QED
    BY <2>2, <2>3
<1>4. CASE Quiet \/ CommandHello \/ (CommandIdle /\ due)
  BY <1>1, <1>4, HelloEffect, HeartbeatEffect DEF Quiet, Rest, Begins
<1>5. CASE TelemetryReceive \/ TelemetryTake \/ TelemetryRead \/ TelemetryDone
  BY <1>1, <1>5, ReceiveEffect, TakeEffect, ReadEffect, DoneEffect DEF Moves, Rest
<1>6. ASSUME NEW t \in Writer, Check(t) PROVE LineTypes'
  BY <1>1, <1>6, CheckEffect DEF Rest
<1>7. QED
  BY <1>2, <1>3, <1>4, <1>5, <1>6, Kinds, Names

---------------------------------------------------------------------------
\* Priority inversion and the rate.

\* A task moves because it runs, or because its delay has ended.
LEMMA Mover ==
  ASSUME ControlInv, [Next]_vars, NEW t \in Task, pc'[t] # pc[t]
  PROVE  Runs(t) \/ pc[t] = "sleep"
<1> USE Names DEF ControlInv, Goto
<1>1. CASE SensorTake \/ SensorRead \/ SensorSend \/ SensorWake
  BY <1>1 DEF SensorTake, SensorRead, SensorSend, SensorWake, Take, Give
<1>2. CASE CommandHello \/ CommandStamp \/ CommandIdle \/ CommandByte
  BY <1>2 DEF CommandHello, CommandStamp, CommandIdle, CommandByte
<1>3. CASE CommandTake \/ CommandApply \/ CommandWake
  BY <1>3 DEF CommandTake, CommandApply, CommandWake, Take, Give
<1>4. CASE TelemetryReceive \/ TelemetryTake \/ TelemetryRead \/ TelemetryDone
  BY <1>4 DEF TelemetryReceive, TelemetryTake, TelemetryRead, TelemetryDone, Take, Give
<1>5. ASSUME NEW u \in Writer, Check(u) \/ Store(u) PROVE Runs(t)
  BY <1>5 DEF Check, Store
<1>6. CASE Transmit \/ Arrive \/ Elapse \/ UNCHANGED vars
  BY <1>6 DEF Transmit, Arrive, Elapse, vars
<1>7. QED
  BY <1>1, <1>2, <1>3, <1>4, <1>5, <1>6 DEF Next

\* The control of the tasks, the queue and the rate are as above in every
\* state, whatever the scheduler, the UART and the line do.
THEOREM TasksInvariant == Spec => [](ControlInv /\ QueueInv /\ RateInv)
<1>1. Init => ControlInv /\ QueueInv /\ RateInv
  BY ControlInit, QueueInit, RateInit
<1>2. ControlInv /\ QueueInv /\ RateInv /\ [Next]_vars => (ControlInv /\ QueueInv /\ RateInv)'
  BY ControlStep, QueueStep, RateStep
<1>3. QED
  BY <1>1, <1>2, PTL DEF Spec

\* Priority inheritance keeps the inversion bounded: while SensorTask waits for
\* config_mutex no task but its owner moves, except out of a delay.
THEOREM InversionIsBounded == Spec => InversionBounded
<1> DEFINE Only ==
      pc["sensor"] = "lock" /\ mutex # "free" =>
        \A t \in Task : pc'[t] # pc[t] => t = mutex \/ pc[t] = "sleep"
<1>1. ControlInv /\ [Next]_vars => [Only]_vars
  BY Mover, OwnerRuns
<1>2. InversionBounded <=> [][Only]_vars
  BY DEF InversionBounded
<1> HIDE DEF Only
<1>3. QED
  BY <1>1, <1>2, TasksInvariant, PTL DEF Spec

\* Unless SensorTask has waited for room in the queue, the delay that follows a
\* reading is for the rate in force: CommandTask cannot change the rate between
\* the look at it and the delay, because it has the lower priority.
THEOREM RateIsPrompt == Spec => PromptRate
<1> DEFINE Prompt ==
      pc["sensor"] = "send" /\ pc'["sensor"] = "sleep" /\ ~waited => rate_hz = sample_rate_hz
<1>1. ASSUME ControlInv, QueueInv, RateInv, [Next]_vars PROVE [Prompt]_vars
  <2> SUFFICES ASSUME pc["sensor"] = "send", pc'["sensor"] = "sleep", ~waited
               PROVE  rate_hz = sample_rate_hz
    OBVIOUS
  <2>1. Runs("sensor")
    BY <1>1, Mover, Names
  <2>2. Len(reading_queue) # kQueueCapacity
    BY <2>1 DEF Runs, Blocked
  <2>3. QED
    BY <1>1, <2>2 DEF RateInv
<1>2. PromptRate <=> [][Prompt]_vars
  BY DEF PromptRate
<1> HIDE DEF Prompt
<1>3. QED
  BY <1>1, <1>2, TasksInvariant, PTL DEF Spec
=============================================================================
