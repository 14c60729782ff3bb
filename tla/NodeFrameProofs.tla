--------------------------- MODULE NodeFrameProofs --------------------------
(***************************************************************************)
(* Proofs about the frames the device sends: what two tasks that write     *)
(* byte by byte, one of them without the mutex, can and cannot do to them. *)
(***************************************************************************)
EXTENDS NodeProofs

---------------------------------------------------------------------------
\* CommandTask is never interrupted within a frame, so that its bytes are never
\* overrun but for the last; and a line that does not end in a delimiter is
\* one that a task is still writing to.

MidFrame(t) == Writing(t) /\ written[t] >= 1

Ours(b) == b[1][1] # "kSample"

LineInv ==
  /\ pc["command"] = "store" => data = <<>>
  /\ pc["telemetry"] = "store" /\ data # <<>> => Ours(data[1])
  /\ data # <<>> /\ Ours(data[1]) /\ data[1][2] # FrameSize => pc["command"] = "check"
  /\ MidFrame("command") =>
       IF data = <<>> THEN run # <<>> /\ Ours(run[Len(run)])
                      ELSE Ours(data[1]) /\ data[1][2] # FrameSize
  /\ (IF data = <<>> THEN run # <<>> ELSE data[1][2] # FrameSize)
       => MidFrame("command") \/ MidFrame("telemetry")

LEMMA LineInit == Init => LineInv
<1> SUFFICES ASSUME Init PROVE LineInv
  OBVIOUS
<1>1. data = <<>> /\ run = <<>>
  BY DEF Init
<1>2. pc["command"] = "hello" /\ pc["telemetry"] = "receive"
  BY DEF Init
<1>3. QED
  BY <1>1, <1>2 DEF LineInv, MidFrame, Writing

LEMMA LineStep ==
  ControlInv /\ QueueInv /\ WritingInv /\ LineTypes /\ LineInv /\ [Next]_vars => LineInv'
<1> SUFFICES ASSUME ControlInv, QueueInv, WritingInv, LineTypes, LineInv, [Next]_vars
             PROVE  LineInv'
  OBVIOUS
<1> USE DEF LineInv, MidFrame, Writing
<1>1. CASE Quiet
  BY <1>1 DEF Quiet, Rest
<1>2. CASE CommandHello \/ (CommandIdle /\ due)
  <2>1. /\ pc["command"] \in {"hello", "poll"} /\ pc'["command"] = "check"
        /\ pc'["telemetry"] = pc["telemetry"]
        /\ written'["command"] = 0 /\ written'["telemetry"] = written["telemetry"]
        /\ UNCHANGED <<data, run>>
    BY <1>2, HelloEffect, HeartbeatEffect DEF Begins
  <2>2. QED
    BY <2>1
<1>3. CASE TelemetryReceive \/ TelemetryTake \/ TelemetryDone
  BY <1>3, ReceiveEffect, TakeEffect, DoneEffect DEF Moves
<1>4. CASE TelemetryRead
  BY <1>4, ReadEffect DEF Rest
<1>5. CASE Check("command")
  BY <1>5, CheckEffect, Names, Others DEF Rest
<1>6. CASE Check("telemetry")
  BY <1>6, CheckEffect, Names, Others DEF Rest
<1>7. CASE Store("command")
  <2> DEFINE b == <<message["command"], written["command"] + 1>>
  <2>1. b \in Byte /\ Ours(b) /\ b[2] = written["command"] + 1
    <3>1. message["command"] \in Frame /\ written["command"] + 1 \in 1..FrameSize
      BY <1>7, StoreEffect, Names, Size DEF WritingInv
    <3>2. b \in Byte /\ b[1] = message["command"] /\ b[2] = written["command"] + 1
      BY <3>1, ByteOf
    <3>3. QED
      BY <3>2 DEF Ours, WritingInv
  <2>2. data' = <<b>>
    BY <1>7, StoreEffect, Names
  <2> HIDE DEF b
  <2>3. data' # <<>> /\ data'[1] = b
    BY <2>1, <2>2, OneByte
  <2>4. /\ pc'["command"] = IF b[2] = FrameSize THEN "done" ELSE "check"
        /\ pc'["telemetry"] = pc["telemetry"]
        /\ written'["command"] = b[2] /\ written'["telemetry"] = written["telemetry"]
        /\ b[2] >= 1
    BY <1>7, <2>1, StoreEffect, Names, Others DEF WritingInv
  <2>5. QED
    BY <2>1, <2>3, <2>4
<1>8. CASE Store("telemetry")
  <2> DEFINE b == <<message["telemetry"], written["telemetry"] + 1>>
  <2>1. b \in Byte /\ b[2] = written["telemetry"] + 1 /\ ~Ours(b)
    <3>1. message["telemetry"] \in Frame /\ written["telemetry"] + 1 \in 1..FrameSize
      BY <1>8, StoreEffect, Names, Size DEF WritingInv
    <3>2. b \in Byte /\ b[1] = message["telemetry"] /\ b[2] = written["telemetry"] + 1
      BY <3>1, ByteOf
    <3>3. message["telemetry"][1] = "kSample"
      BY <1>8, StoreEffect, Names DEF WritingInv
    <3>4. QED
      BY <3>2, <3>3 DEF Ours
  <2>2. data' = <<b>> \/ (data # <<>> /\ data' = data)
    BY <1>8, StoreEffect, Names
  <2> HIDE DEF b
  <2>3. /\ pc["telemetry"] = "store"
        /\ pc["command"] \in {"sleep", "lock"} /\ pc'["command"] = pc["command"]
        /\ pc'["telemetry"] = IF b[2] = FrameSize THEN "done" ELSE "check"
        /\ written'["telemetry"] = b[2] /\ b[2] >= 1
    BY <1>8, <2>1, StoreEffect, Names, Others DEF WritingInv
  <2>4. CASE data' = <<b>>
    <3>1. data' # <<>> /\ data'[1] = b
      BY <2>1, <2>4, OneByte
    <3>2. QED
      BY <2>1, <2>3, <3>1
  <2>5. CASE data # <<>> /\ data' = data
    BY <2>3, <2>5
  <2>6. QED
    BY <2>2, <2>4, <2>5
<1>9. CASE Transmit
  <2>1. data # <<>> /\ data' = <<>> /\ UNCHANGED <<pc, written>>
    BY <1>9, TransmitEffect
  <2>2. CASE data[1][2] # FrameSize
    <3>1. run' = Append(run, data[1]) /\ data[1] \in Byte
      BY <1>9, <2>2, TransmitEffect, Buffer
    <3>2. run' # <<>> /\ run'[Len(run')] = data[1]
      BY <3>1, Appended DEF LineTypes
    <3>3. QED
      BY <2>1, <2>2, <3>2
  <2>3. CASE data[1][2] = FrameSize
    <3>1. run' = <<>>
      BY <1>9, <2>3, TransmitEffect
    <3>2. QED
      BY <2>1, <2>3, <3>1
  <2>4. QED
    BY <2>2, <2>3
<1>10. QED
  BY <1>1, <1>2, <1>3, <1>4, <1>5, <1>6, <1>7, <1>8, <1>9, Kinds

---------------------------------------------------------------------------
\* The greeting.

\* The bytes on the line are the first k of frame f, and nothing else.
Line(f, k) ==
  /\ Len(run) + Len(data) = k
  /\ \A i \in 1..Len(run) : run[i] = <<f, i>>
  /\ data # <<>> => data[1] = <<f, k>>

LEMMA LineEmpty ==
  ASSUME data = <<>>, run = <<>>, NEW f
  PROVE  Line(f, 0)
BY EmptySeq DEF Line

LEMMA LineStored ==
  ASSUME LineTypes, NEW f \in Frame, NEW k \in 0..(FrameSize - 1), Line(f, k), data = <<>>,
         data' = <<<<f, k + 1>>>>, run' = run
  PROVE  Line(f, k + 1)'
<1>1. k + 1 \in 1..FrameSize /\ <<f, k + 1>> \in Byte
  BY ByteOf, Size
<1>2. Len(data') = 1 /\ data'[1] = <<f, k + 1>>
  BY <1>1, OneByte
<1>3. Len(run) = k
  BY Buffer DEF Line
<1>4. QED
  BY <1>2, <1>3 DEF Line

LEMMA LineShifted ==
  ASSUME LineTypes, NEW f, NEW k, Line(f, k), data # <<>>,
         data' = <<>>, run' = Append(run, data[1])
  PROVE  Line(f, k)'
<1>1. Len(data) = 1 /\ data[1] \in Byte /\ data[1] = <<f, k>>
  BY Buffer DEF Line
<1>2. k = Len(run) + 1 /\ Len(run) \in Nat
  BY <1>1, Buffer DEF Line
<1>3. /\ Len(run') = Len(run) + 1 /\ run'[Len(run) + 1] = data[1]
      /\ \A i \in 1..Len(run) : run'[i] = run[i]
  BY <1>1, Appended DEF LineTypes
<1>4. Len(data') = 0
  BY EmptySeq
<1>5. \A i \in 1..Len(run') : run'[i] = <<f, i>>
  BY <1>1, <1>2, <1>3 DEF Line
<1>6. QED
  BY <1>2, <1>3, <1>4, <1>5 DEF Line

\* A frame that is on the line whole is one the other end accepts.
LEMMA LineWhole ==
  ASSUME LineTypes, NEW f, Line(f, FrameSize)
  PROVE  /\ data # <<>> /\ data[1][2] = FrameSize
         /\ run # <<>> /\ run = Body(f) /\ run[1][1] = f
<1>1. data # <<>>
  <2> SUFFICES ASSUME data = <<>> PROVE FALSE
    OBVIOUS
  <2>1. Len(run) = FrameSize
    BY Buffer, Size DEF Line
  <2>2. run[FrameSize][2] = FrameSize /\ run[FrameSize][2] < FrameSize
    BY <2>1, Size DEF Line, LineTypes
  <2>3. QED
    BY <2>2, Size
<1>2. data[1][2] = FrameSize
  BY <1>1 DEF Line
<1>3. Len(run) = FrameSize - 1
  <2>1. Len(data) = 1 /\ Len(run) \in Nat /\ Len(run) + Len(data) = FrameSize
    BY <1>1, Buffer DEF Line
  <2>2. \A m, n, k \in Nat : m + n = k /\ n = 1 => m = k - 1
    OBVIOUS
  <2>3. 1 \in Nat /\ FrameSize \in Nat
    BY Size
  <2>4. QED
    BY <2>1, <2>2, <2>3, Zenon
<1>4. run # <<>> /\ run[1][1] = f
  BY <1>3, Buffer, Size DEF Line
<1>5. run = Body(f)
  <2>1. run \in [1..(FrameSize - 1) -> Byte]
    BY <1>3, SeqFunction, Zenon DEF LineTypes
  <2>2. \A i \in 1..(FrameSize - 1) : run[i] = <<f, i>>
    BY <1>3, Zenon DEF Line
  <2>3. QED
    BY <2>1, <2>2, Zenon DEF Body
<1>6. QED
  BY <1>1, <1>2, <1>4, <1>5

Hello == <<"kHello", 0>>

\* How much of the HELLO has been stored.
Greeted == IF message["command"][1] = "kHeartbeat" THEN FrameSize ELSE written["command"]

Greeting ==
  \/ pc["command"] = "hello"
  \/ message["command"] = Hello /\ pc["command"] \in {"check", "store", "done"}

HelloInv ==
  /\ pc["command"] = "hello" =>
       written["command"] = 0 /\ delivered = <<>> /\ message["command"][1] = "none"
  /\ pc["command"] # "hello" => message["command"] = Hello \/ message["command"][1] = "kHeartbeat"
  /\ Greeting => pc["telemetry"] = "receive" /\ reading < 0
  /\ IF delivered = <<>>
     THEN /\ Line(Hello, Greeted)
          /\ message["command"][1] = "kHeartbeat" => pc["command"] = "check"
          /\ pc["telemetry"] \in {"receive", "lock", "locked", "check"}
     ELSE delivered[1][1] = "kHello"

LEMMA HelloFrame == Hello \in Frame /\ Hello[1] = "kHello"
BY FrameOf DEF Hello

LEMMA HelloInit == Init => HelloInv
<1> SUFFICES ASSUME Init PROVE HelloInv
  OBVIOUS
<1>1. data = <<>> /\ run = <<>> /\ delivered = <<>>
  BY DEF Init
<1>2. pc["command"] = "hello" /\ pc["telemetry"] = "receive" /\ reading < 0
  BY DEF Init
<1>3. written["command"] = 0 /\ message["command"][1] = "none"
  BY Names DEF Init
<1>4. Line(Hello, Greeted)
  BY <1>1, <1>3, LineEmpty DEF Greeted
<1>5. QED
  BY <1>1, <1>2, <1>3, <1>4 DEF HelloInv

LEMMA HelloStep ==
  ControlInv /\ QueueInv /\ WritingInv /\ LineTypes /\ LineInv /\ HelloInv /\ [Next]_vars
    => HelloInv'
<1> SUFFICES ASSUME ControlInv, QueueInv, WritingInv, LineTypes, LineInv, HelloInv, [Next]_vars
             PROVE  HelloInv'
  OBVIOUS
<1> USE DEF HelloInv, Greeting
<1>1. ASSUME UNCHANGED <<data, run, Greeted>> PROVE Line(Hello, Greeted)' <=> Line(Hello, Greeted)
  BY <1>1 DEF Line, Hello
<1>2. CASE Quiet
  <2>1. UNCHANGED <<data, run, delivered, message, written, reading, Greeted>>
    BY <1>2 DEF Quiet, Rest, Greeted
  <2>2. QED
    BY <1>1, <1>2, <2>1, HelloFrame DEF Quiet
<1>3. CASE CommandHello
  <2>1. /\ pc["command"] = "hello" /\ pc'["command"] = "check"
        /\ pc'["telemetry"] = pc["telemetry"] /\ message'["command"] = Hello
        /\ written'["command"] = 0 /\ UNCHANGED <<data, run, delivered, reading>>
    BY <1>3, HelloEffect DEF Begins, Hello
  <2>2. Greeted' = Greeted
    BY <2>1, HelloFrame DEF Greeted
  <2>3. QED
    BY <1>1, <2>1, <2>2, HelloFrame
<1>4. CASE CommandIdle /\ due
  <2>1. /\ pc["command"] = "poll" /\ pc'["command"] = "check"
        /\ pc'["telemetry"] = pc["telemetry"]
        /\ message'["command"][1] = "kHeartbeat"
        /\ UNCHANGED <<data, run, delivered, reading>>
    BY <1>4, HeartbeatEffect DEF Begins
  <2>2. Greeted' = Greeted
    BY <2>1 DEF Greeted, WritingInv, Writing
  <2>3. QED
    BY <1>1, <2>1, <2>2, HelloFrame
<1>5. CASE TelemetryReceive \/ TelemetryTake \/ TelemetryRead \/ TelemetryDone
  <2>1. ~Greeting
    <3>1. ASSUME Greeting PROVE FALSE
      <4>1. pc["telemetry"] = "receive" /\ pc["command"] \in {"hello", "check", "store", "done"}
        BY <3>1
      <4>2. TelemetryReceive
        BY <1>5, <4>1, TakeEffect, ReadEffect, DoneEffect DEF Moves
      <4>3. pc["command"] \in {"sleep", "lock"}
        BY <4>1, <4>2, Alone DEF TelemetryReceive
      <4>4. QED
        BY <4>1, <4>3
    <3>2. QED
      BY <3>1
  <2>2. /\ pc["telemetry"] \in {"receive", "lock", "locked", "done"}
        /\ pc["telemetry"] = "done" \/ pc'["telemetry"] \in {"lock", "locked", "check"}
        /\ pc'["command"] = pc["command"] /\ message'["command"] = message["command"]
        /\ written'["command"] = written["command"]
        /\ UNCHANGED <<data, run, delivered>>
    BY <1>5, ReceiveEffect, TakeEffect, ReadEffect, DoneEffect DEF Moves, Rest
  <2>3. Greeted' = Greeted
    BY <2>2 DEF Greeted
  <2>4. QED
    BY <1>1, <2>1, <2>2, <2>3
<1>6. CASE Check("command")
  <2>1. /\ pc["command"] = "check" /\ pc'["command"] = "store"
        /\ pc'["telemetry"] = pc["telemetry"] /\ data = <<>>
        /\ UNCHANGED <<message, written, reading, data, run, delivered>>
    BY <1>6, CheckEffect, Names, Others DEF Rest
  <2>2. Greeted' = Greeted
    BY <2>1 DEF Greeted
  <2>3. delivered = <<>> => message["command"][1] # "kHeartbeat"
    BY <2>1, LineWhole DEF Greeted
  <2>4. QED
    BY <1>1, <2>1, <2>2, <2>3
<1>7. CASE Check("telemetry")
  <2>1. /\ pc["telemetry"] = "check" /\ data = <<>>
        /\ pc["command"] \in {"sleep", "lock"} /\ pc'["command"] = pc["command"]
        /\ UNCHANGED <<message, written, reading, data, run, delivered>>
    BY <1>7, CheckEffect, Names, Others DEF Rest
  <2>2. delivered # <<>>
    <3>1. Greeted = FrameSize
      BY <2>1 DEF Greeted, WritingInv, Writing
    <3>2. QED
      BY <2>1, <3>1, LineWhole
  <2>3. QED
    BY <2>1, <2>2
<1>8. CASE Store("command")
  <2>1. /\ pc["command"] = "store" /\ pc'["command"] \in {"check", "done"}
        /\ pc'["telemetry"] = pc["telemetry"] /\ UNCHANGED <<message, reading, run, delivered>>
        /\ written'["command"] = written["command"] + 1
    BY <1>8, StoreEffect, Names, Others
  <2>2. data = <<>> /\ data' = <<<<message["command"], written["command"] + 1>>>>
    BY <1>8, <2>1, StoreEffect, Names DEF LineInv
  <2>3. ASSUME delivered = <<>> PROVE Line(Hello, Greeted)' /\ message["command"][1] # "kHeartbeat"
    <3>1. message["command"] = Hello /\ Greeted = written["command"] /\ Greeted' = Greeted + 1
      BY <2>1, <2>3, HelloFrame DEF Greeted
    <3>2. Greeted \in 0..(FrameSize - 1)
      BY <2>1, <3>1, Names, Size DEF WritingInv, Writing
    <3>3. Line(Hello, Greeted)
      BY <2>3
    <3>4. PICK k : k = Greeted
      OBVIOUS
    <3>5. Line(Hello, k + 1)'
      BY <2>1, <2>2, <3>1, <3>2, <3>3, <3>4, HelloFrame, LineStored
    <3>6. Greeted' = k + 1
      BY <3>1, <3>4
    <3>7. QED
      BY <3>1, <3>5, <3>6, HelloFrame DEF Line, Hello
  <2>4. QED
    BY <2>1, <2>3
<1>9. CASE Store("telemetry")
  BY <1>9, StoreEffect, Names, Others
<1>10. CASE Transmit
  <2>1. /\ data # <<>> /\ data' = <<>> /\ UNCHANGED <<pc, message, written, reading>>
    BY <1>10, TransmitEffect
  <2>2. CASE delivered = <<>>
    <3>1. PICK k : k = Greeted
      OBVIOUS
    <3>2. Line(Hello, k) /\ Greeted' = k
      BY <2>1, <2>2, <3>1 DEF Greeted
    <3>3. CASE data[1][2] # FrameSize
      <4>1. Line(Hello, k)' /\ delivered' = delivered
        BY <1>10, <2>1, <3>2, <3>3, TransmitEffect, LineShifted
      <4>2. Line(Hello, Greeted)'
        BY <3>2, <4>1 DEF Line, Hello
      <4>3. QED
        BY <2>1, <2>2, <4>1, <4>2
    <3>4. CASE data[1][2] = FrameSize
      <4>1. k = FrameSize
        BY <2>1, <3>2, <3>4 DEF Line
      <4>2. run # <<>> /\ run = Body(run[1][1]) /\ run[1][1] = Hello
        BY <3>2, <4>1, LineWhole
      <4>3. delivered' = Append(<<>>, Hello)
        BY <1>10, <2>2, <3>4, <4>2, TransmitEffect
      <4>4. delivered' # <<>> /\ delivered'[1] = Hello
        BY <4>3, HelloFrame, EmptySeq, Appended
      <4>5. pc["command"] # "hello"
        BY <3>1, <4>1, Size DEF Greeted
      <4>6. QED
        BY <2>1, <2>2, <4>4, <4>5, HelloFrame
    <3>5. QED
      BY <3>3, <3>4
  <2>3. CASE delivered # <<>>
    <3>1. delivered' = delivered \/ (run # <<>> /\ delivered' = Append(delivered, run[1][1]))
      BY <1>10, TransmitEffect
    <3>2. run # <<>> => run[1][1] \in Frame
      BY Buffer, ByteParts
    <3>3. delivered \in Seq(Frame) /\ Len(delivered) >= 1
      BY <2>3, EmptySeq DEF LineTypes
    <3>4. delivered' # <<>> /\ delivered'[1] = delivered[1]
      BY <2>3, <3>1, <3>2, <3>3, Appended
    <3>5. QED
      BY <2>1, <2>3, <3>4
  <2>4. QED
    BY <2>2, <2>3
<1>11. QED
  BY <1>2, <1>3, <1>4, <1>5, <1>6, <1>7, <1>8, <1>9, <1>10, Kinds

---------------------------------------------------------------------------
\* The order of the samples.

\* How many bytes of the n-th sample TelemetryTask has stored.
Stored(n) ==
  IF n < reading THEN FrameSize
  ELSE IF n = reading /\ pc["telemetry"] \notin {"lock", "locked"} THEN written["telemetry"] ELSE 0

OnLine(b) == (\E i \in 1..Len(run) : run[i] = b) \/ (data # <<>> /\ data[1] = b)

IsSample(f) == f[1] = "kSample"

\* What is on the line has been stored; and what has been delivered is older
\* than every sample that begins on the line.
OrderInv ==
  /\ \A b \in Byte : OnLine(b) /\ IsSample(b[1]) => b[1][2] \in Nat /\ b[2] <= Stored(b[1][2])
  /\ \A j \in 1..Len(delivered) : IsSample(delivered[j]) =>
       /\ delivered[j][2] \in Nat /\ Stored(delivered[j][2]) >= 1
       /\ \A b \in Byte : OnLine(b) /\ IsSample(b[1]) /\ b[2] = 1 => delivered[j][2] < b[1][2]
  /\ \A i, j \in 1..Len(delivered) :
       i < j /\ IsSample(delivered[i]) /\ IsSample(delivered[j]) => delivered[i][2] < delivered[j][2]

LEMMA StoredNat ==
  ASSUME WritingInv, NEW n \in Nat
  PROVE  Stored(n) \in 0..FrameSize
BY Names, Size DEF Stored, WritingInv

\* The count of a sample goes up by the bytes TelemetryTask stores.
LEMMA StoredStep ==
  ASSUME ControlInv, QueueInv, WritingInv, [Next]_vars, NEW n \in Nat
  PROVE  \/ Stored(n)' = Stored(n)
         \/ Store("telemetry") /\ n = reading /\ Stored(n) = written["telemetry"]
            /\ Stored(n)' = written["telemetry"] + 1
<1> USE DEF Stored
<1>1. CASE Quiet
  BY <1>1 DEF Quiet, Rest
<1>2. CASE CommandHello \/ (CommandIdle /\ due)
  BY <1>2, HelloEffect, HeartbeatEffect DEF Begins
<1>3. CASE TelemetryReceive
  <2>1. /\ reading' = reading + 1 /\ reading \in Int /\ written' = written
        /\ pc["telemetry"] = "receive" /\ pc'["telemetry"] = "lock"
    BY <1>3, ReceiveEffect DEF Moves, QueueInv
  <2>2. n = reading => written["telemetry"] = FrameSize
    BY <2>1 DEF WritingInv
  <2>3. QED
    BY <2>1, <2>2
<1>4. CASE TelemetryTake \/ TelemetryDone
  BY <1>4, TakeEffect, DoneEffect DEF Moves
<1>5. CASE TelemetryRead
  BY <1>5, ReadEffect DEF Rest
<1>6. CASE Check("command") \/ Check("telemetry")
  BY <1>6, CheckEffect, Names, Others DEF Rest
<1>7. CASE Store("command")
  BY <1>7, StoreEffect, Names, Others
<1>8. CASE Store("telemetry")
  <2>1. /\ pc["telemetry"] = "store" /\ pc'["telemetry"] \in {"check", "done"}
        /\ written'["telemetry"] = written["telemetry"] + 1 /\ reading' = reading
    BY <1>8, StoreEffect, Names
  <2>2. QED
    BY <1>8, <2>1
<1>9. CASE Transmit
  BY <1>9, TransmitEffect
<1>10. QED
  BY <1>1, <1>2, <1>3, <1>4, <1>5, <1>6, <1>7, <1>8, <1>9, Kinds, Zenon

LEMMA OnLineStep ==
  ASSUME ControlInv, QueueInv, WritingInv, LineTypes, [Next]_vars, NEW b, OnLine(b)'
  PROVE  \/ OnLine(b)
         \/ \E t \in Writer : Store(t) /\ b = <<message[t], written[t] + 1>>
<1> USE DEF OnLine
<1>1. CASE UNCHANGED <<data, run>>
  BY <1>1
<1>2. ASSUME NEW t \in Writer, Store(t)
      PROVE  OnLine(b) \/ b = <<message[t], written[t] + 1>>
  BY <1>2, StoreEffect
<1>3. CASE Transmit
  <2>1. data # <<>> /\ data' = <<>>
    BY <1>3, TransmitEffect
  <2>2. CASE data[1][2] # FrameSize
    <3>1. run' = Append(run, data[1]) /\ data[1] \in Byte
      BY <1>3, <2>1, <2>2, TransmitEffect, Buffer
    <3>2. /\ Len(run) \in Nat /\ Len(run') = Len(run) + 1 /\ run'[Len(run) + 1] = data[1]
          /\ \A i \in 1..Len(run) : run'[i] = run[i]
      BY <3>1, Appended DEF LineTypes
    <3>3. QED
      BY <2>1, <3>2
  <2>3. CASE data[1][2] = FrameSize
    BY <1>3, <2>1, <2>3, TransmitEffect, EmptySeq
  <2>4. QED
    BY <2>2, <2>3
<1>4. CASE Quiet \/ CommandHello \/ (CommandIdle /\ due)
  BY <1>1, <1>4, HelloEffect, HeartbeatEffect DEF Quiet, Rest, Begins
<1>5. CASE TelemetryReceive \/ TelemetryTake \/ TelemetryRead \/ TelemetryDone
  BY <1>1, <1>5, ReceiveEffect, TakeEffect, ReadEffect, DoneEffect DEF Moves, Rest
<1>6. CASE Check("command") \/ Check("telemetry")
  BY <1>1, <1>6, CheckEffect, Names DEF Rest
<1>7. QED
  BY <1>2, <1>3, <1>4, <1>5, <1>6, Kinds, Names

\* A frame is accepted when a whole one is on the line, which is empty then.
Accept ==
  /\ run # <<>> /\ run = Body(run[1][1])
  /\ run' = <<>> /\ data' = <<>>
  /\ delivered' = Append(delivered, run[1][1])

LEMMA DeliveredStep ==
  ASSUME ControlInv, QueueInv, WritingInv, [Next]_vars
  PROVE  delivered' = delivered \/ Accept
<1>1. CASE Transmit
  BY <1>1, TransmitEffect DEF Accept
<1>2. CASE Quiet \/ CommandHello \/ (CommandIdle /\ due)
  BY <1>2, HelloEffect, HeartbeatEffect DEF Quiet, Rest, Begins
<1>3. CASE TelemetryReceive \/ TelemetryTake \/ TelemetryRead \/ TelemetryDone
  BY <1>3, ReceiveEffect, TakeEffect, ReadEffect, DoneEffect DEF Moves, Rest
<1>4. CASE Check("command") \/ Check("telemetry") \/ Store("command") \/ Store("telemetry")
  BY <1>4, CheckEffect, StoreEffect, Names DEF Rest
<1>5. QED
  BY <1>1, <1>2, <1>3, <1>4, Kinds

LEMMA AcceptEffect ==
  ASSUME LineTypes, Accept
  PROVE  /\ run[1] \in Byte /\ run[1][2] = 1 /\ OnLine(run[1]) /\ run[1][1] \in Frame
         /\ \A b : ~OnLine(b)'
         /\ Len(delivered) \in Nat /\ Len(delivered') = Len(delivered) + 1
         /\ \A i \in 1..Len(delivered) : delivered'[i] = delivered[i]
         /\ delivered'[Len(delivered) + 1] = run[1][1]
<1>1. 1 \in 1..Len(run) /\ run[1] \in Byte
  BY Buffer DEF Accept
<1>2. run[1][1] \in Frame
  BY <1>1, ByteParts
<1>3. run[1][2] = 1
  <2>1. PICK f : f = run[1][1]
    OBVIOUS
  <2>2. run = [i \in 1..(FrameSize - 1) |-> <<f, i>>]
    BY <2>1, Zenon DEF Accept, Body
  <2>3. run[1] = <<f, 1>>
    BY <2>2, Size
  <2>4. QED
    BY <2>3
<1>4. OnLine(run[1])
  BY <1>1 DEF OnLine
<1>5. \A b : ~OnLine(b)'
  BY EmptySeq DEF Accept, OnLine
<1>6. QED
  BY <1>1, <1>2, <1>3, <1>4, <1>5, Appended DEF Accept, LineTypes

LEMMA OrderInit == Init => OrderInv
<1> SUFFICES ASSUME Init PROVE OrderInv
  OBVIOUS
<1>1. data = <<>> /\ run = <<>> /\ delivered = <<>>
  BY DEF Init
<1>2. QED
  BY <1>1, EmptySeq DEF OrderInv, OnLine

LEMMA OrderStep ==
  ControlInv /\ QueueInv /\ WritingInv /\ LineTypes /\ OrderInv /\ [Next]_vars => OrderInv'
<1> SUFFICES ASSUME ControlInv, QueueInv, WritingInv, LineTypes, OrderInv, [Next]_vars
             PROVE  OrderInv'
  OBVIOUS
<1>1. ASSUME NEW b \in Byte, OnLine(b)', IsSample(b[1]), ~OnLine(b)
      PROVE  /\ b[1][2] = reading /\ reading \in Nat /\ b[2] = written["telemetry"] + 1
             /\ Stored(reading) = written["telemetry"] /\ written["telemetry"] \in Nat
             /\ \A n \in Nat : n = reading => Stored(n)' = written["telemetry"] + 1
  <2>1. PICK t \in Writer : Store(t) /\ b = <<message[t], written[t] + 1>>
    BY <1>1, OnLineStep
  <2>2. t # "command"
    BY <1>1, <2>1 DEF WritingInv, IsSample
  <2>3. t = "telemetry"
    BY <2>1, <2>2, Names
  <2>4. pc["telemetry"] = "store" /\ message["telemetry"] = <<"kSample", reading>> /\ reading \in Nat
    BY <2>1, <2>3, StoreEffect, Names DEF WritingInv, QueueInv
  <2>5. /\ written'["telemetry"] = written["telemetry"] + 1 /\ reading' = reading
        /\ pc'["telemetry"] \in {"check", "done"}
    BY <2>1, <2>3, StoreEffect, Names
  <2>6. b[1][2] = reading /\ b[2] = written["telemetry"] + 1
    BY <2>1, <2>3, <2>4
  <2>7. QED
    BY <2>4, <2>5, <2>6, Names DEF Stored, WritingInv
<1>2. \A n \in Nat : Stored(n) \in Nat /\ Stored(n)' \in Nat /\ Stored(n) <= Stored(n)'
  <2> TAKE n \in Nat
  <2>1. Stored(n) \in Nat /\ written["telemetry"] \in Nat
    BY StoredNat, Names, Size DEF WritingInv
  <2>2. Stored(n)' = Stored(n) \/ (Stored(n) = written["telemetry"] /\ Stored(n)' = written["telemetry"] + 1)
    BY StoredStep
  <2>3. QED
    BY <2>1, <2>2
<1>3. \A b \in Byte : OnLine(b)' /\ IsSample(b[1]) => b[1][2] \in Nat /\ b[2] <= Stored(b[1][2])'
  <2> SUFFICES ASSUME NEW b \in Byte, OnLine(b)', IsSample(b[1])
               PROVE  b[1][2] \in Nat /\ b[2] <= Stored(b[1][2])'
    OBVIOUS
  <2>1. CASE OnLine(b)
    <3>1. b[1][2] \in Nat /\ b[2] <= Stored(b[1][2]) /\ b[2] \in Nat
      BY <2>1, ByteParts DEF OrderInv
    <3>2. QED
      BY <1>2, <3>1
  <2>2. CASE ~OnLine(b)
    BY <1>1, <2>2
  <2>3. QED
    BY <2>1, <2>2
<1>4. CASE delivered' = delivered
  <2>1. ASSUME NEW j \in 1..Len(delivered), IsSample(delivered[j])
        PROVE  /\ delivered[j][2] \in Nat /\ Stored(delivered[j][2])' >= 1
               /\ \A b \in Byte : OnLine(b)' /\ IsSample(b[1]) /\ b[2] = 1 => delivered[j][2] < b[1][2]
    <3>1. delivered[j][2] \in Nat /\ Stored(delivered[j][2]) >= 1
      BY <2>1, Zenon DEF OrderInv
    <3>2. Stored(delivered[j][2])' >= 1
      <4>1. PICK m \in Nat : m = delivered[j][2]
        BY <3>1
      <4>2. Stored(m) >= 1
        BY <3>1, <4>1, Zenon
      <4>3. Stored(m)' >= 1
        BY <1>2, <4>2
      <4>4. QED
        BY <1>4, <4>1, <4>3 DEF Stored
    <3>3. ASSUME NEW b \in Byte, OnLine(b)', IsSample(b[1]), b[2] = 1, ~OnLine(b)
          PROVE  delivered[j][2] < b[1][2]
      <4>1. b[1][2] = reading /\ reading \in Nat /\ written["telemetry"] = 0 /\ Stored(reading) = 0
        BY <1>1, <3>3
      <4>2. QED
        BY <3>1, <4>1 DEF Stored
    <3>4. QED
      BY <2>1, <3>1, <3>2, <3>3 DEF OrderInv
  <2>2. QED
    BY <1>3, <1>4, <2>1 DEF OrderInv, IsSample
<1>5. CASE Accept
  <2> DEFINE L == Len(delivered)
             f == run[1][1]
  <2>1. IsSample(f) => f[2] \in Nat /\ Stored(f[2]) >= 1
    BY <1>5, AcceptEffect DEF OrderInv
  <2>2. \A i \in 1..L : IsSample(delivered[i]) /\ IsSample(f) => delivered[i][2] < f[2]
    BY <1>5, AcceptEffect DEF OrderInv
  <2>3. /\ L \in Nat /\ Len(delivered') = L + 1 /\ delivered'[L + 1] = f
        /\ \A i \in 1..L : delivered'[i] = delivered[i]
    BY <1>5, AcceptEffect
  <2>4. \A b : ~OnLine(b)'
    BY <1>5, AcceptEffect
  <2> HIDE DEF f, L
  <2>5. ASSUME NEW j \in 1..(L + 1), IsSample(delivered'[j])
        PROVE  delivered'[j][2] \in Nat /\ Stored(delivered[j][2])' >= 1
    <3>1. PICK m : m = delivered'[j][2]
      OBVIOUS
    <3>2. m \in Nat /\ Stored(m) >= 1
      BY <2>1, <2>3, <2>5, <3>1 DEF OrderInv, L
    <3>3. Stored(m)' >= 1
      BY <1>2, <3>2
    <3>4. QED
      BY <3>1, <3>2, <3>3 DEF Stored
  <2>6. ASSUME NEW i \in 1..(L + 1), NEW j \in 1..(L + 1), i < j,
               IsSample(delivered'[i]), IsSample(delivered'[j])
        PROVE  delivered'[i][2] < delivered'[j][2]
    <3>1. CASE j = L + 1
      BY <2>2, <2>3, <2>6, <3>1
    <3>2. CASE j # L + 1
      BY <2>3, <2>6, <3>2 DEF OrderInv, L
    <3>3. QED
      BY <3>1, <3>2
  <2>7. QED
    BY <1>3, <2>3, <2>4, <2>5, <2>6 DEF OrderInv, IsSample
<1>6. QED
  BY <1>4, <1>5, DeliveredStep
=============================================================================
