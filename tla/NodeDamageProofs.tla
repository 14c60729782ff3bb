-------------------------- MODULE NodeDamageProofs --------------------------
(***************************************************************************)
(* Proofs about what of the frames the device sends arrives: the greeting  *)
(* first, the samples whole and in order, and no more of them lost than    *)
(* heartbeats were sent.                                                   *)
(***************************************************************************)
EXTENDS NodeFrameProofs, FiniteSetTheorems

---------------------------------------------------------------------------
\* The damage a heartbeat can do.

Sample(n) == <<"kSample", n>>

\* The samples begun that cannot arrive: what is on the line is not, or not
\* only, what has been stored of them.
Lost ==
  {n \in 0..reading :
     Stored(n) >= 1 /\ Sample(n) \notin Range(delivered) /\ ~Line(Sample(n), Stored(n))}

\* A heartbeat is about to break into a sample; or a sample is about to begin
\* behind the bytes of a heartbeat.
AtRisk ==
  \/ message["command"][1] = "kHeartbeat" /\ Writing("command") /\ written["command"] = 0
  \/ pc["telemetry"] = "store" /\ written["telemetry"] = 0 /\ (run # <<>> \/ data # <<>>)

DamageInv ==
  /\ Cardinality(Lost) <= heartbeats
  /\ AtRisk => Cardinality(Lost) < heartbeats

LEMMA SampleFrame ==
  ASSUME NEW n \in Nat
  PROVE  Sample(n) \in Frame /\ Sample(n)[1] = "kSample"
BY FrameOf DEF Sample

\* Whose byte a line ends in.
LEMMA LineTip ==
  ASSUME LineTypes, NEW n \in Nat, NEW k \in Nat, k >= 1, Line(Sample(n), k)
  PROVE  /\ data # <<>> => ~Ours(data[1])
         /\ data = <<>> => run # <<>> /\ ~Ours(run[Len(run)])
<1>1. data # <<>> => ~Ours(data[1])
  BY SampleFrame DEF Line, Ours
<1>2. ASSUME data = <<>> PROVE run # <<>> /\ ~Ours(run[Len(run)])
  <2>1. Len(run) = k
    BY <1>2, Buffer DEF Line
  <2>2. run # <<>> /\ run[Len(run)] = <<Sample(n), k>>
    BY <2>1, Buffer DEF Line
  <2>3. QED
    BY <2>2, SampleFrame DEF Ours
<1>3. QED
  BY <1>1, <1>2

LEMMA LineKept ==
  ASSUME NEW f, NEW k, Line(f, k), UNCHANGED <<data, run>>
  PROVE  Line(f, k)'
BY DEF Line

\* What has been delivered stays so, and a frame accepted is delivered.
LEMMA Delivered ==
  ASSUME ControlInv, QueueInv, WritingInv, LineTypes, [Next]_vars
  PROVE  Range(delivered) \subseteq Range(delivered')
<1>1. CASE delivered' = delivered
  BY <1>1
<1>2. CASE Accept
  <2>1. /\ Len(delivered) \in Nat /\ Len(delivered') = Len(delivered) + 1
        /\ \A i \in 1..Len(delivered) : delivered'[i] = delivered[i]
        /\ run[1][1] \in Frame
    BY <1>2, AcceptEffect
  <2>2. delivered' \in Seq(Frame) /\ delivered \in Seq(Frame)
    BY <1>2, <2>1, Appended DEF Accept, LineTypes
  <2>3. DOMAIN delivered = 1..Len(delivered) /\ DOMAIN delivered' = 1..Len(delivered')
    BY <2>2, SeqFunction
  <2>4. QED
    BY <2>1, <2>3 DEF Range
<1>3. QED
  BY <1>1, <1>2, DeliveredStep

LEMMA DeliveredWhole ==
  ASSUME LineTypes, Transmit, NEW f \in Frame, Line(f, FrameSize)
  PROVE  f \in Range(delivered')
<1>1. run # <<>> /\ run = Body(run[1][1]) /\ run[1][1] = f /\ data[1][2] = FrameSize
  BY LineWhole
<1>2. delivered' = Append(delivered, f)
  BY <1>1, TransmitEffect
<1>3. /\ delivered' \in Seq(Frame) /\ Len(delivered) \in Nat
      /\ Len(delivered') = Len(delivered) + 1 /\ delivered'[Len(delivered) + 1] = f
  BY <1>2, Appended DEF LineTypes
<1>4. DOMAIN delivered' = 1..Len(delivered')
  BY <1>3, SeqFunction
<1>5. QED
  BY <1>3, <1>4 DEF Range

\* How many bytes of a sample have been stored says where TelemetryTask is.
LEMMA StoredParts ==
  ASSUME QueueInv, WritingInv, NEW n \in Nat, Stored(n) >= 1
  PROVE  /\ n <= reading /\ (n < reading => Stored(n) = FrameSize)
         /\ ~(n = reading /\ written["telemetry"] = 0)
BY DEF Stored, QueueInv

\* A byte stored by CommandTask behind a sample that was intact is the first of
\* a heartbeat, and the sample is the one being written.
LEMMA CommandBreaks ==
  ASSUME ControlInv, QueueInv, WritingInv, LineTypes, LineInv, HelloInv, Store("command"),
         NEW n \in Nat, Stored(n) >= 1, Stored(n) \in Nat, Line(Sample(n), Stored(n))
  PROVE  /\ n = reading /\ AtRisk /\ ~AtRisk' /\ heartbeats' = heartbeats
<1>1. /\ pc["command"] = "store" /\ written'["command"] = written["command"] + 1
      /\ pc'["telemetry"] = pc["telemetry"] /\ written'["telemetry"] = written["telemetry"]
      /\ heartbeats' = heartbeats
  BY StoreEffect, Names, Others
<1>2. data = <<>>
  BY <1>1 DEF LineInv
<1>3. written["command"] = 0
  <2>1. ~Ours(run[Len(run)])
    BY <1>2, LineTip
  <2>2. ~MidFrame("command")
    BY <1>2, <2>1 DEF LineInv
  <2>3. written["command"] \in Nat
    BY Names, Size DEF WritingInv
  <2>4. QED
    BY <1>1, <2>2, <2>3 DEF MidFrame, Writing
<1>4. n <= reading /\ n >= 0 /\ reading \in Int
  BY StoredParts DEF QueueInv
<1>5. message["command"][1] = "kHeartbeat"
  BY <1>1, <1>4 DEF HelloInv, Greeting
<1>6. n = reading
  <2>1. Stored(n) # FrameSize
    BY <1>2, LineWhole
  <2>2. QED
    BY <1>4, <2>1, StoredParts
<1>7. ~AtRisk'
  <2>1. written'["telemetry"] # 0
    BY <1>1, <1>6, StoredParts
  <2>2. written'["command"] # 0
    BY <1>1, <1>3
  <2>3. QED
    BY <2>1, <2>2 DEF AtRisk
<1>8. QED
  BY <1>1, <1>3, <1>5, <1>6, <1>7 DEF AtRisk, Writing

\* A byte stored by TelemetryTask carries its own sample on, unless something
\* else is on the line.
LEMMA TelemetryBreaks ==
  ASSUME ControlInv, QueueInv, WritingInv, LineTypes, LineInv, Store("telemetry"),
         NEW k, k = written["telemetry"], reading \in Nat,
         k >= 1 => Line(Sample(reading), k)
  PROVE  \/ \A n \in Nat : n = reading => Line(Sample(n), k + 1)'
         \/ AtRisk /\ ~AtRisk' /\ heartbeats' = heartbeats
<1>1. /\ pc["telemetry"] = "store" /\ pc["command"] \in {"sleep", "lock"}
      /\ written'["telemetry"] = k + 1 /\ pc'["command"] = pc["command"]
      /\ heartbeats' = heartbeats /\ run' = run /\ reading' = reading
  BY StoreEffect, Names, Others
<1>2. k \in 0..(FrameSize - 1)
  BY <1>1, Names, Size DEF WritingInv, Writing
<1>3. message["telemetry"] = Sample(reading)
  BY <1>1 DEF WritingInv, Sample
<1>4. CASE Line(Sample(reading), k) /\ data = <<>>
  <2> SUFFICES ASSUME NEW n \in Nat, n = reading PROVE Line(Sample(n), k + 1)'
    OBVIOUS
  <2>1. data' = <<<<Sample(n), k + 1>>>>
    BY <1>3, <1>4, StoreEffect, Names
  <2>2. Sample(n) \in Frame /\ Line(Sample(n), k)
    BY <1>4, SampleFrame
  <2>3. QED
    BY <1>1, <1>2, <1>4, <2>1, <2>2, LineStored
<1>5. CASE k >= 1
  <2>1. data = <<>>
    BY <1>1, <1>2, <1>5, LineTip DEF LineInv
  <2>2. QED
    BY <1>4, <1>5, <2>1
<1>6. CASE k = 0 /\ data = <<>> /\ run = <<>>
  BY <1>4, <1>6, LineEmpty
<1>7. CASE k = 0 /\ (data # <<>> \/ run # <<>>)
  <2>1. AtRisk
    BY <1>1, <1>7 DEF AtRisk
  <2>2. ~AtRisk'
    BY <1>1, <1>7 DEF AtRisk, Writing
  <2>3. QED
    BY <1>1, <2>1, <2>2
<1>8. QED
  BY <1>2, <1>5, <1>6, <1>7

\* A sample that was not lost is lost at no step but the two of AtRisk.
LEMMA NewlyLost ==
  ASSUME ControlInv, QueueInv, WritingInv, LineTypes, LineInv, HelloInv, [Next]_vars,
         NEW n \in Lost', n \notin Lost
  PROVE  n = reading /\ AtRisk /\ ~AtRisk' /\ heartbeats' = heartbeats
<1>1. /\ n \in Nat /\ Stored(n)' >= 1 /\ Sample(n) \notin Range(delivered')
      /\ ~Line(Sample(n), Stored(n))'
  <2>1. reading' \in Int
    BY QueueStep DEF QueueInv
  <2>2. QED
    BY <2>1 DEF Lost, Sample
<1>2. Sample(n) \notin Range(delivered)
  BY <1>1, Delivered
<1>3. Stored(n) \in Nat
  BY <1>1, StoredNat, Size
<1>4. Stored(n) >= 1 => n \in 0..reading /\ Line(Sample(n), Stored(n))
  <2>1. Stored(n) >= 1 => n \in 0..reading
    BY <1>1, StoredParts DEF QueueInv
  <2>2. QED
    BY <1>2, <2>1 DEF Lost
<1>5. PICK k : k = Stored(n)
  OBVIOUS
<1>6. CASE Stored(n)' = Stored(n)
  <2>1. k \in Nat /\ k >= 1 /\ Line(Sample(n), k) /\ ~Line(Sample(n), k)' /\ n <= reading
    BY <1>1, <1>3, <1>4, <1>5, <1>6, StoredParts DEF Line, Sample
  <2>2. CASE UNCHANGED <<data, run>>
    BY <2>1, <2>2, LineKept
  <2>3. CASE Transmit
    <3>1. CASE data[1][2] # FrameSize
      BY <2>1, <2>3, <3>1, TransmitEffect, LineShifted
    <3>2. CASE data[1][2] = FrameSize
      <4>1. data # <<>>
        BY <2>3, TransmitEffect
      <4>2. k = FrameSize
        BY <2>1, <3>2, <4>1 DEF Line
      <4>3. QED
        BY <1>1, <2>1, <2>3, <4>2, SampleFrame, DeliveredWhole
    <3>3. QED
      BY <3>1, <3>2
  <2>4. CASE Store("command")
    BY <1>1, <1>3, <1>5, <2>1, <2>4, CommandBreaks
  <2>5. CASE Store("telemetry")
    <3>1. pc["telemetry"] = "store" /\ pc'["telemetry"] \in {"check", "done"}
          /\ written'["telemetry"] = written["telemetry"] + 1 /\ reading' = reading
      BY <2>5, StoreEffect, Names
    <3>2. written["telemetry"] \in Nat
      BY Names, Size DEF WritingInv
    <3>3. n # reading
      <4> SUFFICES ASSUME n = reading PROVE FALSE
        OBVIOUS
      <4>1. Stored(n) = written["telemetry"]
        BY <1>1, <3>1 DEF Stored
      <4>2. Stored(n)' = written["telemetry"] + 1
        BY <1>1, <3>1 DEF Stored
      <4>3. QED
        BY <1>6, <3>2, <4>1, <4>2
    <3>4. k = FrameSize
      BY <1>1, <1>5, <2>1, <3>3, StoredParts DEF QueueInv
    <3>5. data # <<>> /\ ~Ours(data[1])
      BY <1>1, <2>1, <3>4, LineWhole, LineTip
    <3>6. QED
      BY <3>1, <3>5 DEF LineInv
  <2>6. CASE Quiet \/ CommandHello \/ (CommandIdle /\ due)
    BY <2>2, <2>6, HelloEffect, HeartbeatEffect DEF Quiet, Rest, Begins
  <2>7. CASE TelemetryReceive \/ TelemetryTake \/ TelemetryRead \/ TelemetryDone
    BY <2>2, <2>7, ReceiveEffect, TakeEffect, ReadEffect, DoneEffect DEF Moves, Rest
  <2>8. CASE Check("command") \/ Check("telemetry")
    BY <2>2, <2>8, CheckEffect, Names DEF Rest
  <2>9. QED
    BY <2>3, <2>4, <2>5, <2>6, <2>7, <2>8, Kinds
<1>7. CASE /\ Store("telemetry") /\ n = reading /\ Stored(n) = written["telemetry"]
           /\ Stored(n)' = written["telemetry"] + 1
  <2>1. k = written["telemetry"] /\ reading \in Nat /\ (k >= 1 => Line(Sample(reading), k))
    BY <1>1, <1>4, <1>5, <1>7
  <2>2. ~Line(Sample(n), k + 1)'
    BY <1>1, <1>7, <2>1 DEF Line, Sample
  <2>3. QED
    BY <1>1, <1>7, <2>1, <2>2, TelemetryBreaks
<1>8. QED
  BY <1>1, <1>6, <1>7, StoredStep

\* The risk arises with a heartbeat.
LEMMA RiskStep ==
  ASSUME ControlInv, QueueInv, WritingInv, LineTypes, LineInv, HelloInv, [Next]_vars
  PROVE  \/ heartbeats' = heartbeats /\ (AtRisk' => AtRisk)
         \/ heartbeats' = heartbeats + 1
<1> USE DEF AtRisk, Writing
<1>1. CASE Quiet
  BY <1>1 DEF Quiet, Rest
<1>2. CASE CommandHello
  BY <1>2, HelloEffect DEF Begins, HelloInv, Greeting
<1>3. CASE CommandIdle /\ due
  BY <1>3, HeartbeatEffect
<1>4. CASE TelemetryReceive \/ TelemetryTake \/ TelemetryDone
  BY <1>4, ReceiveEffect, TakeEffect, DoneEffect DEF Moves
<1>5. CASE TelemetryRead
  BY <1>5, ReadEffect DEF Rest
<1>6. CASE Check("command")
  BY <1>6, CheckEffect, Names, Others DEF Rest
<1>7. CASE Check("telemetry")
  <2>1. /\ data = <<>> /\ pc["command"] \in {"sleep", "lock"} /\ pc'["command"] = pc["command"]
        /\ UNCHANGED <<written, data, run, heartbeats>>
    BY <1>7, CheckEffect, Names, Others DEF Rest
  <2>2. written["telemetry"] = 0 => run = <<>>
    BY <2>1 DEF LineInv, MidFrame
  <2>3. QED
    BY <2>1, <2>2
<1>8. CASE Store("command")
  <2>1. /\ pc["command"] = "store" /\ written'["command"] = written["command"] + 1
        /\ pc'["telemetry"] = pc["telemetry"] /\ written'["telemetry"] = written["telemetry"]
        /\ UNCHANGED <<message, heartbeats, run>>
    BY <1>8, StoreEffect, Names, Others
  <2>2. written["command"] \in Nat
    BY Names, Size DEF WritingInv
  <2>3. written["command"] >= 1 => run # <<>>
    BY <2>1 DEF LineInv, MidFrame
  <2>4. pc["telemetry"] = "store" => message["command"][1] = "kHeartbeat"
    BY <2>1 DEF HelloInv, Greeting
  <2>5. QED
    BY <2>1, <2>2, <2>3, <2>4
<1>9. CASE Store("telemetry")
  BY <1>9, StoreEffect, Names, Others
<1>10. CASE Transmit
  BY <1>10, TransmitEffect
<1>11. QED
  BY <1>1, <1>2, <1>3, <1>4, <1>5, <1>6, <1>7, <1>8, <1>9, <1>10, Kinds

LEMMA UpTo ==
  ASSUME NEW r \in Int, NEW S \in SUBSET (0..r)
  PROVE  IsFiniteSet(S) /\ Cardinality(S) \in Nat
<1>1. IsFiniteSet(0..r)
  BY FS_Interval
<1>2. QED
  BY <1>1, FS_Subset, FS_CardinalityType, Zenon

LEMMA DamageInit == Init => DamageInv
<1> SUFFICES ASSUME Init PROVE DamageInv
  OBVIOUS
<1>1. reading < 0 /\ reading \in Int /\ heartbeats = 0
  BY DEF Init
<1>2. Lost = {}
  BY <1>1 DEF Lost
<1>3. ~AtRisk
  BY Names DEF Init, AtRisk, Writing
<1>4. QED
  BY <1>1, <1>2, <1>3, FS_EmptySet DEF DamageInv

LEMMA DamageStep ==
  ControlInv /\ QueueInv /\ WritingInv /\ LineTypes /\ LineInv /\ HelloInv /\ DamageInv /\ [Next]_vars
    => DamageInv'
<1> SUFFICES ASSUME ControlInv, QueueInv, WritingInv, LineTypes, LineInv, HelloInv, DamageInv,
                    [Next]_vars
             PROVE  DamageInv'
  OBVIOUS
<1>1. IsFiniteSet(Lost) /\ Cardinality(Lost) \in Nat /\ heartbeats \in Nat
  BY UpTo, Zenon DEF QueueInv, Lost
<1>2. Cardinality(Lost') \in Nat
  BY QueueStep, UpTo, Zenon DEF QueueInv, Lost
<1>3. CASE Lost' \subseteq Lost
  <2>1. Cardinality(Lost') <= Cardinality(Lost)
    BY <1>1, <1>3, FS_Subset
  <2>2. QED
    BY <1>1, <1>2, <2>1, RiskStep DEF DamageInv
<1>4. CASE ~(Lost' \subseteq Lost)
  <2>1. PICK n \in Lost' : n \notin Lost
    BY <1>4
  <2>2. n = reading /\ AtRisk /\ ~AtRisk' /\ heartbeats' = heartbeats
    BY <2>1, NewlyLost
  <2>3. Lost' \subseteq Lost \union {n}
    BY <2>2, NewlyLost
  <2>4. /\ IsFiniteSet(Lost \union {n})
        /\ Cardinality(Lost \union {n}) = Cardinality(Lost) + 1
    BY <1>1, <2>1, FS_AddElement
  <2>5. Cardinality(Lost') <= Cardinality(Lost) + 1
    BY <2>3, <2>4, FS_Subset
  <2>6. QED
    BY <1>1, <1>2, <2>2, <2>5 DEF DamageInv
<1>5. QED
  BY <1>3, <1>4

---------------------------------------------------------------------------
\* The device.

NodeInv ==
  /\ ControlInv /\ QueueInv /\ WritingInv
  /\ LineTypes /\ LineInv /\ HelloInv /\ OrderInv /\ DamageInv

LEMMA Joined ==
  ASSUME NEW S, NEW s \in Seq(S), NEW t \in Seq(S), NEW i \in DOMAIN (s \o t)
  PROVE  \/ i \in 1..Len(s) /\ (s \o t)[i] = s[i]
         \/ i - Len(s) \in 1..Len(t) /\ (s \o t)[i] = t[i - Len(s)]
OBVIOUS

LEMMA JoinedFirst ==
  ASSUME NEW S, NEW s \in Seq(S), NEW t \in Seq(S), s # <<>>
  PROVE  1 \in DOMAIN (s \o t) /\ (s \o t)[1] = s[1]
OBVIOUS

\* The three tasks, their queue, the line and the losses on it are as described
\* in every state.
THEOREM NodeInvariant == Spec => []NodeInv
<1>1. Init => NodeInv
  BY ControlInit, QueueInit, WritingInit, LineTypesInit, LineInit, HelloInit, OrderInit, DamageInit
     DEF NodeInv
<1>2. NodeInv /\ [Next]_vars => NodeInv'
  BY ControlStep, QueueStep, WritingStep, LineTypesStep, LineStep, HelloStep, OrderStep, DamageStep
     DEF NodeInv
<1>3. QED
  BY <1>1, <1>2, PTL DEF Spec

\* Types; and only the task inside its critical section holds config_mutex.
THEOREM NodeTypes == Spec => []TypeOK
<1>1. NodeInv => TypeOK
  BY Names DEF NodeInv, TypeOK, ControlInv, QueueInv, WritingInv, LineTypes
<1>2. QED
  BY <1>1, NodeInvariant, PTL

\* The HELLO of CommandTask is the first thing on the line and arrives whole,
\* for every length of a frame: TelemetryTask has nothing to write until
\* SensorTask has queued a reading, and does not run while CommandTask writes.
THEOREM HelloIsFirst == Spec => []HelloFirst
<1>1. ASSUME NodeInv PROVE HelloFirst
  <2>1. CASE delivered = <<>>
    <3>1. PICK k : k = Greeted
      OBVIOUS
    <3>2. Line(Hello, k)
      BY <1>1, <2>1, <3>1 DEF NodeInv, HelloInv
    <3>3. run \in Seq(Byte) /\ data \in Seq(Byte) /\ Len(data) <= 1
      BY <1>1 DEF NodeInv, LineTypes
    <3>4. \A i \in 1..Len(run) : run[i][1][1] = "kHello"
      BY <3>2, HelloFrame DEF Line
    <3>5. \A i \in 1..Len(data) : data[i][1][1] = "kHello"
      <4> SUFFICES ASSUME NEW i \in 1..Len(data) PROVE data[i][1][1] = "kHello"
        OBVIOUS
      <4>1. i = 1 /\ Len(data) # 0
        BY <3>3
      <4>2. data # <<>>
        BY <4>1, EmptySeq
      <4>3. QED
        BY <3>2, <4>1, <4>2, HelloFrame DEF Line
    <3>6. \A i \in DOMAIN (run \o data) : (run \o data)[i][1][1] = "kHello"
      BY <3>3, <3>4, <3>5, Joined
    <3>7. QED
      BY <2>1, <3>6 DEF HelloFirst
  <2>2. CASE delivered # <<>>
    BY <1>1, <2>2 DEF NodeInv, HelloInv, HelloFirst
  <2>3. QED
    BY <2>1, <2>2
<1>2. QED
  BY <1>1, NodeInvariant, PTL

\* Backpressure loses nothing, for every capacity of the queue: a reading taken
\* is in the queue or has been received, and the samples that arrive are in the
\* order they were taken in, whatever a heartbeat destroys in between.
THEOREM PipelineIsIntact == Spec => []PipelineIntact
<1>1. ASSUME NodeInv PROVE PipelineIntact
  <2>1. /\ reading_queue \in Seq(Int) /\ Len(reading_queue) \in Nat /\ sample_index \in Nat
        /\ reading = sample_index - Len(reading_queue) - 1
        /\ \A i \in 1..Len(reading_queue) : reading_queue[i] = reading + i
    BY <1>1 DEF NodeInv, QueueInv
  <2>2. reading_queue = [i \in 1..Len(reading_queue) |-> sample_index - Len(reading_queue) + i - 1]
    <3>1. reading_queue \in [1..Len(reading_queue) -> Int]
      BY <2>1, SeqFunction
    <3>2. \A i \in 1..Len(reading_queue) :
            reading_queue[i] = sample_index - Len(reading_queue) + i - 1
      BY <2>1
    <3>3. QED
      BY <3>1, <3>2, Zenon
  <2>3. DOMAIN delivered = 1..Len(delivered)
    BY <1>1, SeqFunction DEF NodeInv, LineTypes
  <2>4. \A i, j \in DOMAIN delivered :
          i < j /\ delivered[i][1] = "kSample" /\ delivered[j][1] = "kSample"
            => delivered[i][2] < delivered[j][2]
    BY <1>1, <2>3 DEF NodeInv, OrderInv, IsSample
  <2>5. reading = (sample_index - Len(reading_queue)) - 1
    BY <2>1
  <2>6. QED
    BY <2>2, <2>4, <2>5 DEF PipelineIntact
<1>2. QED
  BY <1>1, NodeInvariant, PTL

\* The unlocked writes of CommandTask and TelemetryTask cost at most one sample
\* for each heartbeat, whichever byte the heartbeat breaks in at.
THEOREM DamageIsBounded == Spec => []DamageBounded
<1>1. ASSUME NodeInv PROVE DamageBounded
  <2>1. Missed \subseteq Lost
    <3> SUFFICES ASSUME NEW n \in Missed PROVE n \in Lost
      OBVIOUS
    <3>1. /\ n \in 0..reading /\ n \in Nat /\ reading \in Int
          /\ n < reading \/ pc["telemetry"] = "receive"
          /\ Sample(n) \notin Range(delivered)
          /\ \A i \in DOMAIN (run \o data) : (run \o data)[i][1] # Sample(n)
      <4>1. reading \in Int
        BY <1>1 DEF NodeInv, QueueInv
      <4>2. QED
        BY <4>1 DEF Missed, Sample
    <3>2. Stored(n) = FrameSize
      BY <1>1, <3>1 DEF Stored, NodeInv, WritingInv
    <3>3. ~Line(Sample(n), FrameSize)
      <4> SUFFICES ASSUME Line(Sample(n), FrameSize) PROVE FALSE
        OBVIOUS
      <4>1. run # <<>> /\ run[1][1] = Sample(n)
        BY <1>1, LineWhole DEF NodeInv
      <4>2. 1 \in DOMAIN (run \o data) /\ (run \o data)[1] = run[1]
        BY <1>1, <4>1, JoinedFirst DEF NodeInv, LineTypes
      <4>3. QED
        BY <3>1, <4>1, <4>2
    <3>4. QED
      BY <3>1, <3>2, <3>3, Size DEF Lost
  <2>2. IsFiniteSet(Lost) /\ Cardinality(Lost) \in Nat /\ heartbeats \in Nat
    BY <1>1, UpTo, Zenon DEF NodeInv, QueueInv, Lost
  <2>3. Cardinality(Missed) <= Cardinality(Lost) /\ Cardinality(Missed) \in Nat
    BY <2>1, <2>2, FS_Subset, FS_CardinalityType
  <2>4. QED
    BY <1>1, <2>2, <2>3 DEF NodeInv, DamageInv, DamageBounded
<1>2. QED
  BY <1>1, NodeInvariant, PTL
=============================================================================
