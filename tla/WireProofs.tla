----------------------------- MODULE WireProofs -----------------------------
(***************************************************************************)
(* Proofs about what the bytes go through: the frame parser behind a       *)
(* faulty line, for any codec that keeps the promises of LinkConstants,    *)
(* any buffer size and any number of faults; a connection, for every       *)
(* high-water mark, kernel buffer and message length and for streams of    *)
(* any length; and the event loop behind it, for every number of           *)
(* descriptors, events in a batch and connections, and every interval of   *)
(* housekeeping.                                                           *)
(***************************************************************************)
EXTENDS Connection, EventLoop, Link, TLAPS

---------------------------------------------------------------------------
\* Sequences, for the leaves that name the fact they need.

\* The elements of a sequence.
LEMMA Elements ==
  ASSUME NEW S, NEW s \in Seq(S)
  PROVE  Len(s) \in Nat /\ \A i \in 1..Len(s) : s[i] \in S
OBVIOUS

\* Sequences with the same elements are the same.
LEMMA SameElements ==
  ASSUME NEW S, NEW s \in Seq(S), NEW t \in Seq(S), Len(s) = Len(t),
         \A i \in 1..Len(s) : s[i] = t[i]
  PROVE  s = t
OBVIOUS

\* One element more.
LEMMA OneAdded ==
  ASSUME NEW S, NEW s \in Seq(S), NEW x \in S
  PROVE  LET t == Append(s, x)
         IN  /\ t \in Seq(S) /\ Len(t) = Len(s) + 1 /\ t # <<>>
             /\ t[Len(s) + 1] = x /\ \A i \in 1..Len(s) : t[i] = s[i]
OBVIOUS

\* Part of a sequence.
LEMMA PartOf ==
  ASSUME NEW S, NEW s, NEW m \in Int, NEW n \in Int, \A i \in m..n : s[i] \in S
  PROVE  LET t == SubSeq(s, m, n)
         IN  /\ t \in Seq(S) /\ Len(t) = IF m <= n THEN n - m + 1 ELSE 0
             /\ \A i \in 1..(n - m + 1) : t[i] = s[m + i - 1]
OBVIOUS

\* All but the first element.
LEMMA Rest ==
  ASSUME NEW S, NEW s \in Seq(S), s # <<>>
  PROVE  /\ Len(s) - 1 \in Nat /\ Head(s) \in S /\ Head(s) = s[1]
         /\ Tail(s) \in Seq(S) /\ Len(Tail(s)) = Len(s) - 1
         /\ \A i \in 1..(Len(s) - 1) : Tail(s)[i] = s[i + 1]
OBVIOUS

---------------------------------------------------------------------------
\* The frame parser behind a faulty line (Link).

LinkTypes ==
  /\ frame \in Frames
  /\ at \in Nat /\ at <= Len(Encoded(frame))
  /\ got \in BOOLEAN
  /\ lost \in Nat
  /\ faults \in Nat
  /\ last \in 0..MaxByte
  /\ runs \in Nat
  /\ frames_ok \in Nat
  /\ frames_dropped \in Nat

LinkInv == LinkTypes /\ BufferSound

\* A run has begun and not ended exactly when the parser is not hunting.
CountInv == CountedOnce /\ (last = 0 <=> state = "kHunting")

\* The parser holds exactly what has passed of the frame on the line.
InPhase ==
  /\ state = IF at = 0 THEN "kHunting" ELSE "kInFrame"
  /\ buffer = SubSeq(Encoded(frame), 1, at)

\* While the parser is out of step, the frame on the line is as good as lost,
\* and has been paid for.
LossInv ==
  /\ lost <= 2 * faults
  /\ InPhase \/ lost + 1 <= 2 * faults

\* The bytes of a frame are bytes other than the delimiter.
LEMMA NextByteType == ASSUME LinkTypes PROVE NextByte \in 0..MaxByte
<1>1. Encoded(frame) \in Seq(1..MaxByte) BY LinkConstants DEF LinkTypes
<1>2. CASE at < Len(Encoded(frame))
  <2>1. at + 1 \in 1..Len(Encoded(frame)) BY <1>1, <1>2 DEF LinkTypes
  <2>2. Encoded(frame)[at + 1] \in 1..MaxByte BY <1>1, <2>1, Elements, Zenon
  <2> QED BY <1>2, <2>2, ParserConstants DEF NextByte
<1>3. CASE ~(at < Len(Encoded(frame)))
  BY <1>3, ParserConstants DEF NextByte
<1> QED BY <1>2, <1>3

\* One more byte of a sequence.
LEMMA OneMore ==
  ASSUME NEW S, NEW s \in Seq(S), NEW k \in Nat, k < Len(s)
  PROVE  /\ SubSeq(s, 1, k) \in Seq(S) /\ Len(SubSeq(s, 1, k)) = k
         /\ Append(SubSeq(s, 1, k), s[k + 1]) = SubSeq(s, 1, k + 1)
  OBVIOUS

LEMMA FirstByte ==
  ASSUME NEW S, NEW s \in Seq(S), 0 < Len(s)
  PROVE  SubSeq(s, 1, 1) = <<s[1]>>
<1>1. SubSeq(s, 1, 0) = <<>> BY PartOf
<1>2. \A k \in Nat : k < Len(s) => Append(SubSeq(s, 1, k), s[k + 1]) = SubSeq(s, 1, k + 1)
  BY OneMore
<1>4. Append(SubSeq(s, 1, 0), s[1]) = SubSeq(s, 1, 1) BY <1>2
<1>3. Append(<<>>, s[1]) = <<s[1]>> OBVIOUS
<1> QED BY <1>1, <1>3, <1>4, Zenon

\* What push_byte() does to the types.
LEMMA PushTypes ==
  ASSUME LinkInv, NEW byte \in 0..MaxByte, Push(byte)
  PROVE  /\ BufferSound'
         /\ last' \in 0..MaxByte /\ runs' \in Nat
         /\ frames_ok' \in Nat /\ frames_dropped' \in Nat
<1> USE ParserConstants DEF LinkInv, LinkTypes, BufferSound
<1>1. last' \in 0..MaxByte /\ runs' \in Nat BY DEF Push
<1>2. CASE Ignore(byte) BY <1>1, <1>2 DEF Ignore, Quiet
<1>3. CASE Start(byte)
  <2>1. byte \in 1..MaxByte BY <1>3 DEF Start
  <2>2. <<byte>> \in Seq(1..MaxByte) /\ Len(<<byte>>) = 1 /\ <<byte>> # <<>> BY <2>1
  <2>3. buffer' = <<byte>> /\ state' = "kInFrame" BY <1>3 DEF Start
  <2>4. BufferSound' BY <2>2, <2>3
  <2> QED BY <1>1, <1>3, <2>4 DEF Start, Quiet
<1>4. CASE Keep(byte)
  <2>1. byte \in 1..MaxByte BY <1>4 DEF Keep
  <2>2. /\ Append(buffer, byte) \in Seq(1..MaxByte)
        /\ Len(Append(buffer, byte)) = Len(buffer) + 1
        /\ Append(buffer, byte) # <<>>
    BY <2>1, OneAdded
  <2>3. Len(buffer) \in Nat /\ Len(buffer) # BufferSize BY <1>4, Elements DEF Keep
  <2>4. Len(buffer) + 1 <= BufferSize BY <2>3
  <2>5. buffer' = Append(buffer, byte) /\ state' = "kInFrame" BY <1>4 DEF Keep
  <2>6. BufferSound' BY <2>2, <2>4, <2>5
  <2> QED BY <1>1, <1>4, <2>6 DEF Keep, Quiet
<1>5. CASE TooLong(byte) BY <1>1, <1>5 DEF TooLong, Fail
<1>6. CASE Complete(byte) BY <1>1, <1>6, SMTT(20) DEF Complete, Fail
<1> QED BY <1>2, <1>3, <1>4, <1>5, <1>6 DEF Push, push_byte

LEMMA AdvanceTypes ==
  ASSUME LinkTypes, Advance
  PROVE  /\ frame' \in Frames
         /\ at' \in Nat /\ at' <= Len(Encoded(frame'))
         /\ got' \in BOOLEAN
         /\ lost' \in Nat /\ lost' <= lost + 1
<1> USE LinkConstants DEF LinkTypes
<1>0. Len(Encoded(frame)) \in Nat BY Elements
<1>1. CASE at < Len(Encoded(frame)) BY <1>0, <1>1 DEF Advance, Received
<1>2. CASE ~(at < Len(Encoded(frame)))
  <2>1. frame' \in Frames /\ at' = 0 /\ got' = FALSE BY <1>2 DEF Advance
  <2>2. lost' \in {lost, lost + 1} BY <1>2 DEF Advance
  <2>3. Len(Encoded(frame')) \in Nat BY <2>1, Elements
  <2>4. 0 <= Len(Encoded(frame')) BY <2>3
  <2>5. lost' \in Nat /\ lost' <= lost + 1 BY <2>2
  <2> QED BY <2>1, <2>4, <2>5, Zenon
<1> QED BY <1>1, <1>2

LEMMA LinkInvInit == LinkInit => LinkInv
<1> SUFFICES ASSUME LinkInit PROVE LinkInv
  OBVIOUS
<1>1. Len(Encoded(frame)) \in Nat BY LinkConstants, Elements DEF LinkInit
<1>2. 0 <= Len(Encoded(frame)) /\ 0 \in 0..MaxByte BY <1>1, ParserConstants
<1>4. LinkTypes BY <1>2, Zenon DEF LinkInit, ParserInit, LinkTypes
<1>3. BufferSound BY ParserConstants DEF LinkInit, ParserInit, BufferSound
<1> QED BY <1>3, <1>4 DEF LinkInv

LEMMA LinkInvStep == LinkInv /\ [LinkNext]_linkvars => LinkInv'
<1> SUFFICES ASSUME LinkInv, [LinkNext]_linkvars PROVE LinkInv'
  OBVIOUS
<1> USE DEF LinkInv
<1>1. CASE Carry
  <2>1. NextByte \in 0..MaxByte BY NextByteType
  <2> QED BY <1>1, <2>1, PushTypes, AdvanceTypes DEF Carry, LinkTypes
<1>2. ASSUME NEW byte \in 0..MaxByte, Alter(byte) PROVE LinkInv'
  BY <1>2, PushTypes, AdvanceTypes DEF Alter, LinkTypes
<1>3. CASE Lose
  BY <1>3, AdvanceTypes DEF Lose, LinkTypes, BufferSound
<1>4. ASSUME NEW byte \in 0..MaxByte, MakeUp(byte) PROVE LinkInv'
  BY <1>4, PushTypes DEF MakeUp, LinkTypes, Received
<1>5. CASE UNCHANGED linkvars
  BY <1>5 DEF linkvars, parser, line, LinkTypes, BufferSound
<1> QED BY <1>1, <1>2, <1>3, <1>4, <1>5 DEF LinkNext

LEMMA LinkInvAlways == LinkSpec => []LinkInv
  BY LinkInvInit, LinkInvStep, PTL DEF LinkSpec

\* BufferSound: whatever arrives, the parser's buffer is within bounds, and
\* holds bytes exactly inside a frame.
THEOREM ParserBuffer == LinkSpec => []BufferSound
<1>1. LinkInv => BufferSound BY DEF LinkInv
<1> QED BY <1>1, LinkInvAlways, PTL

LEMMA PushCounts ==
  ASSUME LinkInv, CountInv, NEW byte \in 0..MaxByte, Push(byte)
  PROVE  CountInv'
<1> USE DEF LinkInv, LinkTypes, CountInv, CountedOnce, Push
<1>1. CASE Ignore(byte) BY <1>1 DEF Ignore, Quiet, BufferSound
<1>2. CASE Start(byte) BY <1>2 DEF Start, Quiet
<1>3. CASE Keep(byte) BY <1>3 DEF Keep, Quiet
<1>4. CASE TooLong(byte) BY <1>4 DEF TooLong, Fail
<1>5. CASE Complete(byte) BY <1>5 DEF Complete, Fail
<1> QED BY <1>1, <1>2, <1>3, <1>4, <1>5 DEF push_byte

\* CountedOnce: frames_ok() and frames_dropped() together count the runs of
\* bytes between delimiters.
THEOREM ParserCounts == LinkSpec => []CountedOnce
<1>1. LinkInit => CountInv BY DEF LinkInit, ParserInit, CountInv, CountedOnce
<1>2. LinkInv /\ CountInv /\ [LinkNext]_linkvars => CountInv'
  <2> SUFFICES ASSUME LinkInv, CountInv, [LinkNext]_linkvars PROVE CountInv'
    OBVIOUS
  <2>1. NextByte \in 0..MaxByte BY NextByteType DEF LinkInv
  <2>2. CASE Carry BY <2>1, <2>2, PushCounts DEF Carry
  <2>3. ASSUME NEW byte \in 0..MaxByte, Alter(byte) PROVE CountInv'
    BY <2>3, PushCounts DEF Alter
  <2>4. CASE Lose BY <2>4 DEF Lose, CountInv, CountedOnce
  <2>5. ASSUME NEW byte \in 0..MaxByte, MakeUp(byte) PROVE CountInv'
    BY <2>5, PushCounts DEF MakeUp
  <2>6. CASE UNCHANGED linkvars BY <2>6 DEF linkvars, parser, CountInv, CountedOnce
  <2> QED BY <2>2, <2>3, <2>4, <2>5, <2>6 DEF LinkNext
<1>3. CountInv => CountedOnce BY DEF CountInv
<1> QED BY <1>1, <1>2, <1>3, LinkInvAlways, PTL DEF LinkSpec

\* An intact byte of a frame keeps the parser in step.
LEMMA CarryInside ==
  ASSUME LinkInv, InPhase, Carry, at < Len(Encoded(frame))
  PROVE  InPhase'
<1> DEFINE e == Encoded(frame)
<1>1. e \in Seq(1..MaxByte) /\ Len(e) <= BufferSize
  BY LinkConstants DEF LinkInv, LinkTypes
<1>2. at \in Nat /\ at < Len(e) BY DEF LinkInv, LinkTypes
<1>3. /\ Len(SubSeq(e, 1, at)) = at
      /\ Append(SubSeq(e, 1, at), e[at + 1]) = SubSeq(e, 1, at + 1)
  BY <1>1, <1>2, OneMore
<1>4. e[at + 1] \in 1..MaxByte
  <2>1. at + 1 \in 1..Len(e) BY <1>1, <1>2
  <2> QED BY <1>1, <2>1, Elements, Zenon
<1>5. at' = at + 1 /\ frame' = frame BY <1>2 DEF Carry, Advance
<1>6. NextByte = e[at + 1] /\ NextByte # 0 BY <1>2, <1>4 DEF NextByte
<1>7. push_byte(NextByte) BY DEF Carry, Push
<1>8. SUFFICES state' = "kInFrame" /\ buffer' = SubSeq(e, 1, at + 1)
  BY <1>2, <1>5 DEF InPhase
<1>9. CASE at = 0
  <2>1. state = "kHunting" BY <1>9 DEF InPhase
  <2>2. Start(NextByte)
    BY <1>6, <1>7, <2>1 DEF push_byte, Ignore, Start, Keep, TooLong, Complete
  <2>3. SubSeq(e, 1, 1) = <<e[1]>> BY <1>1, <1>2, <1>9, FirstByte
  <2> QED BY <1>6, <1>9, <2>2, <2>3 DEF Start
<1>10. CASE at # 0
  <2>1. state = "kInFrame" BY <1>10 DEF InPhase
  <2>2. Len(buffer) # BufferSize
    <3>1. Len(buffer) = at BY <1>3, Zenon DEF InPhase
    <3>2. Len(e) \in Nat /\ BufferSize \in Nat BY <1>1, ParserConstants, Elements
    <3> QED BY <1>1, <1>2, <3>1, <3>2
  <2>3. Keep(NextByte)
    BY <1>6, <1>7, <2>1, <2>2 DEF push_byte, Ignore, Start, Keep, TooLong, Complete
  <2> QED BY <1>3, <1>6, <2>1, <2>3, Zenon DEF Keep, InPhase
<1> QED BY <1>9, <1>10

\* An intact delimiter brings the parser into step, and completes the frame if
\* it was in step before.
LEMMA CarryDelimiter ==
  ASSUME LinkInv, Carry, ~(at < Len(Encoded(frame)))
  PROVE  /\ InPhase'
         /\ InPhase => lost' = lost
<1> DEFINE e == Encoded(frame)
<1>1. e \in Seq(1..MaxByte) /\ Len(e) \in Nat /\ 0 < Len(e)
  BY LinkConstants, Elements DEF LinkInv, LinkTypes
<1>2. at = Len(e) /\ at # 0 BY <1>1 DEF LinkInv, LinkTypes
<1>3. NextByte = 0 BY DEF NextByte
<1>4. push_byte(0) BY <1>3 DEF Carry, Push
<1>5. state' = "kHunting" /\ buffer' = <<>>
  <2>1. CASE Ignore(0) BY <2>1 DEF Ignore, LinkInv, BufferSound
  <2>2. CASE Complete(0) BY <2>2 DEF Complete
  <2> QED BY <1>4, <2>1, <2>2 DEF push_byte, Start, Keep, TooLong
<1>6. at' = 0 /\ frame' \in Frames /\ lost' = IF Received THEN lost ELSE lost + 1
  BY DEF Carry, Advance
<1>7. InPhase'
  <2>1. SubSeq(Encoded(frame'), 1, 0) = <<>>
    BY <1>6, LinkConstants, PartOf
  <2> QED BY <1>5, <1>6, <2>1 DEF InPhase
<1>8. ASSUME InPhase PROVE lost' = lost
  <2>1. state = "kInFrame" BY <1>2, <1>8 DEF InPhase
  <2>2. buffer = e BY <1>1, <1>2, <1>8 DEF InPhase
  <2>3. Complete(0) BY <1>4, <2>1 DEF push_byte, Ignore, Start, Keep, TooLong
  <2>4. Finish(e).error = "kNone" /\ Finish(e).frame = frame
    BY LinkConstants DEF LinkInv, LinkTypes
  <2>5. completed' = <<frame>> BY <2>2, <2>3, <2>4 DEF Complete
  <2> QED BY <1>6, <2>5 DEF Received
<1> QED BY <1>7, <1>8

\* LossBounded: resynchronisation.  A damaged byte costs at most two frames,
\* and with no damage none is lost.
THEOREM ParserResync == LinkSpec => []LossBounded
<1>1. LinkInit => LossInv
  <2> SUFFICES ASSUME LinkInit PROVE LossInv
    OBVIOUS
  <2>1. SubSeq(Encoded(frame), 1, 0) = <<>>
    BY LinkConstants, PartOf DEF LinkInit
  <2> QED BY <2>1 DEF LinkInit, ParserInit, LossInv, InPhase
<1>2. LinkInv /\ LossInv /\ [LinkNext]_linkvars => LossInv'
  <2> SUFFICES ASSUME LinkInv, LossInv, [LinkNext]_linkvars PROVE LossInv'
    OBVIOUS
  <2>t. lost \in Nat /\ faults \in Nat BY DEF LinkInv, LinkTypes
  <2>a. Advance => lost' \in Nat /\ lost' <= lost + 1
    BY AdvanceTypes DEF LinkInv
  <2>1. CASE Carry
    <3>1. faults' = faults /\ Advance BY <2>1 DEF Carry
    <3>2. CASE at < Len(Encoded(frame))
      <4>1. lost' = lost BY <3>1, <3>2 DEF Advance
      <4>2. InPhase => InPhase' BY <2>1, <3>2, CarryInside
      <4> QED BY <3>1, <4>1, <4>2 DEF LossInv
    <3>3. CASE ~(at < Len(Encoded(frame)))
      <4>1. InPhase' /\ (InPhase => lost' = lost) BY <2>1, <3>3, CarryDelimiter
      <4> QED BY <2>t, <2>a, <3>1, <4>1 DEF LossInv
    <3> QED BY <3>2, <3>3
  <2>2. ASSUME faults' = faults + 1, Advance \/ lost' = lost PROVE LossInv'
    BY <2>t, <2>a, <2>2 DEF LossInv
  <2>3. ASSUME NEW byte \in 0..MaxByte, Alter(byte) PROVE LossInv'
    BY <2>2, <2>3 DEF Alter
  <2>4. CASE Lose BY <2>2, <2>4 DEF Lose
  <2>5. ASSUME NEW byte \in 0..MaxByte, MakeUp(byte) PROVE LossInv'
    BY <2>2, <2>5 DEF MakeUp
  <2>6. CASE UNCHANGED linkvars
    BY <2>6 DEF linkvars, parser, line, LossInv, InPhase
  <2> QED BY <2>1, <2>3, <2>4, <2>5, <2>6 DEF LinkNext
<1>3. LossInv => LossBounded BY DEF LossInv, LossBounded
<1> QED BY <1>1, <1>2, <1>3, LinkInvAlways, PTL DEF LinkSpec

---------------------------------------------------------------------------
\* A connection.  Sequences joined and cut.

\* One sequence after another.
LEMMA Joined ==
  ASSUME NEW S, NEW s \in Seq(S), NEW t \in Seq(S)
  PROVE  /\ s \o t \in Seq(S) /\ Len(s \o t) = Len(s) + Len(t)
         /\ \A i \in 1..(Len(s) + Len(t)) : (s \o t)[i] = IF i <= Len(s) THEN s[i] ELSE t[i - Len(s)]
OBVIOUS

\* The empty sequence.
LEMMA NoElements == ASSUME NEW S PROVE <<>> \in Seq(S) /\ Len(<<>>) = 0
OBVIOUS

\* Joining the empty sequence changes nothing.
LEMMA JoinedToNone == ASSUME NEW S, NEW s \in Seq(S) PROVE s \o <<>> = s /\ <<>> \o s = s
OBVIOUS

\* Joining any other changes something.
LEMMA JoinedLonger == ASSUME NEW S, NEW s \in Seq(S), NEW t \in Seq(S) PROVE s \o t = s <=> t = <<>>
<1>1. Len(s \o t) = Len(s) + Len(t) /\ Len(s) \in Nat /\ Len(t) \in Nat
  OBVIOUS
<1>2. Len(t) = 0 <=> t = <<>>
  OBVIOUS
<1> QED
  BY <1>1, <1>2, JoinedToNone

\* A part that ends before it begins.
LEMMA NoPart == ASSUME NEW s, NEW m \in Int, NEW n \in Int, n < m PROVE SubSeq(s, m, n) = <<>>
OBVIOUS

\* A part that is the whole.
LEMMA WholePart == ASSUME NEW S, NEW s \in Seq(S) PROVE SubSeq(s, 1, Len(s)) = s
OBVIOUS

\* Adding an element is joining a sequence of one.
LEMMA AddedIsJoined == ASSUME NEW S, NEW s \in Seq(S), NEW x \in S PROVE Append(s, x) = s \o <<x>>
OBVIOUS

\* Joining three sequences.
LEMMA JoinedTwice ==
  ASSUME NEW S, NEW s \in Seq(S), NEW t \in Seq(S), NEW u \in Seq(S)
  PROVE  (s \o t) \o u = s \o (t \o u)
OBVIOUS

\* Two parts that meet.
LEMMA JoinedParts ==
  ASSUME NEW S, NEW s \in Seq(S), NEW k \in 1..(Len(s) + 1), NEW m \in (k - 1)..Len(s), NEW n \in m..Len(s)
  PROVE  SubSeq(s, k, m) \o SubSeq(s, m + 1, n) = SubSeq(s, k, n)
OBVIOUS

\* A run of numbered bytes is as long as its range.
LEMMA NumberedType ==
  ASSUME NEW a \in Nat, NEW b \in Nat, a <= b
  PROVE  /\ Numbered(a, b) \in Seq(Nat)
         /\ Len(Numbered(a, b)) = b - a
<1>1. b - a \in Nat /\ \A i \in 1..(b - a) : a + i \in Nat
  OBVIOUS
<1> QED
  BY <1>1 DEF Numbered

\* Cutting a sequence in two keeps the types and the total length.
LEMMA CutType ==
  ASSUME NEW s \in Seq(Nat), NEW n \in 0..Len(s)
  PROVE  /\ SubSeq(s, 1, n) \in Seq(Nat) /\ Len(SubSeq(s, 1, n)) = n
         /\ SubSeq(s, n + 1, Len(s)) \in Seq(Nat)
         /\ Len(SubSeq(s, n + 1, Len(s))) = Len(s) - n
<1>1. Len(s) \in Nat /\ n \in Nat /\ n <= Len(s)
  OBVIOUS
<1>2. \A i \in 1..n : s[i] \in Nat
  BY <1>1
<1>3. \A i \in 1..(Len(s) - n) : s[i + n] \in Nat
  BY <1>1
<1> QED
  BY <1>1, <1>2, <1>3, PartOf

\* The number of bytes send() takes fits both buffers.
LEMMA TakenType ==
  ASSUME TypeOK
  PROVE  Taken \in 0..Len(write_buffer) /\ Len(wire) + Taken <= SendBuffer
BY ConnectionConstants DEF TypeOK, Taken

LEMMA TypeInit == Init => TypeOK
<1>1. <<>> \in Seq(Nat) /\ Len(<<>>) = 0
  BY NoElements
<1>2. Len(<<>>) <= SendBuffer /\ 0 \in Nat
  BY <1>1, ConnectionConstants
<1>3. Len(<<>>) + Len(<<>>) + Len(<<>>) <= 0
  BY <1>1
<1> QED
  BY <1>1, <1>2, <1>3, Zenon DEF Init, TypeOK

\* The numbers that TypeOK relates.
LEMMA Lengths ==
  ASSUME TypeOK
  PROVE  /\ Len(write_buffer) \in Nat /\ Len(wire) \in Nat /\ Len(received) \in Nat
         /\ Len(read_buffer) \in Nat /\ Len(inbox) \in Nat /\ Len(handed) \in Nat
         /\ queued \in Nat /\ sent \in Nat
         /\ Len(wire) <= SendBuffer
         /\ Len(received) + Len(wire) + Len(write_buffer) <= queued
         /\ Len(handed) + Len(read_buffer) + Len(inbox) <= sent
BY Elements, Zenon DEF TypeOK

\* The events watched are EPOLLIN and EPOLLOUT.
LEMMA InterestType ==
  ASSUME NEW w, NEW wanted
  PROVE  Interest(w, wanted) \subseteq {"IN", "OUT"}
BY DEF Interest

\* No step leaves the types or makes bytes up.
LEMMA TypeStep == TypeOK /\ [Next]_vars => TypeOK'
<1> SUFFICES ASSUME TypeOK, [Next]_vars
             PROVE  TypeOK'
  OBVIOUS
<1>1. ASSUME NEW len \in 1..MaxMessage, EnqueueWrite(len)
      PROVE  TypeOK'
  <2>1. len \in Nat /\ queued \in Nat /\ queued + len \in Nat /\ queued <= queued + len
    BY Lengths, ConnectionConstants
  <2>2. /\ Numbered(queued, queued + len) \in Seq(Nat)
        /\ Len(Numbered(queued, queued + len)) = len
    <3>1. /\ Numbered(queued, queued + len) \in Seq(Nat)
          /\ Len(Numbered(queued, queued + len)) = (queued + len) - queued
      BY <2>1, NumberedType, Zenon
    <3> QED
      BY <2>1, <3>1
  <2>3. write_buffer' \in Seq(Nat) /\ Len(write_buffer') = Len(write_buffer) + len
    BY <1>1, <2>1, <2>2, Joined, Zenon DEF EnqueueWrite, Queue, TypeOK
  <2>4. Len(received) + Len(wire) + Len(write_buffer') <= queued'
    BY <1>1, <2>1, <2>3, Lengths DEF EnqueueWrite
  <2>5. interest' \subseteq {"IN", "OUT"} /\ write_interest' \in BOOLEAN
    BY <1>1, InterestType, Zenon DEF EnqueueWrite, Queue
  <2> QED
    BY <1>1, <2>1, <2>3, <2>4, <2>5, Zenon DEF EnqueueWrite, TypeOK
<1>2. CASE Poll
  BY <1>2, Zenon DEF Poll, TypeOK
<1>3. CASE OnIn
  <2> DEFINE all == read_buffer \o inbox
  <2>1. all \in Seq(Nat) /\ Len(all) = Len(read_buffer) + Len(inbox)
    BY Joined DEF TypeOK
  <2>2. PICK n \in 0..Len(all) : /\ handed' = handed \o SubSeq(all, 1, n)
                                /\ read_buffer' = SubSeq(all, n + 1, Len(all))
    BY <1>3, Zenon DEF OnIn, Gone, Drained
  <2>3. /\ SubSeq(all, 1, n) \in Seq(Nat) /\ Len(SubSeq(all, 1, n)) = n
        /\ read_buffer' \in Seq(Nat) /\ Len(read_buffer') = Len(all) - n
    BY <2>1, <2>2, CutType, Zenon
  <2>4. handed' \in Seq(Nat) /\ Len(handed') = Len(handed) + n
    BY <2>2, <2>3, Joined, ZenonT(30) DEF TypeOK
  <2>5. inbox' = <<>>
    BY <1>3, NoPart DEF OnIn, Gone, Drained, TypeOK
  <2>6. Len(handed') + Len(read_buffer') + Len(inbox') <= sent
    <3>1. Len(inbox') = 0
      BY <2>5
    <3> QED
      BY <2>1, <2>3, <2>4, <3>1, Lengths
  <2>7. closed' \in BOOLEAN /\ batch' \subseteq {"IN", "OUT"}
    BY <1>3, Zenon DEF OnIn, Gone, TypeOK
  <2>8. UNCHANGED <<write_buffer, write_interest, interest, wire, peer, queued,
                    received, sent>>
    BY <1>3, Zenon DEF OnIn, Gone
  <2>9. inbox' \in Seq(Nat)
    BY <2>5, NoElements
  <2> QED
    BY <2>3, <2>4, <2>6, <2>7, <2>8, <2>9, Zenon DEF TypeOK
<1>4. CASE OnOut
  <2>1. CASE peer = "rst" /\ write_buffer # <<>>
    BY <1>4, <2>1, Zenon DEF OnOut, SendError, TypeOK
  <2>2. CASE ~(peer = "rst" /\ write_buffer # <<>>)
    <3>1. Taken \in 0..Len(write_buffer) /\ Len(wire) + Taken <= SendBuffer
      BY TakenType
    <3>2. /\ wire' = wire \o SubSeq(write_buffer, 1, Taken)
          /\ write_buffer' = SubSeq(write_buffer, Taken + 1, Len(write_buffer))
      BY <1>4, <2>2, Zenon DEF OnOut, SendError, Unsent
    <3>3. /\ SubSeq(write_buffer, 1, Taken) \in Seq(Nat)
          /\ Len(SubSeq(write_buffer, 1, Taken)) = Taken
          /\ write_buffer' \in Seq(Nat)
          /\ Len(write_buffer') = Len(write_buffer) - Taken
      BY <3>1, <3>2, CutType, SMTT(20) DEF TypeOK
    <3>4. wire' \in Seq(Nat) /\ Len(wire') = Len(wire) + Taken
      BY <3>2, <3>3, Joined, ZenonT(30) DEF TypeOK
    <3>5. Len(received) + Len(wire') + Len(write_buffer') <= queued
      BY <3>1, <3>3, <3>4, Lengths
    <3>6. interest' \subseteq {"IN", "OUT"} /\ write_interest' \in BOOLEAN
      BY <1>4, <2>2, InterestType, Zenon DEF OnOut, SendError, Wanted
    <3> QED
      BY <1>4, <2>2, <3>1, <3>3, <3>4, <3>5, <3>6 DEF OnOut, SendError, TypeOK
  <2> QED
    BY <2>1, <2>2
<1>5. CASE Destroy
  BY <1>5 DEF Destroy, TypeOK
<1>6. CASE PeerReads
  <2>1. Head(wire) \in Nat /\ Tail(wire) \in Seq(Nat) /\ Len(Tail(wire)) = Len(wire) - 1
    BY <1>6, Rest, SMTT(20) DEF PeerReads, TypeOK
  <2>2. received' \in Seq(Nat) /\ Len(received') = Len(received) + 1
    BY <1>6, <2>1, OneAdded DEF PeerReads, TypeOK
  <2> QED
    BY <1>6, <2>1, <2>2, ConnectionConstants, SMTT(20) DEF PeerReads, TypeOK, buffers
<1>7. CASE PeerSends
  <2>1. inbox' \in Seq(Nat) /\ Len(inbox') = Len(inbox) + 1 /\ sent' \in Nat
    BY <1>7, OneAdded DEF PeerSends, TypeOK
  <2> QED
    BY <1>7, <2>1 DEF PeerSends, TypeOK, buffers
<1>8. CASE PeerFinishes
  BY <1>8 DEF PeerFinishes, TypeOK, buffers
<1>9. CASE PeerResets
  BY <1>9, ConnectionConstants DEF PeerResets, TypeOK, buffers
<1>10. CASE UNCHANGED vars
  BY <1>10 DEF vars, buffers, TypeOK
<1> QED
  BY <1>1, <1>2, <1>3, <1>4, <1>5, <1>6, <1>7, <1>8, <1>9, <1>10 DEF Next

\* Types hold, and no stream ever holds more bytes than have entered it.
THEOREM ConnectionTypes == Spec => []TypeOK
BY TypeInit, TypeStep, PTL DEF Spec

---------------------------------------------------------------------------
\* Whatever the buffer, the events computed for it are the right ones.
LEMMA InterestRight ==
  ASSUME NEW w, NEW wanted, wanted <=> w # <<>>
  PROVE  /\ "OUT" \in Interest(w, wanted) <=> w # <<>>
         /\ "IN" \in Interest(w, wanted) <=> ~Congested(w)
BY DEF Interest

LEMMA InterestStep == TypeOK /\ InterestExact /\ [Next]_vars => InterestExact'
<1> SUFFICES ASSUME TypeOK, InterestExact, [Next]_vars
             PROVE  InterestExact'
  OBVIOUS
<1>1. ASSUME NEW len \in 1..MaxMessage, EnqueueWrite(len)
      PROVE  InterestExact'
  <2>1. /\ len \in Nat /\ queued \in Nat /\ len > 0
        /\ queued + len \in Nat /\ queued <= queued + len
    BY Lengths, ConnectionConstants, SMTT(20)
  <2>2. /\ Numbered(queued, queued + len) \in Seq(Nat)
        /\ Len(Numbered(queued, queued + len)) = len
    <3>1. /\ Numbered(queued, queued + len) \in Seq(Nat)
          /\ Len(Numbered(queued, queued + len)) = (queued + len) - queued
      BY <2>1, NumberedType, Zenon
    <3> QED
      BY <2>1, <3>1
  <2>3. write_buffer' # <<>>
    BY <1>1, <2>1, <2>2, JoinedLonger DEF EnqueueWrite, Queue, TypeOK
  <2>4. interest' = Interest(write_buffer', TRUE)
    BY <1>1 DEF EnqueueWrite, Queue
  <2> QED
    BY <2>3, <2>4, InterestRight, Zenon DEF InterestExact, Congested
<1>2. CASE OnOut
  <2>1. CASE peer = "rst" /\ write_buffer # <<>>
    BY <1>2, <2>1 DEF OnOut, SendError, InterestExact
  <2>2. CASE ~(peer = "rst" /\ write_buffer # <<>>)
    <3>1. interest' = Interest(write_buffer', write_buffer' # <<>>)
      BY <1>2, <2>2, Zenon DEF OnOut, SendError, Wanted
    <3> QED
      BY <3>1, InterestRight, Zenon DEF InterestExact, Congested
  <2> QED
    BY <2>1, <2>2
<1>3. CASE OnIn
  BY <1>3, Zenon DEF OnIn, Gone, InterestExact, Congested
<1>4. CASE Destroy
  BY <1>4 DEF Destroy, InterestExact
<1>5. CASE UNCHANGED <<write_buffer, interest, closed>>
  BY <1>5 DEF InterestExact, Congested
<1> QED
  BY <1>1, <1>2, <1>3, <1>4, <1>5, Zenon DEF Next, vars, buffers, Poll, PeerReads,
     PeerSends, PeerFinishes, PeerResets

\* EPOLLOUT is watched exactly while bytes wait, EPOLLIN exactly while the
\* connection is not congested, through partial sends, late batches and errors.
THEOREM Interested == Spec => []InterestExact
<1>1. Init => InterestExact
  BY ConnectionConstants DEF Init, InterestExact, Congested
<1> QED
  BY <1>1, InterestStep, ConnectionTypes, PTL DEF Spec

---------------------------------------------------------------------------
\* The streams.  Adjacent runs of numbered bytes make one run.
LEMMA NumberedConcat ==
  ASSUME NEW a \in Nat, NEW b \in Nat, a <= b
  PROVE  Numbered(0, a) \o Numbered(a, b) = Numbered(0, b)
<1> DEFINE s == Numbered(0, a)
           t == Numbered(a, b)
           u == Numbered(0, b)
<1>1. /\ s \in Seq(Nat) /\ Len(s) = a /\ t \in Seq(Nat) /\ Len(t) = b - a
      /\ u \in Seq(Nat) /\ Len(u) = b
  <2>1. 0 \in Nat /\ 0 <= a /\ 0 <= b /\ a - 0 = a /\ b - 0 = b
    OBVIOUS
  <2> QED
    BY <2>1, NumberedType, Zenon
<1>2. s \o t \in Seq(Nat) /\ Len(s \o t) = b
  <2> HIDE DEF s, t
  <2>1. s \o t \in Seq(Nat) /\ Len(s \o t) = Len(s) + Len(t)
    BY <1>1, Joined, Zenon
  <2> QED
    BY <1>1, <2>1
<1>3. ASSUME NEW i \in 1..b
      PROVE  (s \o t)[i] = u[i]
  <2>1. i \in 1..(Len(s) + Len(t))
    <3> HIDE DEF s, t
    <3> QED
      BY <1>1
  <2>2. (s \o t)[i] = IF i <= a THEN s[i] ELSE t[i - a]
    <3> HIDE DEF s, t
    <3>1. (s \o t)[i] = IF i <= Len(s) THEN s[i] ELSE t[i - Len(s)]
      BY <1>1, <2>1, Joined, SMTT(20)
    <3> QED
      BY <1>1, <3>1
  <2>3. u[i] = i /\ (i <= a => s[i] = i) /\ (~(i <= a) => t[i - a] = i)
    BY DEF Numbered
  <2> QED
    <3> HIDE DEF s, t, u
    <3> QED
      BY <2>2, <2>3
<1> HIDE DEF s, t, u
<1> QED
  BY <1>1, <1>2, <1>3, SameElements, Zenon DEF s, t, u

\* One more byte.
LEMMA NumberedAppend ==
  ASSUME NEW a \in Nat
  PROVE  Append(Numbered(0, a), a + 1) = Numbered(0, a + 1)
<1>1. 0 \in Nat /\ 0 <= a /\ 0 <= a + 1 /\ a + 1 \in Nat /\ a - 0 = a /\ (a + 1) - 0 = a + 1
  OBVIOUS
<1>2. /\ Numbered(0, a) \in Seq(Nat) /\ Len(Numbered(0, a)) = a
      /\ Numbered(0, a + 1) \in Seq(Nat) /\ Len(Numbered(0, a + 1)) = a + 1
  BY <1>1, NumberedType, Zenon
<1>3. /\ Append(Numbered(0, a), a + 1) \in Seq(Nat)
      /\ Len(Append(Numbered(0, a), a + 1)) = a + 1
      /\ \A i \in 1..a : Append(Numbered(0, a), a + 1)[i] = Numbered(0, a)[i]
      /\ Append(Numbered(0, a), a + 1)[a + 1] = a + 1
  BY <1>1, <1>2, OneAdded
<1>4. ASSUME NEW i \in 1..(a + 1)
      PROVE  Append(Numbered(0, a), a + 1)[i] = Numbered(0, a + 1)[i]
  <2>1. Numbered(0, a + 1)[i] = i /\ (i <= a => Numbered(0, a)[i] = i)
    BY DEF Numbered
  <2> QED
    BY <1>3, <2>1
<1> QED
  BY <1>2, <1>3, <1>4, SameElements, Zenon

\* What comes first in a numbered run is a numbered run.
LEMMA NumberedPrefix ==
  ASSUME NEW s \in Seq(Nat), NEW t \in Seq(Nat), NEW n \in Nat, s \o t = Numbered(0, n)
  PROVE  s = Numbered(0, Len(s))
<1>1. Len(s) \in Nat /\ Len(t) \in Nat
  BY Elements
<1>2. 0 \in Nat /\ 0 <= n /\ n - 0 = n /\ 0 <= Len(s) /\ Len(s) - 0 = Len(s)
  BY <1>1
<1>3. /\ Len(Numbered(0, n)) = n
      /\ Numbered(0, Len(s)) \in Seq(Nat) /\ Len(Numbered(0, Len(s))) = Len(s)
  BY <1>1, <1>2, NumberedType, Zenon
<1>4. n = Len(s) + Len(t)
  BY <1>3, Joined, Zenon
<1>5. ASSUME NEW i \in 1..Len(s)
      PROVE  s[i] = Numbered(0, Len(s))[i]
  <2>1. i \in 1..(Len(s) + Len(t)) /\ i <= Len(s)
    BY <1>1
  <2>2. (s \o t)[i] = s[i]
    BY <2>1, Joined
  <2>3. Numbered(0, n)[i] = i /\ Numbered(0, Len(s))[i] = i
    BY <1>1, <1>4, <2>1 DEF Numbered
  <2> QED
    BY <2>2, <2>3
<1> QED
  BY <1>3, <1>5, SameElements, Zenon

\* Joining three buffers, in either order.
LEMMA Associative ==
  ASSUME NEW a \in Seq(Nat), NEW b \in Seq(Nat), NEW c \in Seq(Nat)
  PROVE  (a \o b) \o c = a \o (b \o c)
BY JoinedTwice, SMTT(20)

\* The same of the first of three buffers.
LEMMA NumberedFirst ==
  ASSUME NEW s \in Seq(Nat), NEW t \in Seq(Nat), NEW u \in Seq(Nat), NEW n \in Nat,
         (s \o t) \o u = Numbered(0, n)
  PROVE  s = Numbered(0, Len(s))
<1>1. t \o u \in Seq(Nat)
  BY Joined, Zenon
<1>2. (s \o t) \o u = s \o (t \o u)
  BY Associative, Zenon
<1>3. s \o (t \o u) = Numbered(0, n)
  BY <1>2, Zenon
<1> QED
  BY <1>1, <1>3, NumberedPrefix, Zenon

\* Moving a prefix of one buffer to the end of the one before it.
LEMMA Moved ==
  ASSUME NEW a \in Seq(Nat), NEW b \in Seq(Nat), NEW n \in 0..Len(b)
  PROVE  (a \o SubSeq(b, 1, n)) \o SubSeq(b, n + 1, Len(b)) = a \o b
<1>1. Len(b) \in Nat
  BY Elements
<1>2. SubSeq(b, 1, n) \in Seq(Nat) /\ SubSeq(b, n + 1, Len(b)) \in Seq(Nat)
  BY CutType
<1>3. SubSeq(b, 1, n) \o SubSeq(b, n + 1, Len(b)) = b
  <2>1. 1 \in 1..(Len(b) + 1) /\ n \in (1 - 1)..Len(b) /\ Len(b) \in n..Len(b)
    BY <1>1
  <2>2. SubSeq(b, 1, n) \o SubSeq(b, n + 1, Len(b)) = SubSeq(b, 1, Len(b))
    BY <2>1, JoinedParts, Zenon
  <2> QED
    BY <2>2, WholePart, Zenon
<1>4. (a \o SubSeq(b, 1, n)) \o SubSeq(b, n + 1, Len(b))
        = a \o (SubSeq(b, 1, n) \o SubSeq(b, n + 1, Len(b)))
  BY <1>2, Associative, Zenon
<1> QED
  BY <1>3, <1>4, Zenon

\* Moving one byte of a buffer to the end of the one before it.
LEMMA MovedOne ==
  ASSUME NEW a \in Seq(Nat), NEW b \in Seq(Nat), b # <<>>
  PROVE  Append(a, Head(b)) \o Tail(b) = a \o b
<1>1. Head(b) \in Nat /\ Tail(b) \in Seq(Nat)
  BY Rest
<1>2. <<Head(b)>> \in Seq(Nat)
  BY <1>1
<1>3. Append(a, Head(b)) = a \o <<Head(b)>>
  BY <1>1, AddedIsJoined
<1>4. <<Head(b)>> \o Tail(b) = b
  BY <1>1
<1>5. (a \o <<Head(b)>>) \o Tail(b) = a \o (<<Head(b)>> \o Tail(b))
  BY <1>1, <1>2, Associative, ZenonT(30)
<1> QED
  BY <1>3, <1>4, <1>5, Zenon

\* A byte that enters the last buffer enters the stream.
LEMMA EnteredOne ==
  ASSUME NEW a \in Seq(Nat), NEW b \in Seq(Nat), NEW e \in Nat
  PROVE  a \o Append(b, e) = Append(a \o b, e)
<1>1. <<e>> \in Seq(Nat) /\ a \o b \in Seq(Nat)
  BY Joined
<1>2. Append(b, e) = b \o <<e>> /\ Append(a \o b, e) = (a \o b) \o <<e>>
  BY <1>1, AddedIsJoined, Zenon
<1>3. (a \o b) \o <<e>> = a \o (b \o <<e>>)
  BY <1>1, Associative, Zenon
<1> QED
  BY <1>2, <1>3, Zenon

\* The strengthening: a reset leaves nothing on the wire.
OutInv == OutStreamIntact /\ (peer = "rst" => wire = <<>>)

LEMMA OutStep == TypeOK /\ OutInv /\ [Next]_vars => OutInv'
<1> SUFFICES ASSUME TypeOK, OutInv, [Next]_vars
             PROVE  OutInv'
  OBVIOUS
<1>t. /\ write_buffer \in Seq(Nat) /\ wire \in Seq(Nat) /\ received \in Seq(Nat)
      /\ received \o wire \in Seq(Nat) /\ queued \in Nat
  BY Joined, Zenon DEF TypeOK
<1>1. ASSUME NEW len \in 1..MaxMessage, EnqueueWrite(len)
      PROVE  OutInv'
  <2>1. /\ len \in Nat /\ queued + len \in Nat /\ queued <= queued + len
    BY <1>t, ConnectionConstants
  <2>2. Numbered(queued, queued + len) \in Seq(Nat)
    BY <1>t, <2>1, NumberedType, Zenon
  <2>3. /\ UNCHANGED <<wire, received, peer>> /\ queued' = queued + len
        /\ write_buffer' = write_buffer \o Numbered(queued, queued + len)
    BY <1>1, Zenon DEF EnqueueWrite, Queue
  <2>4. (received \o wire) \o write_buffer'
          = ((received \o wire) \o write_buffer) \o Numbered(queued, queued + len)
    BY <1>t, <2>2, <2>3, Associative, ZenonT(30)
  <2>5. Numbered(0, queued) \o Numbered(queued, queued + len) = Numbered(0, queued')
    BY <1>t, <2>1, <2>3, NumberedConcat, Zenon
  <2> QED
    BY <2>3, <2>4, <2>5, Zenon DEF OutInv, OutStreamIntact
<1>2. CASE OnOut
  <2>1. CASE peer = "rst" /\ write_buffer # <<>>
    BY <1>2, <2>1, Zenon DEF OnOut, SendError, OutInv, OutStreamIntact
  <2>2. CASE ~(peer = "rst" /\ write_buffer # <<>>)
    <3>1. Taken \in 0..Len(write_buffer)
      BY TakenType
    <3>2. /\ UNCHANGED <<received, peer, queued>>
          /\ wire' = wire \o SubSeq(write_buffer, 1, Taken)
          /\ write_buffer' = SubSeq(write_buffer, Taken + 1, Len(write_buffer))
      BY <1>2, <2>2, Zenon DEF OnOut, SendError, Unsent
    <3>3. SubSeq(write_buffer, 1, Taken) \in Seq(Nat)
      BY <1>t, <3>1, CutType, Zenon
    <3>4. (received \o wire) \o SubSeq(write_buffer, 1, Taken) = received \o wire'
      BY <1>t, <3>2, <3>3, Associative, ZenonT(30)
    <3>5. ((received \o wire) \o SubSeq(write_buffer, 1, Taken)) \o write_buffer'
            = (received \o wire) \o write_buffer
      BY <1>t, <3>1, <3>2, Moved, Zenon
    <3>6. (received \o wire') \o write_buffer' = (received \o wire) \o write_buffer
      BY <3>4, <3>5, Zenon
    <3>7. ASSUME peer = "rst"
          PROVE  wire' = <<>>
      <4>1. wire = <<>> /\ write_buffer = <<>>
        BY <2>2, <3>7 DEF OutInv
      <4>2. SubSeq(write_buffer, 1, Taken) = <<>>
        <5>1. Taken = 0
          BY <3>1, <4>1
        <5> QED
          BY <4>1, <5>1
      <4> QED
        BY <3>2, <4>1, <4>2
    <3> QED
      BY <3>2, <3>6, <3>7, Zenon DEF OutInv, OutStreamIntact
  <2> QED
    BY <2>1, <2>2
<1>3. CASE PeerReads
  <2>1. /\ wire # <<>> /\ received' = Append(received, Head(wire)) /\ wire' = Tail(wire)
        /\ UNCHANGED <<peer, queued, write_buffer>>
    BY <1>3 DEF PeerReads, buffers
  <2>2. received' \in Seq(Nat) /\ wire' \in Seq(Nat)
    BY <1>t, <2>1, Rest, OneAdded
  <2>3. received' \o wire' = received \o wire
    BY <1>t, <2>1, MovedOne, Zenon
  <2>4. (received' \o wire') \o write_buffer = Numbered(0, queued) /\ peer # "rst"
    BY <2>1, <2>3, Zenon DEF OutInv, OutStreamIntact
  <2>5. received' = Numbered(0, Len(received'))
    BY <1>t, <2>2, <2>4, NumberedFirst, Zenon
  <2> QED
    BY <2>1, <2>4, <2>5, Zenon DEF OutInv, OutStreamIntact
<1>4. CASE PeerResets
  BY <1>4, Zenon DEF PeerResets, OutInv, OutStreamIntact
<1>5. CASE PeerFinishes
  BY <1>5, Zenon DEF PeerFinishes, buffers, OutInv, OutStreamIntact
<1>6. CASE UNCHANGED <<write_buffer, wire, received, queued, peer>>
  BY <1>6, Zenon DEF OutInv, OutStreamIntact
<1> QED
  BY <1>1, <1>2, <1>3, <1>4, <1>5, <1>6, Zenon DEF Next, vars, buffers, Poll, OnIn,
     Destroy, PeerSends

\* What the peer reads is exactly what was queued, in order, whatever the
\* partial sends, and nothing is lost on the way until a reset.
THEOREM OutStream == Spec => []OutStreamIntact
<1>1. Init => OutInv
  <2> SUFFICES ASSUME Init
               PROVE  OutInv
    OBVIOUS
  <2>1. /\ write_buffer = <<>> /\ wire = <<>> /\ received = <<>>
        /\ queued = 0 /\ peer = "open"
    BY DEF Init
  <2>2. Numbered(0, 0) = <<>>
    BY DEF Numbered
  <2>3. <<>> \o <<>> = <<>> /\ Len(<<>>) = 0
    OBVIOUS
  <2> QED
    BY <2>1, <2>2, <2>3, Zenon DEF OutInv, OutStreamIntact
<1>2. OutInv => OutStreamIntact
  BY DEF OutInv
<1> QED
  BY <1>1, <1>2, OutStep, ConnectionTypes, PTL DEF Spec

\* The strengthening: only a peer that has gone closes a connection.
InInv == InStreamIntact /\ (closed => peer # "open")

LEMMA InStep == TypeOK /\ InInv /\ [Next]_vars => InInv'
<1> SUFFICES ASSUME TypeOK, InInv, [Next]_vars
             PROVE  InInv'
  OBVIOUS
<1>t. /\ read_buffer \in Seq(Nat) /\ inbox \in Seq(Nat) /\ handed \in Seq(Nat)
      /\ handed \o read_buffer \in Seq(Nat) /\ sent \in Nat
  BY Joined, Zenon DEF TypeOK
<1>1. CASE OnIn
  <2> DEFINE all == read_buffer \o inbox
  <2>1. all \in Seq(Nat)
    BY <1>t, Joined, Zenon
  <2>2. PICK n \in 0..Len(all) : /\ handed' = handed \o SubSeq(all, 1, n)
                                /\ read_buffer' = SubSeq(all, n + 1, Len(all))
    BY <1>1, Zenon DEF OnIn, Gone, Drained
  <2>3. inbox' = <<>>
    BY <1>1, NoPart DEF OnIn, Gone, Drained, TypeOK
  <2> HIDE DEF all
  <2>4. handed' \o read_buffer' = handed \o all
    BY <1>t, <2>1, <2>2, Moved, Zenon
  <2>5. handed \o all = (handed \o read_buffer) \o inbox
    BY <1>t, Associative, Zenon DEF all
  <2>6. handed \o all \in Seq(Nat)
    BY <1>t, <2>1, Joined, Zenon
  <2>7. (handed' \o read_buffer') \o inbox' = handed \o all
    BY <2>3, <2>4, <2>6, JoinedToNone, Zenon
  <2>8. UNCHANGED <<sent, peer>> /\ closed' = (closed \/ peer # "open")
    BY <1>1, Zenon DEF OnIn, Gone
  <2> QED
    BY <2>3, <2>5, <2>7, <2>8, Zenon DEF InInv, InStreamIntact
<1>2. CASE PeerSends
  <2>1. /\ peer = "open" /\ sent' = sent + 1 /\ inbox' = Append(inbox, sent + 1)
        /\ UNCHANGED <<handed, read_buffer, closed, peer>>
    BY <1>2 DEF PeerSends, buffers
  <2>2. sent + 1 \in Nat
    BY <1>t
  <2>3. (handed \o read_buffer) \o inbox' = Append((handed \o read_buffer) \o inbox, sent + 1)
    BY <1>t, <2>1, <2>2, EnteredOne, Zenon
  <2>4. Append(Numbered(0, sent), sent + 1) = Numbered(0, sent')
    BY <1>t, <2>1, NumberedAppend, Zenon
  <2>5. "open" # "fin"
    OBVIOUS
  <2> QED
    BY <2>1, <2>3, <2>4, <2>5, Zenon DEF InInv, InStreamIntact
<1>3. CASE PeerFinishes
  BY <1>3, Zenon DEF PeerFinishes, buffers, InInv, InStreamIntact
<1>4. CASE PeerResets
  BY <1>4, Zenon DEF PeerResets, buffers, InInv, InStreamIntact
<1>5. CASE OnOut
  BY <1>5, Zenon DEF OnOut, SendError, InInv, InStreamIntact
<1>6. CASE UNCHANGED <<read_buffer, inbox, handed, sent, peer, closed>>
  BY <1>6, Zenon DEF InInv, InStreamIntact
<1> QED
  BY <1>1, <1>2, <1>3, <1>4, <1>5, <1>6, Zenon DEF Next, vars, buffers, Poll,
     EnqueueWrite, Destroy, PeerReads

\* What the peer sends is handed on in order, and an end of stream closes
\* the connection only after everything before it has been received.
THEOREM InStream == Spec => []InStreamIntact
<1>1. Init => InInv
  <2> SUFFICES ASSUME Init
               PROVE  InInv
    OBVIOUS
  <2>1. read_buffer = <<>> /\ inbox = <<>> /\ handed = <<>> /\ sent = 0 /\ closed = FALSE
    BY DEF Init
  <2>2. Numbered(0, 0) = <<>>
    BY DEF Numbered
  <2>3. <<>> \o <<>> = <<>>
    OBVIOUS
  <2> QED
    BY <2>1, <2>2, <2>3, Zenon DEF InInv, InStreamIntact
<1>2. InInv => InStreamIntact
  BY DEF InInv
<1> QED
  BY <1>1, <1>2, InStep, ConnectionTypes, PTL DEF Spec

---------------------------------------------------------------------------
\* The event loop.

Pair == (Fds \union {Listener}) \X Nat

\* An event not dispatched yet is for the connection that is still behind its
\* descriptor; and there is none while connections are destroyed.
BatchInv ==
  /\ phase \in {"poll", "wait", "dispatch", "timers"}
  /\ accepted \in Nat /\ backlog \in Nat /\ accepted + backlog <= MaxConnections
  /\ callbacks \in [Fds -> Nat]
  /\ ready \in Seq(Pair)
  /\ phase # "dispatch" => ready = <<>>
  /\ \A i \in 1..Len(ready) : ready[i][1] # Listener =>
       ready[i][2] # 0 /\ callbacks[ready[i][1]] = ready[i][2]
  /\ ~misled

\* There is always the timer of housekeeping, and epoll_wait() is never left
\* to wait longer than what is left of it.
ClockInv ==
  /\ phase \in {"poll", "wait", "dispatch", "timers"}
  /\ timers \in Seq(Nat) /\ Len(timers) = 1
  /\ phase = "wait" => timeout \in Nat /\ timeout <= timers[1]

\* What the constants are, and the operators of the loop.

LEMMA Constants ==
  /\ IsFiniteSet(Fds) /\ Listener \notin Fds /\ MaxConnections \in Nat
  /\ kMaxEventsPerWait \in Nat /\ kHousekeepingInterval \in Nat
  /\ Millisecond \in Nat /\ Millisecond > 0
BY LoopConstants

LEMMA MinOfOne == ASSUME NEW n \in Int PROVE Min({n}) = n
BY DEF Min

LEMMA MinOfTwo == ASSUME NEW m \in Nat, NEW n \in Nat PROVE Min({m, n}) \in Nat
<1>1. \E x \in {m, n} : \A y \in {m, n} : x =< y
  OBVIOUS
<1>2. Min({m, n}) \in {m, n}
  BY <1>1 DEF Min
<1>3. QED
  BY <1>2

LEMMA MinOfThree ==
  ASSUME NEW k \in Nat, NEW m \in Nat, NEW n \in Nat
  PROVE  /\ Min({k, m, n}) \in Nat
         /\ Min({k, m, n}) <= k /\ Min({k, m, n}) <= n
<1>1. \E x \in {k, m, n} : \A y \in {k, m, n} : x =< y
  OBVIOUS
<1>2. Min({k, m, n}) \in {k, m, n} /\ \A y \in {k, m, n} : Min({k, m, n}) =< y
  BY <1>1 DEF Min
<1>3. QED
  BY <1>2

\* There are finitely many descriptors: the parameters bound them, and
\* Counted, below, is the proof.
Counts == \A S \in SUBSET (Fds \union {Listener}) : Cardinality(S) \in Nat

\* duration_cast rounds down: the wait ends no later than the deadline.
LEMMA RoundedDown ==
  ASSUME NEW t \in Nat, NEW m \in Nat, m > 0
  PROVE  (t \div m) * m \in Nat /\ (t \div m) * m <= t
OBVIOUS

LEMMA TailOf ==
  ASSUME NEW S, NEW s \in Seq(S), s # <<>>
  PROVE  /\ Tail(s) \in Seq(S) /\ Len(s) \in Nat \ {0} /\ Len(Tail(s)) = Len(s) - 1
         /\ \A i \in 1..(Len(s) - 1) : Tail(s)[i] = s[i + 1]
         /\ Head(s) = s[1]
OBVIOUS

LEMMA SequenceOf ==
  ASSUME NEW S, NEW n \in Nat, NEW f \in [1..n -> S]
  PROVE  f \in Seq(S) /\ Len(f) = n
OBVIOUS

LEMMA NoEvents == <<>> \in Seq(Pair) /\ Len(<<>>) = 0
OBVIOUS

---------------------------------------------------------------------------
\* The batch of events.

LEMMA BatchInit == LoopInit => BatchInv
<1> SUFFICES ASSUME LoopInit PROVE BatchInv
  OBVIOUS
<1>1. phase = "poll" /\ accepted = 0 /\ backlog = 0 /\ misled = FALSE
      /\ callbacks = [fd \in Fds |-> 0] /\ ready = <<>>
  BY DEF LoopInit
<1>2. QED
  BY <1>1, NoEvents, Constants DEF BatchInv

LEMMA EventOf ==
  ASSUME BatchInv, NEW fd \in Pending
  PROVE  /\ Event(fd) \in Pair
         /\ Event(fd)[1] # Listener =>
              Event(fd)[2] # 0 /\ callbacks[Event(fd)[1]] = Event(fd)[2]
<1>1. CASE fd = Listener
  BY <1>1 DEF Event, Pair
<1>2. CASE fd # Listener
  <2>1. fd \in Fds /\ callbacks[fd] # 0 /\ callbacks[fd] \in Nat
    BY <1>2 DEF Pending, BatchInv
  <2>2. Event(fd) = <<fd, callbacks[fd]>>
    BY <1>2 DEF Event
  <2>3. QED
    BY <2>1, <2>2 DEF Pair
<1>3. QED
  BY <1>1, <1>2

\* accept_devices() takes descriptors for which no event can be waiting.
LEMMA AcceptKeeps ==
  ASSUME Counts, BatchInv, Accept
  PROVE  /\ accepted' \in Nat /\ backlog' \in Nat /\ accepted' + backlog' <= MaxConnections
         /\ callbacks' \in [Fds -> Nat]
         /\ \A fd \in Fds : callbacks[fd] # 0 => callbacks'[fd] = callbacks[fd]
<1> DEFINE n == Min({backlog, Cardinality(Free), MaxConnections - accepted})
<1>1. n \in Nat /\ n <= backlog
  <2>1. Cardinality(Free) \in Nat
    BY DEF Counts, Free
  <2>2. backlog \in Nat /\ MaxConnections - accepted \in Nat
    BY Constants DEF BatchInv
  <2>3. QED
    BY <2>1, <2>2, MinOfThree
<1>2. accepted' = accepted + n /\ backlog' = backlog - n
  BY DEF Accept
<1>3. PICK fds \in [1..n -> Free] :
        callbacks' = [fd \in Fds |-> IF fd \in Range(fds)
                                     THEN accepted + (CHOOSE i \in 1..n : fds[i] = fd)
                                     ELSE callbacks[fd]]
  BY Zenon DEF Accept
<1> HIDE DEF n
<1>4. \A fd \in Range(fds) : callbacks[fd] = 0 /\ (CHOOSE i \in 1..n : fds[i] = fd) \in 1..n
  BY <1>3 DEF Range, Free
<1>5. callbacks' \in [Fds -> Nat]
  BY <1>1, <1>3, <1>4 DEF BatchInv
<1>6. \A fd \in Fds : callbacks[fd] # 0 => callbacks'[fd] = callbacks[fd]
  BY <1>3, <1>4
<1>7. QED
  BY <1>1, <1>2, <1>5, <1>6 DEF BatchInv

LEMMA BatchStep == Counts /\ BatchInv /\ [LoopNext]_loopvars => BatchInv'
<1> SUFFICES ASSUME Counts, BatchInv, [LoopNext]_loopvars PROVE BatchInv'
  OBVIOUS
<1>1. ASSUME NEW fd, Report(fd) PROVE BatchInv'
  <2> DEFINE n == Min({kMaxEventsPerWait, Cardinality(Pending)})
  <2>1. PICK fds \in [1..n -> Pending] : Returned([i \in 1..n |-> Event(fds[i])])
    BY <1>1, Zenon DEF Report
  <2>2. n \in Nat
    <3>1. Cardinality(Pending) \in Nat
      BY DEF Counts, Pending
    <3> QED
      BY <3>1, Constants, MinOfTwo
  <2>3. /\ phase' = "dispatch" /\ callbacks' = callbacks
        /\ UNCHANGED <<accepted, backlog, misled>>
    BY <1>1, <2>1 DEF Report, Returned, sockets
  <2> HIDE DEF n
  <2>4. /\ ready' = [i \in 1..n |-> Event(fds[i])]
        /\ ready' \in [1..n -> Pair]
    BY <2>1, EventOf DEF Returned
  <2>5. ready' \in Seq(Pair) /\ Len(ready') = n
    BY <2>2, <2>4, SequenceOf
  <2>6. \A i \in 1..n : ready'[i][1] # Listener =>
          ready'[i][2] # 0 /\ callbacks[ready'[i][1]] = ready'[i][2]
    BY <2>4, EventOf
  <2>7. QED
    BY <2>3, <2>5, <2>6 DEF BatchInv
<1>2. CASE Dispatch
  <2>1. CASE ready = <<>>
    BY <1>2, <2>1 DEF Dispatch, BatchInv, sockets
  <2>2. CASE ready # <<>>
    <3>1. /\ phase' = "dispatch" /\ ready' = Tail(ready)
          /\ (Accept /\ UNCHANGED misled) \/ Serve
      BY <1>2, <2>2 DEF Dispatch
    <3>2. /\ ready' \in Seq(Pair) /\ Len(ready) \in Nat \ {0} /\ Len(ready') = Len(ready) - 1
          /\ \A i \in 1..(Len(ready) - 1) : ready'[i] = ready[i + 1]
          /\ Head(ready) = ready[1]
      BY <2>2, <3>1, TailOf DEF BatchInv
    <3>3. \A i \in 1..Len(ready') : ready'[i][1] # Listener =>
            /\ ready'[i][1] \in Fds /\ ready'[i][2] # 0
            /\ callbacks[ready'[i][1]] = ready'[i][2]
      <4>1. \A i \in 1..Len(ready') :
              /\ i + 1 \in 1..Len(ready) /\ ready'[i] = ready[i + 1]
              /\ ready[i + 1] \in Pair
        BY <3>2 DEF BatchInv
      <4>2. \A e \in Pair : e[1] # Listener => e[1] \in Fds
        BY DEF Pair
      <4>3. QED
        BY <4>1, <4>2 DEF BatchInv
    <3>4. CASE Accept /\ UNCHANGED misled
      <4>1. \A i \in 1..Len(ready') : ready'[i][1] # Listener =>
              ready'[i][2] # 0 /\ callbacks'[ready'[i][1]] = ready'[i][2]
        BY <3>3, <3>4, AcceptKeeps
      <4>2. QED
        BY <3>1, <3>2, <3>4, <4>1, AcceptKeeps DEF BatchInv
    <3>5. CASE Serve
      <4>1. ready[1][1] # Listener /\ UNCHANGED <<callbacks, accepted, backlog>>
        BY <3>2, <3>5 DEF Serve
      <4>2. callbacks[ready[1][1]] = ready[1][2]
        BY <3>2, <4>1 DEF BatchInv
      <4>3. ~misled'
        BY <3>2, <3>5, <4>2, Zenon DEF Serve, BatchInv
      <4>4. QED
        BY <3>1, <3>2, <3>3, <4>1, <4>3 DEF BatchInv
    <3>6. QED
      BY <3>1, <3>4, <3>5
  <2>3. QED
    BY <2>1, <2>2
<1>3. CASE Fire
  <2>1. /\ phase = "timers" /\ phase' = "poll"
        /\ UNCHANGED <<ready, accepted, backlog, misled>>
    BY <1>3 DEF Fire, sockets
  <2>2. callbacks' \in [Fds -> Nat]
    BY <1>3 DEF Fire, fire_due_timers, Sweep, Remove, BatchInv
  <2>3. ready' = <<>>
    BY <2>1 DEF BatchInv
  <2>4. QED
    BY <2>1, <2>2, <2>3, NoEvents DEF BatchInv
<1>4. CASE StartWait \/ Interrupt
  BY <1>4 DEF StartWait, Interrupt, BatchInv, sockets
<1>5. CASE TimeOut
  BY <1>5, NoEvents DEF TimeOut, Returned, BatchInv, sockets
<1>6. CASE Tick
  BY <1>6 DEF Tick, BatchInv, sockets
<1>7. CASE Connect
  BY <1>7, Constants DEF Connect, BatchInv
<1>8. ASSUME NEW c \in Connection, Send(c) \/ HangUp(c) PROVE BatchInv'
  BY <1>8 DEF Send, HangUp, BatchInv
<1>9. CASE UNCHANGED loopvars
  BY <1>9 DEF loopvars, BatchInv
<1>10. QED
  BY <1>1, <1>2, <1>3, <1>4, <1>5, <1>6, <1>7, <1>8, <1>9 DEF LoopNext, Step

---------------------------------------------------------------------------
\* The clock.

LEMMA OneTimer ==
  ASSUME NEW s \in Seq(Nat), Len(s) = 1
  PROVE  s # <<>> /\ s[1] \in Nat /\ DOMAIN s = {1} /\ Min(Range(s)) = s[1]
<1>1. s # <<>> /\ s[1] \in Nat /\ DOMAIN s = {1}
  BY SMTT(20)
<1>2. Range(s) = {s[1]}
  BY <1>1 DEF Range
<1>3. QED
  BY <1>1, <1>2, MinOfOne

LEMMA ClockInit == LoopInit => ClockInv
BY Constants DEF LoopInit, ClockInv

LEMMA ClockStep == ClockInv /\ [LoopNext]_loopvars => ClockInv'
<1> SUFFICES ASSUME ClockInv, [LoopNext]_loopvars PROVE ClockInv'
  OBVIOUS
<1>0. /\ timers \in Seq(Nat) /\ Len(timers) = 1
      /\ timers # <<>> /\ timers[1] \in Nat /\ DOMAIN timers = {1}
      /\ Min(Range(timers)) = timers[1]
  BY OneTimer DEF ClockInv
<1>1. CASE StartWait
  <2>1. timeout' = (timers[1] \div Millisecond) * Millisecond
    BY <1>0, <1>1 DEF StartWait, Timeout
  <2>2. timeout' \in Nat /\ timeout' <= timers[1]
    BY <1>0, <2>1, Constants, RoundedDown, Zenon
  <2>3. QED
    BY <1>1, <2>2 DEF StartWait, ClockInv
<1>2. CASE Fire
  <2>1. timers' = <<kHousekeepingInterval>> \/ timers' = timers
    BY <1>2 DEF Fire, fire_due_timers
  <2>2. timers' \in Seq(Nat) /\ Len(timers') = 1
    <3>1. <<kHousekeepingInterval>> \in Seq(Nat) /\ Len(<<kHousekeepingInterval>>) = 1
      BY Constants
    <3>2. QED
      BY <1>0, <2>1, <3>1, Zenon
  <2>3. phase' = "poll"
    BY <1>2 DEF Fire
  <2>4. QED
    BY <2>2, <2>3 DEF ClockInv
<1>3. CASE Tick
  <2>1. timers' = [i \in {1} |-> Less(timers[1])]
    BY <1>0, <1>3 DEF Tick
  <2>2. Less(timers[1]) \in Nat
    BY <1>0 DEF Less
  <2>3. timers' \in Seq(Nat) /\ Len(timers') = 1 /\ timers'[1] = Less(timers[1])
    <3>1. timers' = <<Less(timers[1])>>
      BY <2>1
    <3>2. QED
      BY <2>2, <3>1
  <2>4. phase = "wait" => timeout' \in Nat /\ timeout' <= Less(timers[1])
    BY <1>0, <1>3 DEF Tick, Less, ClockInv
  <2>5. QED
    BY <1>3, <2>3, <2>4 DEF Tick, ClockInv
<1>4. CASE Dispatch
  BY <1>4 DEF Dispatch, ClockInv
<1>5. ASSUME NEW fd, Report(fd) PROVE ClockInv'
  BY <1>5 DEF Report, Returned, ClockInv
<1>6. CASE TimeOut \/ Interrupt
  BY <1>6 DEF TimeOut, Interrupt, Returned, ClockInv
<1>7. CASE Connect \/ UNCHANGED loopvars
  BY <1>7 DEF Connect, loopvars, ClockInv
<1>8. ASSUME NEW c \in Connection, Send(c) \/ HangUp(c) PROVE ClockInv'
  BY <1>8 DEF Send, HangUp, ClockInv
<1>9. QED
  BY <1>1, <1>2, <1>3, <1>4, <1>5, <1>6, <1>7, <1>8 DEF LoopNext, Step

\* epoll_wait() never blocks past the earliest deadline, whatever the
\* resolution of the clock: the cast to milliseconds rounds down, and
\* housekeeping always leaves a timer behind.
THEOREM WaitsAreOnTime == LoopSpec => []OnTime
<1>1. ClockInv => OnTime
  <2> SUFFICES ASSUME ClockInv PROVE OnTime
    OBVIOUS
  <2>1. Min(Range(timers)) = timers[1]
    BY OneTimer DEF ClockInv
  <2>2. QED
    BY <2>1 DEF ClockInv, OnTime
<1>2. QED
  BY <1>1, ClockInit, ClockStep, PTL DEF LoopSpec

---------------------------------------------------------------------------
\* The descriptors can be counted, so that the batch is what it should be.
INSTANCE FiniteSetTheorems

\* A subset of the descriptors is finite.
LEMMA Counted == Counts
<1>1. IsFiniteSet(Fds \union {Listener})
  BY Constants, FS_AddElement
<1> QED
  BY <1>1, FS_Subset, FS_CardinalityType DEF Counts

\* No event reaches a connection that took over the descriptor of the one it
\* was reported for: a descriptor becomes free only when housekeeping runs, and
\* poll() fires the timers when the whole batch has been dispatched.
THEOREM EventsReachTheirOwn == LoopSpec => []NotMisled
<1>1. BatchInv => NotMisled
  BY DEF BatchInv, NotMisled
<1>2. BatchInv /\ [LoopNext]_loopvars => BatchInv'
  BY Counted, BatchStep
<1> QED
  BY <1>1, <1>2, BatchInit, PTL DEF LoopSpec
=============================================================================
