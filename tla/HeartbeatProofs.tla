-------------------------- MODULE HeartbeatProofs ---------------------------
(***************************************************************************)
(* Proof that a device that runs is never evicted, for every number of     *)
(* connections and every heartbeat interval, jitter, latency and number of *)
(* lost heartbeats that the timeout allows for (SystemConstants).          *)
(***************************************************************************)
EXTENDS ServerProofs, WellFoundedInduction

Frame == [type : {"kHello", "kHeartbeat", "kSample"}, age : Nat]

\* The longest time between two heartbeats of a device.
Gap == kHeartbeatInterval + Jitter

\* The heartbeats among the frames u under way.
Beats(u) == {i \in DOMAIN u : u[i].type = "kHeartbeat"}

\* The last heartbeat under way was sent s ago, and each one at most Gap
\* after the one before it.
Spaced(u, s) ==
  /\ \A i \in Beats(u) : (\A j \in Beats(u) : j <= i) => u[i].age = s
  /\ \A i, j \in Beats(u) :
       i < j /\ (\A k \in Beats(u) : k <= i \/ j <= k) => u[i].age <= u[j].age + Gap

\* The server has heard nothing for d: no longer than the l heartbeats lost in
\* a row and the one to come next account for.
Heard(u, s, l, d) ==
  /\ Beats(u) = {} => d <= l * Gap + s
  /\ \A i \in Beats(u) : (\A j \in Beats(u) : i <= j) => d <= (l + 1) * Gap + u[i].age

LEMMA GapNat == Gap \in Nat
BY SystemConstants DEF Gap

LEMMA BoundsNat == MaxLost \in Nat /\ Latency \in Nat
BY SystemConstants

LEMMA OneMoreGap ==
  \A d, p, a \in Int : d <= p + a => \A b, g \in Int : a <= b + g => d <= (p + g) + b
OBVIOUS

LEMMA BothOlder ==
  \A a, b, g \in Int : a <= b + g => a + 1 <= (b + 1) + g
OBVIOUS

---------------------------------------------------------------------------
\* What the steps do to the frames under way, and with them to Spaced and Heard.

LEMMA AppendFrame ==
  ASSUME NEW u \in Seq(Frame), NEW f \in Frame
  PROVE  /\ Append(u, f) \in Seq(Frame) /\ DOMAIN u = 1..Len(u) /\ Len(u) \in Nat
         /\ DOMAIN Append(u, f) = 1..(Len(u) + 1)
         /\ \A i \in 1..Len(u) : Append(u, f)[i] = u[i]
         /\ Append(u, f)[Len(u) + 1] = f
OBVIOUS

LEMMA TailFrame ==
  ASSUME NEW u \in Seq(Frame), u # <<>>
  PROVE  /\ Tail(u) \in Seq(Frame) /\ DOMAIN u = 1..Len(u) /\ Len(u) \in Nat \ {0}
         /\ DOMAIN Tail(u) = 1..(Len(u) - 1)
         /\ \A i \in 1..(Len(u) - 1) : Tail(u)[i] = u[i + 1]
         /\ Head(u) = u[1]
OBVIOUS

LEMMA BeatsAppend ==
  ASSUME NEW u \in Seq(Frame), NEW f \in Frame
  PROVE  Beats(Append(u, f)) =
           Beats(u) \cup (IF f.type = "kHeartbeat" THEN {Len(u) + 1} ELSE {})
<1>1. /\ DOMAIN u = 1..Len(u) /\ Len(u) \in Nat
      /\ DOMAIN Append(u, f) = 1..(Len(u) + 1)
      /\ \A i \in 1..Len(u) : Append(u, f)[i] = u[i]
      /\ Append(u, f)[Len(u) + 1] = f
  BY AppendFrame
<1>2. ASSUME NEW i
      PROVE  i \in 1..(Len(u) + 1) <=> (i \in 1..Len(u) \/ i = Len(u) + 1)
  BY <1>1
<1> QED
  BY <1>1, <1>2 DEF Beats

LEMMA BeatsTail ==
  ASSUME NEW u \in Seq(Frame), u # <<>>
  PROVE  /\ \A i \in Beats(Tail(u)) : i \in Nat \ {0} /\ i + 1 \in Beats(u)
         /\ \A i \in Beats(u) : i \in Nat \ {0} /\ (i # 1 => i - 1 \in Beats(Tail(u)))
<1>1. /\ DOMAIN u = 1..Len(u) /\ Len(u) \in Nat
      /\ DOMAIN Tail(u) = 1..(Len(u) - 1)
      /\ \A i \in 1..(Len(u) - 1) : Tail(u)[i] = u[i + 1]
  BY TailFrame
<1>2. ASSUME NEW i \in Beats(Tail(u))
      PROVE  i \in Nat \ {0} /\ i + 1 \in Beats(u)
  BY <1>1 DEF Beats
<1>3. ASSUME NEW i \in Beats(u)
      PROVE  i \in Nat \ {0} /\ (i # 1 => i - 1 \in Beats(Tail(u)))
  <2>1. i \in 1..Len(u)
    BY <1>1 DEF Beats
  <2>2. ASSUME i # 1 PROVE i - 1 \in 1..(Len(u) - 1) /\ (i - 1) + 1 = i
    BY <1>1, <2>1, <2>2
  <2> QED
    BY <1>1, <2>1, <2>2 DEF Beats
<1> QED
  BY <1>2, <1>3

\* An index of a heartbeat, and the age of the frame there.
LEMMA BeatType ==
  ASSUME NEW u \in Seq(Frame), NEW i \in Beats(u)
  PROVE  i \in 1..Len(u) /\ u[i] \in Frame /\ u[i].age \in Nat
<1>1. i \in 1..Len(u)
  BY DEF Beats
<1>2. u[i] \in Frame
  BY <1>1
<1> QED
  BY <1>1, <1>2 DEF Frame

\* SendHeartbeat().
LEMMA SpacedBeat ==
  ASSUME NEW u \in Seq(Frame), NEW s \in Nat, s <= Gap, Spaced(u, s), NEW f \in Frame,
         f.type = "kHeartbeat", f.age = 0
  PROVE  Spaced(Append(u, f), 0)
<1> DEFINE w == Append(u, f)
           n == Len(u) + 1
<1>1. /\ n \in Nat /\ w[n] = f
      /\ Beats(w) = Beats(u) \cup {n}
  BY AppendFrame, BeatsAppend
<1>2. \A i \in Beats(u) : i \in Nat /\ i < n /\ w[i] = u[i] /\ u[i].age \in Nat
  BY AppendFrame, BeatType
<1> HIDE DEF w, n
<1>3. ASSUME NEW i \in Beats(w), \A j \in Beats(w) : j <= i
      PROVE  w[i].age = 0
  BY <1>1, <1>2, <1>3
<1>4. ASSUME NEW i \in Beats(w), NEW j \in Beats(w), i < j,
             \A k \in Beats(w) : k <= i \/ j <= k
      PROVE  w[i].age <= w[j].age + Gap
  <2>1. i \in Beats(u)
    BY <1>1, <1>2, <1>4
  <2>2. CASE j = n
    <3>1. \A k \in Beats(u) : k <= i
      BY <1>1, <1>2, <1>4, <2>1, <2>2
    <3>2. u[i].age = s
      BY <2>1, <3>1 DEF Spaced
    <3>3. w[i].age = s /\ w[j].age = 0
      BY <1>1, <1>2, <2>1, <2>2, <3>2, Zenon
    <3> QED
      BY <3>3, GapNat
  <2>3. CASE j # n
    BY <1>1, <1>2, <1>4, <2>1, <2>3 DEF Spaced
  <2> QED
    BY <2>2, <2>3
<1>5. Spaced(w, 0)
  BY <1>3, <1>4 DEF Spaced
<1> QED
  BY <1>5 DEF w

LEMMA HeardBeat ==
  ASSUME NEW u \in Seq(Frame), NEW s \in Nat, s <= Gap, NEW l \in Nat, NEW d \in Nat,
         Heard(u, s, l, d), NEW f \in Frame, f.type = "kHeartbeat", f.age = 0
  PROVE  Heard(Append(u, f), 0, l, d)
<1> DEFINE w == Append(u, f)
           n == Len(u) + 1
<1>1. /\ n \in Nat /\ w[n] = f
      /\ Beats(w) = Beats(u) \cup {n}
  BY AppendFrame, BeatsAppend
<1>2. \A i \in Beats(u) : i \in Nat /\ i < n /\ w[i] = u[i] /\ u[i].age \in Nat
  BY AppendFrame, BeatType
<1> HIDE DEF w, n
<1>3. l * Gap \in Nat /\ (l + 1) * Gap = l * Gap + Gap
  BY GapNat
<1>4. ASSUME NEW i \in Beats(w), \A j \in Beats(w) : i <= j
      PROVE  d <= (l + 1) * Gap + w[i].age
  <2>1. CASE i = n
    <3>1. ASSUME NEW j \in Beats(u) PROVE FALSE
      <4>1. n <= j
        BY <1>1, <1>4, <2>1
      <4> QED
        BY <1>1, <1>2, <4>1
    <3>2. d <= l * Gap + s
      BY <3>1, Zenon DEF Heard
    <3> QED
      BY <1>1, <1>3, <2>1, <3>2, GapNat
  <2>2. CASE i # n
    BY <1>1, <1>2, <1>4, <2>2 DEF Heard
  <2> QED
    BY <2>1, <2>2
<1>5. Heard(w, 0, l, d)
  BY <1>1, <1>4 DEF Heard
<1> QED
  BY <1>5 DEF w

\* A frame that is no heartbeat is sent.
LEMMA OtherSent ==
  ASSUME NEW u \in Seq(Frame), NEW s \in Nat, NEW f \in Frame, f.type # "kHeartbeat"
  PROVE  /\ Spaced(u, s) => Spaced(Append(u, f), s)
         /\ \A l, d \in Nat : Heard(u, s, l, d) => Heard(Append(u, f), s, l, d)
<1>1. Beats(Append(u, f)) = Beats(u)
  BY BeatsAppend, Zenon
<1>2. \A i \in Beats(u) : Append(u, f)[i] = u[i]
  BY AppendFrame, BeatType
<1> QED
  BY <1>1, <1>2, Zenon DEF Spaced, Heard

\* The first frame arrives or is lost.
LEMMA SpacedTail ==
  ASSUME NEW u \in Seq(Frame), u # <<>>, NEW s \in Nat, Spaced(u, s)
  PROVE  Spaced(Tail(u), s)
<1> DEFINE w == Tail(u)
<1>1. /\ \A i \in Beats(w) : i \in Nat \ {0} /\ i + 1 \in Beats(u)
      /\ \A i \in Beats(u) : i \in Nat \ {0} /\ (i # 1 => i - 1 \in Beats(w))
  BY BeatsTail
<1>2. \A i \in Beats(w) : w[i] = u[i + 1]
  BY TailFrame DEF Beats
<1> HIDE DEF w
<1>3. ASSUME NEW i \in Beats(w), \A j \in Beats(w) : j <= i
      PROVE  w[i].age = s
  <2>1. ASSUME NEW j \in Beats(u) PROVE j <= i + 1
    <3>1. CASE j = 1
      BY <1>1, <3>1
    <3>2. CASE j # 1
      <4>1. j - 1 \in Beats(w) /\ j \in Nat /\ i \in Nat
        BY <1>1, <3>2
      <4>2. j - 1 <= i
        BY <1>3, <4>1
      <4> QED
        BY <4>1, <4>2
    <3> QED
      BY <3>1, <3>2
  <2> QED
    BY <1>1, <1>2, <2>1 DEF Spaced
<1>4. ASSUME NEW i \in Beats(w), NEW j \in Beats(w), i < j,
             \A k \in Beats(w) : k <= i \/ j <= k
      PROVE  w[i].age <= w[j].age + Gap
  <2>1. /\ i \in Nat /\ j \in Nat /\ i + 1 < j + 1
        /\ i + 1 \in Beats(u) /\ j + 1 \in Beats(u)
    BY <1>1, <1>4
  <2>2. ASSUME NEW k \in Beats(u) PROVE k <= i + 1 \/ j + 1 <= k
    <3>1. CASE k = 1
      BY <2>1, <3>1
    <3>2. CASE k # 1
      <4>1. k - 1 \in Beats(w) /\ k \in Nat
        BY <1>1, <3>2
      <4>2. k - 1 <= i \/ j <= k - 1
        BY <1>4, <4>1
      <4> QED
        BY <2>1, <4>1, <4>2
    <3> QED
      BY <3>1, <3>2
  <2>3. u[i + 1].age <= u[j + 1].age + Gap
    BY <2>1, <2>2 DEF Spaced
  <2> QED
    BY <1>2, <2>3
<1>5. Spaced(w, s)
  BY <1>3, <1>4 DEF Spaced
<1> QED
  BY <1>5 DEF w

LEMMA HeardLost ==
  ASSUME NEW u \in Seq(Frame), u # <<>>, NEW s \in Nat, NEW l \in Nat, NEW d \in Nat,
         Spaced(u, s), Heard(u, s, l, d)
  PROVE  /\ Head(u).type # "kHeartbeat" => Heard(Tail(u), s, l, d)
         /\ Head(u).type = "kHeartbeat" => Heard(Tail(u), s, l + 1, d)
<1> DEFINE w == Tail(u)
<1>1. /\ \A i \in Beats(w) : i \in Nat \ {0} /\ i + 1 \in Beats(u)
      /\ \A i \in Beats(u) : i \in Nat \ {0} /\ (i # 1 => i - 1 \in Beats(w))
  BY BeatsTail
<1>2. \A i \in Beats(w) : w[i] = u[i + 1]
  BY TailFrame DEF Beats
<1>3. 1 \in Beats(u) <=> Head(u).type = "kHeartbeat"
  BY TailFrame DEF Beats
<1>4. \A i \in Beats(u) : u[i].age \in Nat
  BY BeatType
<1> HIDE DEF w
<1>5. /\ l * Gap \in Nat /\ Gap \in Nat
      /\ (l + 1) * Gap = l * Gap + Gap /\ ((l + 1) + 1) * Gap = l * Gap + Gap + Gap
  BY GapNat
<1>6. ASSUME NEW i \in Beats(w), \A j \in Beats(w) : i <= j
      PROVE  \A k \in Beats(u) : k <= 1 \/ i + 1 <= k
  <2> SUFFICES ASSUME NEW k \in Beats(u), k # 1 PROVE i + 1 <= k
    BY <1>1
  <2>1. k - 1 \in Beats(w) /\ k \in Nat /\ i \in Nat
    BY <1>1
  <2>2. i <= k - 1
    BY <1>6, <2>1
  <2> QED
    BY <2>1, <2>2
<1>7. ASSUME 1 \notin Beats(u)
      PROVE  Heard(w, s, l, d)
  <2>1. ASSUME Beats(w) = {} PROVE d <= l * Gap + s
    <3>1. Beats(u) = {}
      BY <1>1, <1>7, <2>1
    <3> QED
      BY <3>1, Zenon DEF Heard
  <2>2. ASSUME NEW i \in Beats(w), \A j \in Beats(w) : i <= j
        PROVE  d <= (l + 1) * Gap + w[i].age
    <3>1. \A k \in Beats(u) : k <= 1 \/ i + 1 <= k
      BY <1>6, <2>2
    <3>2. \A k \in Beats(u) : i + 1 <= k
      BY <1>1, <1>7, <3>1
    <3>3. d <= (l + 1) * Gap + u[i + 1].age
      BY <1>1, <3>2, Zenon DEF Heard
    <3> QED
      BY <1>2, <3>3
  <2> QED
    BY <2>1, <2>2, Zenon DEF Heard
<1>8. ASSUME 1 \in Beats(u)
      PROVE  Heard(w, s, l + 1, d)
  <2>0. d <= (l + 1) * Gap + u[1].age
    <3>1. \A j \in Beats(u) : 1 <= j
      BY <1>1
    <3> QED
      BY <1>8, <3>1, Zenon DEF Heard
  <2>1. ASSUME Beats(w) = {} PROVE d <= (l + 1) * Gap + s
    <3>1. \A j \in Beats(u) : j <= 1
      BY <1>1, <2>1
    <3>2. u[1].age = s
      BY <1>8, <3>1 DEF Spaced
    <3> QED
      BY <2>0, <3>2
  <2>2. ASSUME NEW i \in Beats(w), \A j \in Beats(w) : i <= j
        PROVE  d <= ((l + 1) + 1) * Gap + w[i].age
    <3>1. \A k \in Beats(u) : k <= 1 \/ i + 1 <= k
      BY <1>6, <2>2
    <3>2. i + 1 \in Beats(u) /\ 1 < i + 1
      BY <1>1
    <3>3. u[1].age <= u[i + 1].age + Gap
      BY <1>8, <3>1, <3>2, Zenon DEF Spaced
    <3>4. u[1].age \in Nat /\ u[i + 1].age \in Nat /\ w[i].age = u[i + 1].age
      BY <1>2, <1>4, <1>8, <3>2
    <3>5. /\ (l + 1) * Gap \in Int /\ Gap \in Int /\ d \in Int
          /\ ((l + 1) + 1) * Gap = (l + 1) * Gap + Gap
          /\ u[1].age \in Int /\ u[i + 1].age \in Int
      BY <1>5, <3>4
    <3>6. d <= ((l + 1) * Gap + Gap) + u[i + 1].age
      BY <2>0, <3>3, <3>5, OneMoreGap, Zenon
    <3> QED
      BY <3>4, <3>5, <3>6, Zenon
  <2> QED
    BY <2>1, <2>2, Zenon DEF Heard
<1> QED
  BY <1>3, <1>7, <1>8 DEF w

\* Time passes.
Older(u) == [i \in DOMAIN u |-> [u[i] EXCEPT !.age = @ + 1]]

LEMMA OlderFrame ==
  ASSUME NEW u \in Seq(Frame)
  PROVE  /\ Older(u) \in Seq(Frame) /\ Beats(Older(u)) = Beats(u)
         /\ DOMAIN Older(u) = DOMAIN u
         /\ \A i \in DOMAIN u : Older(u)[i].age = u[i].age + 1 /\ u[i].age \in Nat
<1>1. /\ Len(u) \in Nat /\ DOMAIN u = 1..Len(u)
      /\ \A i \in DOMAIN u : u[i] \in Frame
  OBVIOUS
<1>2. \A i \in DOMAIN u : /\ [u[i] EXCEPT !.age = @ + 1] \in Frame
                          /\ [u[i] EXCEPT !.age = @ + 1].type = u[i].type
                          /\ [u[i] EXCEPT !.age = @ + 1].age = u[i].age + 1
                          /\ u[i].age \in Nat
  BY <1>1 DEF Frame
<1>3. Older(u) \in [1..Len(u) -> Frame]
  BY <1>1, <1>2, Zenon DEF Older
<1>4. Older(u) \in Seq(Frame)
  BY <1>1, <1>3
<1>5. DOMAIN Older(u) = DOMAIN u /\ \A i \in DOMAIN u : Older(u)[i] = [u[i] EXCEPT !.age = @ + 1]
  BY Zenon DEF Older
<1>6. Beats(Older(u)) = Beats(u)
  BY <1>2, <1>5, Zenon DEF Beats
<1> QED
  BY <1>2, <1>4, <1>5, <1>6, Zenon

LEMMA TimePasses ==
  ASSUME NEW u \in Seq(Frame), NEW s \in Nat
  PROVE  /\ Spaced(u, s) => Spaced(Older(u), s + 1)
         /\ \A l, d \in Nat : Heard(u, s, l, d) => Heard(Older(u), s + 1, l, d + 1)
<1>1. /\ Beats(Older(u)) = Beats(u)
      /\ \A i \in Beats(u) : Older(u)[i].age = u[i].age + 1 /\ u[i].age \in Nat
  BY OlderFrame DEF Beats
<1>2. ASSUME Spaced(u, s) PROVE Spaced(Older(u), s + 1)
  <2>1. \A i \in Beats(u) : (\A j \in Beats(u) : j <= i) => Older(u)[i].age = s + 1
    BY <1>1, <1>2 DEF Spaced
  <2>2. ASSUME NEW i \in Beats(u), NEW j \in Beats(u), i < j,
               \A k \in Beats(u) : k <= i \/ j <= k
        PROVE  Older(u)[i].age <= Older(u)[j].age + Gap
    <3>1. u[i].age <= u[j].age + Gap
      BY <1>2, <2>2, Zenon DEF Spaced
    <3>2. /\ Older(u)[i].age = u[i].age + 1 /\ u[i].age \in Nat
          /\ Older(u)[j].age = u[j].age + 1 /\ u[j].age \in Nat
      BY <1>1, Zenon
    <3>3. u[i].age \in Int /\ u[j].age \in Int /\ Gap \in Int
      BY <3>2, GapNat
    <3> QED
      BY <3>1, <3>2, <3>3, BothOlder, Zenon
  <2> QED
    BY <1>1, <2>1, <2>2, Zenon DEF Spaced
<1>3. ASSUME NEW l \in Nat, NEW d \in Nat, Heard(u, s, l, d)
      PROVE  Heard(Older(u), s + 1, l, d + 1)
  <2>1. l * Gap \in Nat /\ (l + 1) * Gap \in Nat
    BY GapNat
  <2>2. ASSUME Beats(u) = {} PROVE d + 1 <= l * Gap + (s + 1)
    <3>1. d <= l * Gap + s
      BY <1>3, <2>2, Zenon DEF Heard
    <3> QED
      BY <2>1, <3>1
  <2>3. ASSUME NEW i \in Beats(u), \A j \in Beats(u) : i <= j
        PROVE  d + 1 <= (l + 1) * Gap + Older(u)[i].age
    <3>1. d <= (l + 1) * Gap + u[i].age
      BY <1>3, <2>3, Zenon DEF Heard
    <3> QED
      BY <1>1, <2>1, <3>1
  <2> QED
    BY <1>1, <2>2, <2>3, Zenon DEF Heard
<1> QED
  BY <1>2, <1>3

\* A frame is handled.
LEMMA HeardNow ==
  ASSUME NEW u \in Seq(Frame), NEW s \in Nat, NEW l \in Nat
  PROVE  Heard(u, s, l, 0)
<1>1. l * Gap \in Nat /\ (l + 1) * Gap \in Nat
  BY GapNat
<1>2. \A i \in Beats(u) : u[i].age \in Nat
  BY BeatType
<1> QED
  BY <1>1, <1>2 DEF Heard

\* Nothing is under way.
LEMMA NoneSpaced == ASSUME NEW s \in Nat PROVE <<>> \in Seq(Frame) /\ Spaced(<<>>, s)
BY DEF Spaced, Beats

\* What Heard allows is within the timeout: a set of heartbeats under way that
\* is not empty has a first one.
LEMMA WithinTimeout ==
  ASSUME NEW u \in Seq(Frame), \A i \in DOMAIN u : u[i].age <= Latency,
         NEW s \in Nat, s <= Gap, NEW l \in Nat, l <= MaxLost,
         NEW d \in Nat, Heard(u, s, l, d)
  PROVE  d <= kDeviceTimeout
<1>1. /\ MaxLost \in Nat /\ Latency \in Nat /\ kDeviceTimeout \in Nat /\ Gap \in Nat
      /\ (MaxLost + 1) * Gap + Latency <= kDeviceTimeout
  BY SystemConstants, ServerConstants, GapNat DEF Gap
<1>2. /\ l * Gap \in Nat /\ (l + 1) * Gap = l * Gap + Gap
      /\ MaxLost * Gap \in Nat /\ (MaxLost + 1) * Gap = MaxLost * Gap + Gap
  BY <1>1
<1>3. l * Gap <= MaxLost * Gap
  <2> DEFINE e == MaxLost - l
  <2>1. e \in Nat /\ MaxLost = l + e
    BY <1>1
  <2>2. e * Gap \in Nat /\ (l + e) * Gap = l * Gap + e * Gap
    BY <1>1, <2>1
  <2> QED
    BY <1>1, <1>2, <2>1, <2>2
<1>4. /\ l * Gap + Gap \in Nat /\ (l + 1) * Gap \in Nat
      /\ l * Gap + Gap + Latency <= kDeviceTimeout
      /\ (l + 1) * Gap + Latency <= kDeviceTimeout
  BY <1>1, <1>2, <1>3
<1>5. CASE Beats(u) = {}
  <2>1. d <= l * Gap + s
    BY <1>5, Zenon DEF Heard
  <2> QED
    BY <1>1, <1>2, <1>4, <2>1
<1>6. CASE Beats(u) # {}
  <2>1. Beats(u) \subseteq Nat
    BY BeatType
  <2>2. PICK i \in Beats(u) : \A j \in Beats(u) : ~(<<j, i>> \in OpToRel(<, Nat))
    BY <1>6, <2>1, WFMin, NatLessThanWellFounded
  <2>3. ASSUME NEW j \in Beats(u) PROVE i <= j
    <3>1. i \in Nat /\ j \in Nat
      BY <2>1
    <3>2. ~(j < i)
      BY <2>2, <3>1, Zenon DEF OpToRel
    <3> QED
      BY <3>1, <3>2
  <2>4. d <= (l + 1) * Gap + u[i].age
    BY <2>3, Zenon DEF Heard
  <2>5. u[i].age \in Nat /\ u[i].age <= Latency
    BY BeatType DEF Beats
  <2> QED
    BY <1>1, <1>4, <2>4, <2>5
<1> QED
  BY <1>5, <1>6

---------------------------------------------------------------------------
\* A device that runs is heard of in time.

SysTypes ==
  /\ TypeOK
  /\ power \in [Fds -> {"off", "on", "dead"}]
  /\ since \in [Fds -> Nat] /\ lost \in [Fds -> Nat]
  /\ uplink \in [Fds -> Seq(Frame)]

\* Where one connection can be: r, c, n and d are role, closed, session and
\* idle, p, t, l and u power, since, lost and uplink.
Punctual(r, c, n, d, p, t, l, u) ==
  /\ t <= Gap /\ l <= MaxLost
  /\ \A i \in DOMAIN u : u[i].age <= Latency
  /\ r # "device" => u = <<>> /\ p # "on"
  /\ p = "on" /\ ~c => Spaced(u, t) /\ (n => Heard(u, t, l, d))

SysInv ==
  /\ SysTypes
  /\ \A fd \in Fds : Punctual(role[fd], closed[fd], session[fd], idle[fd],
                              power[fd], since[fd], lost[fd], uplink[fd])

\* A frame just sent.
LEMMA FrameSent ==
  ASSUME NEW type \in {"kHello", "kHeartbeat", "kSample"}
  PROVE  /\ [type |-> type, age |-> 0] \in Frame
         /\ [type |-> type, age |-> 0].type = type
         /\ [type |-> type, age |-> 0].age = 0
BY DEF Frame

LEMMA PutType ==
  ASSUME SysTypes, NEW fd \in Fds, NEW type \in {"kHello", "kHeartbeat", "kSample"},
         Put(fd, type)
  PROVE  uplink' \in [Fds -> Seq(Frame)]
<1>1. uplink[fd] \in Seq(Frame)
  BY DEF SysTypes
<1>2. Append(uplink[fd], [type |-> type, age |-> 0]) \in Seq(Frame)
  BY <1>1, FrameSent, AppendFrame
<1> QED
  BY <1>1, <1>2, Zenon DEF Put, SysTypes

LEMMA SysTypesStep == SysTypes /\ [SysNext]_sysvars => SysTypes'
<1> SUFFICES ASSUME SysTypes, [SysNext]_sysvars PROVE SysTypes'
  OBVIOUS
<1>0. TypeOK'
  BY ServerStep, TypeStep DEF SysTypes
<1>1. ASSUME NEW fd \in Fds, Boot(fd) PROVE SysTypes'
  BY <1>0, <1>1, PutType DEF Boot, SysTypes
<1>2. ASSUME NEW fd \in Fds, Beat(fd) PROVE SysTypes'
  BY <1>0, <1>2, PutType DEF Beat, SysTypes
<1>3. ASSUME NEW fd \in Fds, Take(fd) PROVE SysTypes'
  BY <1>0, <1>3, PutType DEF Take, SysTypes
<1>4. ASSUME NEW fd \in Fds, Apply(fd) \/ Die(fd) PROVE SysTypes'
  BY <1>0, <1>4, Zenon DEF Apply, Die, SysTypes
<1>5. ASSUME NEW fd \in Fds, Lose(fd) \/ Deliver(fd) PROVE SysTypes'
  <2>1. /\ uplink[fd] # <<>> /\ uplink' = [uplink EXCEPT ![fd] = Tail(@)]
        /\ UNCHANGED <<power, since>>
    BY <1>5, Zenon DEF Lose, Deliver
  <2>2. Tail(uplink[fd]) \in Seq(Frame)
    BY <2>1, TailFrame DEF SysTypes
  <2>3. uplink' \in [Fds -> Seq(Frame)]
    BY <2>1, <2>2, Zenon DEF SysTypes
  <2>4. \/ lost' = lost \/ lost' = [lost EXCEPT ![fd] = 0]
        \/ lost' = [lost EXCEPT ![fd] = @ + 1]
    BY <1>5, Zenon DEF Lose, Deliver
  <2>5. lost' \in [Fds -> Nat]
    BY <2>4 DEF SysTypes
  <2> QED
    BY <1>0, <2>1, <2>3, <2>5 DEF SysTypes
<1>6. ASSUME NEW fd \in Fds, Cut(fd) PROVE SysTypes'
  BY <1>0, <1>6, NoneSpaced DEF Cut, SysTypes
<1>7. ASSUME Serve PROVE SysTypes'
  BY <1>0, <1>7 DEF Serve, devices, SysTypes
<1>8. ASSUME Sweep PROVE SysTypes'
  <2>1. <<>> \in Seq(Frame)
    BY NoneSpaced
  <2> QED
    BY <1>0, <1>8, <2>1 DEF Sweep, SysTypes
<1>9. ASSUME Pass PROVE SysTypes'
  <2>1. since' \in [Fds -> Nat]
    BY <1>9 DEF Pass, SysTypes
  <2>2. uplink' = [fd \in Fds |-> Older(uplink[fd])]
    BY <1>9, Zenon DEF Pass, Older
  <2>3. \A fd \in Fds : Older(uplink[fd]) \in Seq(Frame)
    BY OlderFrame DEF SysTypes
  <2>4. uplink' \in [Fds -> Seq(Frame)]
    BY <2>2, <2>3, Zenon
  <2> QED
    BY <1>0, <1>9, <2>1, <2>4 DEF Pass, SysTypes
<1>10. CASE UNCHANGED sysvars
  BY <1>0, <1>10 DEF sysvars, devices, SysTypes
<1> QED
  BY <1>1, <1>2, <1>3, <1>4, <1>5, <1>6, <1>7, <1>8, <1>9, <1>10, Zenon DEF SysNext

\* What Put() does to the connection it is about, and to the others.
LEMMA PutEffect ==
  ASSUME SysTypes, NEW fd \in Fds, NEW type \in {"kHello", "kHeartbeat", "kSample"},
         Put(fd, type)
  PROVE  /\ uplink'[fd] = IF closed[fd] THEN uplink[fd]
                          ELSE Append(uplink[fd], [type |-> type, age |-> 0])
         /\ \A g \in Fds \ {fd} : uplink'[g] = uplink[g]
BY Zenon DEF Put, SysTypes

LEMMA AgesAppend ==
  ASSUME NEW u \in Seq(Frame), \A i \in DOMAIN u : u[i].age <= Latency,
         NEW f \in Frame, f.age = 0
  PROVE  \A i \in DOMAIN Append(u, f) : Append(u, f)[i].age <= Latency
<1>1. Latency \in Nat
  BY SystemConstants
<1> QED
  BY <1>1, AppendFrame

LEMMA AgesTail ==
  ASSUME NEW u \in Seq(Frame), u # <<>>, \A i \in DOMAIN u : u[i].age <= Latency
  PROVE  \A i \in DOMAIN Tail(u) : Tail(u)[i].age <= Latency
<1> SUFFICES ASSUME NEW i \in DOMAIN Tail(u) PROVE Tail(u)[i].age <= Latency
  OBVIOUS
<1>1. i + 1 \in DOMAIN u /\ Tail(u)[i] = u[i + 1]
  BY TailFrame
<1> QED
  BY <1>1

LEMMA SysInvStep == SysInv /\ [SysNext]_sysvars => SysInv'
<1> SUFFICES ASSUME SysInv, [SysNext]_sysvars, NEW g \in Fds
             PROVE  Punctual(role'[g], closed'[g], session'[g], idle'[g],
                             power'[g], since'[g], lost'[g], uplink'[g])
  BY SysTypesStep DEF SysInv, Punctual, Spaced, Heard, Beats, Gap
<1> DEFINE Goal == Punctual(role'[g], closed'[g], session'[g], idle'[g],
                            power'[g], since'[g], lost'[g], uplink'[g])
           u == uplink[g]
<1>0. /\ SysTypes /\ TypeOK
      /\ Punctual(role[g], closed[g], session[g], idle[g],
                  power[g], since[g], lost[g], uplink[g])
  BY DEF SysInv, SysTypes
<1>1. /\ u \in Seq(Frame) /\ since[g] \in Nat /\ lost[g] \in Nat /\ idle[g] \in Nat
      /\ since[g] <= Gap /\ lost[g] <= MaxLost
      /\ \A i \in DOMAIN u : u[i].age <= Latency
      /\ role[g] # "device" => u = <<>> /\ power[g] # "on"
      /\ power[g] = "on" /\ ~closed[g] =>
           Spaced(u, since[g]) /\ (session[g] => Heard(u, since[g], lost[g], idle[g]))
  BY <1>0, Zenon DEF SysTypes, TypeOK, Punctual
<1>2. ASSUME role'[g] = role[g], closed'[g] = closed[g], session'[g] = session[g],
             idle'[g] = idle[g], power'[g] = power[g], since'[g] = since[g],
             lost'[g] = lost[g], uplink'[g] = uplink[g]
      PROVE  Goal
  BY <1>0, <1>2, Zenon
<1> HIDE DEF Goal
<1>3. ASSUME NEW fd \in Fds, Boot(fd) PROVE Goal
  <2>1. /\ AcceptDevice(fd) /\ Put(fd, "kHello")
        /\ power' = [power EXCEPT ![fd] = "on"] /\ UNCHANGED <<since, lost>>
    BY <1>3 DEF Boot
  <2>2. CASE g # fd
    <3>1. /\ role'[g] = role[g] /\ closed'[g] = closed[g] /\ session'[g] = session[g]
          /\ idle'[g] = idle[g]
      BY <1>0, <2>1, <2>2 DEF AcceptDevice, TypeOK
    <3>2. power'[g] = power[g] /\ uplink'[g] = uplink[g]
      BY <1>0, <2>1, <2>2, PutEffect DEF SysTypes
    <3> QED
      BY <1>2, <2>1, <3>1, <3>2
  <2>3. CASE g = fd
    <3>1. /\ role[g] = "free" /\ role'[g] = "device" /\ session'[g] = FALSE
      BY <1>0, <2>1, <2>3 DEF AcceptDevice, TypeOK
    <3>2. u = <<>>
      BY <1>1, <3>1
    <3>3. \/ uplink'[g] = u
          \/ uplink'[g] = Append(u, [type |-> "kHello", age |-> 0])
      BY <1>0, <2>1, <2>3, PutEffect, Zenon
    <3>4. Spaced(u, since[g])
      BY <1>1, <3>2, NoneSpaced
    <3>5. /\ Spaced(uplink'[g], since[g])
          /\ \A i \in DOMAIN uplink'[g] : uplink'[g][i].age <= Latency
      BY <1>1, <3>3, <3>4, FrameSent, OtherSent, AgesAppend, Zenon
    <3> QED
      BY <1>1, <2>1, <3>1, <3>5, Zenon DEF Goal, Punctual
  <2> QED
    BY <2>2, <2>3
<1>4. ASSUME NEW fd \in Fds, Beat(fd) PROVE Goal
  <2>1. /\ power[fd] = "on" /\ Put(fd, "kHeartbeat")
        /\ since' = [since EXCEPT ![fd] = 0] /\ UNCHANGED <<vars, power, lost>>
    BY <1>4 DEF Beat
  <2>2. UNCHANGED <<role, closed, session, idle>>
    BY <2>1 DEF vars
  <2>3. CASE g # fd
    <3>1. since'[g] = since[g] /\ uplink'[g] = uplink[g]
      BY <1>0, <2>1, <2>3, PutEffect DEF SysTypes
    <3> QED
      BY <1>2, <2>1, <2>2, <3>1
  <2>4. CASE g = fd
    <3>1. role[g] = "device" /\ since'[g] = 0
      BY <1>0, <1>1, <2>1, <2>4 DEF SysTypes
    <3>2. 0 <= Gap
      BY GapNat
    <3>3. CASE closed[g]
      <4>1. uplink'[g] = u
        BY <1>0, <2>1, <2>4, <3>3, PutEffect
      <4> QED
        BY <1>1, <2>1, <2>2, <3>1, <3>2, <3>3, <4>1, Zenon DEF Goal, Punctual
    <3>4. CASE ~closed[g]
      <4>1. uplink'[g] = Append(u, [type |-> "kHeartbeat", age |-> 0])
        BY <1>0, <2>1, <2>4, <3>4, PutEffect, Zenon
      <4>2. /\ \A i \in DOMAIN uplink'[g] : uplink'[g][i].age <= Latency
            /\ Spaced(uplink'[g], 0)
            /\ session[g] => Heard(uplink'[g], 0, lost[g], idle[g])
        BY <1>1, <2>1, <2>4, <3>4, <4>1, FrameSent, SpacedBeat, HeardBeat, AgesAppend, Zenon
      <4> QED
        BY <1>1, <2>1, <2>2, <3>1, <3>2, <4>2, Zenon DEF Goal, Punctual
    <3> QED
      BY <3>3, <3>4
  <2> QED
    BY <2>3, <2>4
<1>5. ASSUME NEW fd \in Fds, Take(fd) PROVE Goal
  <2>1. /\ power[fd] = "on" /\ Put(fd, "kSample")
        /\ UNCHANGED <<vars, power, since, lost>>
    BY <1>5 DEF Take
  <2>2. UNCHANGED <<role, closed, session, idle>>
    BY <2>1 DEF vars
  <2>3. CASE g # fd \/ closed[g]
    <3>1. uplink'[g] = uplink[g]
      BY <1>0, <2>1, <2>3, PutEffect
    <3> QED
      BY <1>2, <2>1, <2>2, <3>1
  <2>4. CASE g = fd /\ ~closed[g]
    <3>1. role[g] = "device"
      BY <1>1, <2>1, <2>4
    <3>2. uplink'[g] = Append(u, [type |-> "kSample", age |-> 0])
      BY <1>0, <2>1, <2>4, PutEffect, Zenon
    <3>3. \A i \in DOMAIN uplink'[g] : uplink'[g][i].age <= Latency
      BY <1>1, <3>2, FrameSent, AgesAppend, Zenon
    <3>4. /\ Spaced(u, since[g]) => Spaced(uplink'[g], since[g])
          /\ Heard(u, since[g], lost[g], idle[g]) =>
               Heard(uplink'[g], since[g], lost[g], idle[g])
      BY <1>1, <3>2, FrameSent, OtherSent
    <3> QED
      BY <1>1, <2>1, <2>2, <3>1, <3>3, <3>4, Zenon DEF Goal, Punctual
  <2> QED
    BY <2>3, <2>4
<1>6. ASSUME NEW fd \in Fds, Apply(fd) PROVE Goal
  BY <1>2, <1>6, Zenon DEF Apply, vars
<1>7. ASSUME NEW fd \in Fds, Die(fd) PROVE Goal
  <2>1. /\ power' = [power EXCEPT ![fd] = "dead"] /\ UNCHANGED <<vars, since, lost, uplink>>
    BY <1>7 DEF Die
  <2>2. UNCHANGED <<role, closed, session, idle>>
    BY <2>1 DEF vars
  <2>3. power'[g] = power[g] \/ power'[g] = "dead"
    BY <1>0, <2>1 DEF SysTypes
  <2> QED
    BY <1>1, <1>2, <2>1, <2>2, <2>3, Zenon DEF Goal, Punctual
<1>8. ASSUME NEW fd \in Fds, Lose(fd) PROVE Goal
  <2>1. /\ uplink[fd] # <<>> /\ uplink' = [uplink EXCEPT ![fd] = Tail(@)]
        /\ UNCHANGED <<vars, power, since>>
        /\ \/ Head(uplink[fd]).type = "kSample" /\ lost' = lost
           \/ /\ Head(uplink[fd]).type = "kHeartbeat" /\ lost[fd] < MaxLost
              /\ lost' = [lost EXCEPT ![fd] = @ + 1]
    BY <1>8, Zenon DEF Lose
  <2>2. UNCHANGED <<role, closed, session, idle>>
    BY <2>1 DEF vars
  <2>3. CASE g # fd
    <3>1. lost'[g] = lost[g] /\ uplink'[g] = uplink[g]
      BY <1>0, <2>1, <2>3 DEF SysTypes
    <3> QED
      BY <1>2, <2>1, <2>2, <3>1
  <2>4. CASE g = fd
    <3>1. u # <<>> /\ uplink'[g] = Tail(u)
      BY <1>0, <2>1, <2>4 DEF SysTypes
    <3>2. /\ role[g] = "device"
          /\ \A i \in DOMAIN uplink'[g] : uplink'[g][i].age <= Latency
          /\ Spaced(u, since[g]) => Spaced(uplink'[g], since[g])
      BY <1>1, <3>1, AgesTail, SpacedTail
    <3>3. \/ Head(u).type = "kSample" /\ lost'[g] = lost[g]
          \/ Head(u).type = "kHeartbeat" /\ lost'[g] = lost[g] + 1 /\ lost[g] < MaxLost
      BY <1>0, <2>1, <2>4 DEF SysTypes
    <3>4. lost'[g] <= MaxLost
      <4>1. lost[g] \in Nat /\ lost[g] <= MaxLost
        BY <1>1, Zenon
      <4> QED
        BY <3>3, <4>1, BoundsNat
    <3>5. Spaced(u, since[g]) /\ Heard(u, since[g], lost[g], idle[g]) =>
            Heard(uplink'[g], since[g], lost'[g], idle[g])
      BY <1>1, <3>1, <3>3, HeardLost, Zenon
    <3> QED
      BY <1>1, <2>1, <2>2, <3>2, <3>4, <3>5, Zenon DEF Goal, Punctual
  <2> QED
    BY <2>3, <2>4
<1>9. ASSUME NEW fd \in Fds, Deliver(fd) PROVE Goal
  <2>1. /\ uplink[fd] # <<>> /\ uplink' = [uplink EXCEPT ![fd] = Tail(@)]
        /\ UNCHANGED <<power, since>>
        /\ lost' = lost \/ lost' = [lost EXCEPT ![fd] = 0]
        /\ Hello(fd, DefaultRate) \/ Heartbeat(fd) \/ Sample(fd)
    BY <1>9, Zenon DEF Deliver
  <2>2. /\ UNCHANGED <<role, closed>> /\ idle' = [idle EXCEPT ![fd] = 0]
        /\ session' = session \/ session' = [session EXCEPT ![fd] = TRUE]
    BY <2>1, Zenon DEF Hello, Heartbeat, Sample
  <2>3. CASE g # fd
    <3>1. /\ lost'[g] = lost[g] /\ uplink'[g] = uplink[g]
          /\ idle'[g] = idle[g] /\ session'[g] = session[g]
      BY <1>0, <2>1, <2>2, <2>3, Zenon DEF SysTypes, TypeOK
    <3> QED
      BY <1>2, <2>1, <2>2, <3>1
  <2>4. CASE g = fd
    <3>1. u # <<>> /\ uplink'[g] = Tail(u)
      BY <1>0, <2>1, <2>4 DEF SysTypes
    <3>2. /\ role[g] = "device"
          /\ \A i \in DOMAIN uplink'[g] : uplink'[g][i].age <= Latency
          /\ Spaced(u, since[g]) => Spaced(uplink'[g], since[g])
      BY <1>1, <3>1, AgesTail, SpacedTail
    <3>3. idle'[g] = 0 /\ lost'[g] \in Nat /\ lost'[g] <= MaxLost
      <4>1. lost'[g] = lost[g] \/ lost'[g] = 0
        BY <1>0, <2>1, <2>4, Zenon DEF SysTypes
      <4>2. idle'[g] = 0
        BY <1>0, <2>2, <2>4, Zenon DEF SysTypes, TypeOK
      <4>3. lost[g] \in Nat /\ lost[g] <= MaxLost
        BY <1>1, Zenon
      <4> QED
        BY <4>1, <4>2, <4>3, BoundsNat
    <3>4. uplink'[g] \in Seq(Frame)
      BY <1>1, <3>1, TailFrame
    <3>5. Heard(uplink'[g], since[g], lost'[g], 0)
      BY <1>1, <3>3, <3>4, HeardNow
    <3> QED
      BY <1>1, <2>1, <2>2, <3>2, <3>3, <3>5, Zenon DEF Goal, Punctual
  <2> QED
    BY <2>3, <2>4
<1>10. ASSUME NEW fd \in Fds, Cut(fd) PROVE Goal
  <2>1. /\ PeerCloses(fd) /\ uplink' = [uplink EXCEPT ![fd] = <<>>]
        /\ UNCHANGED <<power, since, lost>>
    BY <1>10 DEF Cut
  <2>2. /\ UNCHANGED <<role, session, idle>> /\ closed' = [closed EXCEPT ![fd] = TRUE]
    BY <2>1 DEF PeerCloses
  <2>3. CASE g # fd
    <3>1. closed'[g] = closed[g] /\ uplink'[g] = uplink[g]
      BY <1>0, <2>1, <2>2, <2>3 DEF SysTypes, TypeOK
    <3> QED
      BY <1>2, <2>1, <2>2, <3>1
  <2>4. CASE g = fd
    <3>1. closed'[g] /\ uplink'[g] = <<>> /\ DOMAIN <<>> = {}
      BY <1>0, <2>1, <2>2, <2>4 DEF SysTypes, TypeOK
    <3> QED
      BY <1>1, <2>1, <2>2, <3>1, Zenon DEF Goal, Punctual
  <2> QED
    BY <2>3, <2>4
<1>11. ASSUME Serve PROVE Goal
  <2>1. UNCHANGED <<power, since, lost, uplink>>
    BY <1>11 DEF Serve, devices
  <2>2. ASSUME NEW fd \in Fds, AcceptSubscriber(fd) PROVE Goal
    <3>1. UNCHANGED <<session, idle>>
      BY <2>2 DEF AcceptSubscriber
    <3>2. CASE g # fd
      <4>1. role'[g] = role[g] /\ closed'[g] = closed[g]
        BY <1>0, <2>2, <3>2 DEF AcceptSubscriber, TypeOK
      <4> QED
        BY <1>2, <2>1, <3>1, <4>1
    <3>3. CASE g = fd
      <4>1. role[g] = "free"
        BY <2>2, <3>3 DEF AcceptSubscriber
      <4>2. u = <<>> /\ power[g] # "on"
        BY <1>1, <4>1
      <4> QED
        BY <1>1, <2>1, <4>2, Zenon DEF Goal, Punctual
    <3> QED
      BY <3>2, <3>3
  <2>3. ASSUME NEW fd \in Fds, Drain(fd) \/ (\E s \in Ids : Ack(fd, s)) PROVE Goal
    <3>1. UNCHANGED <<role, closed, session, idle>>
      BY <2>3, Zenon DEF Drain, Ack
    <3> QED
      BY <1>2, <2>1, <3>1
  <2> QED
    BY <1>11, <2>2, <2>3, Zenon DEF Serve
<1>12. ASSUME Sweep PROVE Goal
  <2>1. Destroy
    BY <1>12 DEF Sweep, Housekeeping
  <2>2. CASE g \in Evicted
    <3>1. power'[g] = "off" /\ since'[g] = 0 /\ lost'[g] = 0 /\ uplink'[g] = <<>>
      BY <1>12, <2>2 DEF Sweep
    <3>2. 0 <= Gap /\ 0 <= MaxLost /\ DOMAIN <<>> = {}
      BY GapNat, BoundsNat
    <3> QED
      BY <3>1, <3>2, Zenon DEF Goal, Punctual
  <2>3. CASE g \notin Evicted
    <3>1. power'[g] = power[g] /\ since'[g] = since[g] /\ lost'[g] = lost[g] /\ uplink'[g] = u
      BY <1>12, <2>3 DEF Sweep
    <3>2. CASE g \in Dropped
      <4>1. role[g] # "device"
        BY <3>2 DEF Dropped, Subscriber
      <4>2. u = <<>> /\ power[g] # "on"
        BY <1>1, <4>1
      <4> QED
        BY <1>1, <3>1, <4>2, Zenon DEF Goal, Punctual
    <3>3. CASE g \notin Dropped
      <4>1. /\ role'[g] = role[g] /\ closed'[g] = closed[g] /\ session'[g] = session[g]
            /\ idle'[g] = idle[g]
        BY <1>0, <2>1, <2>3, <3>3 DEF Destroy, TypeOK
      <4> QED
        BY <1>2, <3>1, <4>1
    <3> QED
      BY <3>2, <3>3
  <2> QED
    BY <2>2, <2>3
<1>13. ASSUME Pass PROVE Goal
  <2>1. /\ UNCHANGED <<role, closed, session, power, lost>>
        /\ idle'[g] = IF InSession(g) THEN idle[g] + 1 ELSE idle[g]
        /\ since'[g] = IF power[g] = "on" THEN since[g] + 1 ELSE since[g]
        /\ power[g] = "on" => since[g] < Gap
        /\ \A i \in DOMAIN u : u[i].age < Latency
    BY <1>13 DEF Pass, Tick, Gap
  <2>2. uplink'[g] = Older(u)
    BY <1>13, Zenon DEF Pass, Older
  <2>3. since'[g] <= Gap
    BY <1>1, <2>1, GapNat
  <2>4. \A i \in DOMAIN uplink'[g] : uplink'[g][i].age <= Latency
    <3>1. Latency \in Nat
      BY BoundsNat
    <3>2. /\ DOMAIN Older(u) = DOMAIN u
          /\ \A i \in DOMAIN u : Older(u)[i].age = u[i].age + 1 /\ u[i].age \in Nat
      BY <1>1, OlderFrame
    <3> QED
      BY <2>1, <2>2, <3>1, <3>2
  <2>5. u = <<>> => uplink'[g] = <<>>
    BY <2>2 DEF Older
  <2>6. ASSUME power[g] = "on", ~closed[g]
        PROVE  /\ Spaced(uplink'[g], since'[g])
               /\ session[g] => Heard(uplink'[g], since'[g], lost[g], idle'[g])
    <3>1. role[g] = "device" /\ since'[g] = since[g] + 1
      BY <1>1, <2>1, <2>6
    <3>2. session[g] => idle'[g] = idle[g] + 1
      BY <2>1, <3>1 DEF InSession, Device
    <3>3. Spaced(Older(u), since[g] + 1)
      BY <1>1, <2>6, TimePasses
    <3>4. session[g] => Heard(Older(u), since[g] + 1, lost[g], idle[g] + 1)
      BY <1>1, <2>6, TimePasses
    <3> QED
      BY <2>2, <3>1, <3>2, <3>3, <3>4, Zenon
  <2> QED
    BY <1>1, <2>1, <2>3, <2>4, <2>5, <2>6, Zenon DEF Goal, Punctual
<1>14. ASSUME UNCHANGED sysvars PROVE Goal
  <2>1. UNCHANGED <<role, closed, session, idle, power, since, lost, uplink>>
    BY <1>14 DEF sysvars, vars, devices
  <2> QED
    BY <1>2, <2>1
<1>15. Goal
  BY <1>3, <1>4, <1>5, <1>6, <1>7, <1>8, <1>9, <1>10, <1>11, <1>12, <1>13, <1>14
     DEF SysNext
<1> QED
  BY <1>15 DEF Goal

LEMMA SysInvInit == SysInit => SysInv
<1> SUFFICES ASSUME SysInit PROVE SysInv
  OBVIOUS
<1>1. <<>> \in Seq(Frame) /\ DOMAIN <<>> = {}
  BY NoneSpaced
<1>2. SysTypes
  BY <1>1, TypeInit DEF SysInit, SysTypes
<1>3. 0 <= Gap /\ 0 <= MaxLost
  BY GapNat, BoundsNat
<1>4. ASSUME NEW fd \in Fds
      PROVE  /\ power[fd] = "off" /\ since[fd] = 0 /\ lost[fd] = 0 /\ uplink[fd] = <<>>
  BY Zenon DEF SysInit
<1> QED
  BY <1>1, <1>2, <1>3, <1>4, Zenon DEF SysInv, Punctual

\* The action property LiveKept, of one step.
KeptStep == \A fd \in Fds : Alive(fd) /\ InSession(fd) => InSession(fd)'

LEMMA SysInvKept == SysInv /\ [SysNext]_sysvars => KeptStep
<1> SUFFICES ASSUME SysInv, [SysNext]_sysvars, NEW g \in Fds, Alive(g), InSession(g)
             PROVE  InSession(g)'
  BY DEF KeptStep
<1>0. TypeOK /\ SysTypes /\ role[g] = "device" /\ session[g] /\ ~closed[g] /\ power[g] = "on"
  BY DEF SysInv, SysTypes, Alive, InSession, Device
<1>1. ASSUME role'[g] = role[g], session'[g] = session[g] PROVE InSession(g)'
  BY <1>0, <1>1 DEF InSession, Device
<1>2. ASSUME NEW fd \in Fds, AcceptDevice(fd) \/ AcceptSubscriber(fd) PROVE InSession(g)'
  <2>1. g # fd
    BY <1>0, <1>2 DEF AcceptDevice, AcceptSubscriber
  <2>2. role'[g] = role[g] /\ session'[g] = session[g]
    BY <1>0, <1>2, <2>1, Zenon DEF AcceptDevice, AcceptSubscriber, TypeOK
  <2> QED
    BY <1>1, <2>2
<1>3. ASSUME NEW fd \in Fds, Hello(fd, DefaultRate) PROVE InSession(g)'
  <2>1. role'[g] = role[g] /\ session'[g]
    BY <1>0, <1>3 DEF Hello, TypeOK
  <2> QED
    BY <1>0, <2>1 DEF InSession, Device
<1>4. ASSUME UNCHANGED <<role, session>> PROVE InSession(g)'
  BY <1>1, <1>4
<1>5. ASSUME Sweep PROVE InSession(g)'
  <2>1. idle[g] <= kDeviceTimeout
    <3>1. /\ since[g] <= Gap /\ lost[g] <= MaxLost
          /\ \A i \in DOMAIN uplink[g] : uplink[g][i].age <= Latency
          /\ Heard(uplink[g], since[g], lost[g], idle[g])
      BY <1>0, Zenon DEF SysInv, Punctual
    <3>2. /\ uplink[g] \in Seq(Frame) /\ since[g] \in Nat /\ lost[g] \in Nat
          /\ idle[g] \in Nat
      BY <1>0 DEF SysTypes, TypeOK
    <3> QED
      BY <3>1, <3>2, WithinTimeout
  <2>2. idle[g] \in Nat /\ kDeviceTimeout \in Nat
    BY <1>0, ServerConstants DEF TypeOK
  <2>3. g \notin Evicted /\ g \notin Dropped
    BY <1>0, <2>1, <2>2 DEF Evicted, Dropped, TimedOut, Subscriber
  <2>4. role'[g] = role[g] /\ session'[g]
    BY <1>0, <1>5, <2>3, Zenon DEF Sweep, Housekeeping, Destroy
  <2> QED
    BY <1>0, <2>4 DEF InSession, Device
<1>6. ASSUME NEW fd \in Fds, Deliver(fd) PROVE InSession(g)'
  <2>1. Hello(fd, DefaultRate) \/ Heartbeat(fd) \/ Sample(fd)
    BY <1>6, Zenon DEF Deliver
  <2> QED
    BY <1>3, <1>4, <2>1, Zenon DEF Heartbeat, Sample
<1>7. ASSUME Serve PROVE InSession(g)'
  BY <1>2, <1>4, <1>7, Zenon DEF Serve, Drain, Ack
<1>8. ASSUME NEW fd \in Fds,
             Beat(fd) \/ Take(fd) \/ Apply(fd) \/ Die(fd) \/ Lose(fd) \/ Cut(fd)
      PROVE  InSession(g)'
  BY <1>4, <1>8, Zenon DEF Beat, Take, Apply, Die, Lose, Cut, PeerCloses, vars
<1>9. CASE Pass \/ UNCHANGED sysvars
  BY <1>4, <1>9, Zenon DEF Pass, Tick, sysvars, vars
<1> QED
  BY <1>2, <1>5, <1>6, <1>7, <1>8, <1>9, Zenon DEF SysNext, Boot

\* main.cpp at kDeviceTimeout, for every interval and timeout: as long as no
\* more than MaxLost heartbeats are lost in a row and the timeout covers the
\* interval that many times and once more, no device that runs is evicted.
THEOREM KeptAlive == SysSpec => LiveKept
<1>1. SysInv /\ [SysNext]_sysvars => [KeptStep]_sysvars
  BY SysInvKept
<1> QED
  BY <1>1, SysInvInit, SysInvStep, PTL DEF SysSpec, LiveKept, KeptStep
=============================================================================
