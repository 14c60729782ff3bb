---------------------------- MODULE CodecProofs ----------------------------
(***************************************************************************)
(* Proofs about the codec, for every byte width, every polynomial that     *)
(* ends in 1 and every data.                                               *)
(***************************************************************************)
EXTENDS Coding, TLAPS

---------------------------------------------------------------------------
\* Sequences, for the leaves that name the fact they need.

\* The elements of a sequence.
LEMMA Elements ==
  ASSUME NEW S, NEW s \in Seq(S)
  PROVE  Len(s) \in Nat /\ \A i \in 1..Len(s) : s[i] \in S
OBVIOUS

\* Sequences with the same elements are the same.
LEMMA SameElements ==
  ASSUME NEW S, NEW s \in Seq(S), NEW t \in Seq(S), Len(s) = Len(t),
         \A i \in 1..Len(s) : s[i] = t[i]
  PROVE  s = t
OBVIOUS

\* One element replaced.
LEMMA OneReplaced ==
  ASSUME NEW S, NEW s \in Seq(S), NEW i \in 1..Len(s), NEW x \in S
  PROVE  LET t == [s EXCEPT ![i] = x]
         IN  t \in Seq(S) /\ Len(t) = Len(s) /\ \A j \in 1..Len(s) : t[j] = IF j = i THEN x ELSE s[j]
OBVIOUS

\* One element more.
LEMMA OneAdded ==
  ASSUME NEW S, NEW s \in Seq(S), NEW x \in S
  PROVE  LET t == Append(s, x)
         IN  /\ t \in Seq(S) /\ Len(t) = Len(s) + 1 /\ t # <<>>
             /\ t[Len(s) + 1] = x /\ \A i \in 1..Len(s) : t[i] = s[i]
OBVIOUS

\* One sequence after another.
LEMMA Joined ==
  ASSUME NEW S, NEW s \in Seq(S), NEW t \in Seq(S)
  PROVE  /\ s \o t \in Seq(S) /\ Len(s \o t) = Len(s) + Len(t)
         /\ \A i \in 1..(Len(s) + Len(t)) : (s \o t)[i] = IF i <= Len(s) THEN s[i] ELSE t[i - Len(s)]
OBVIOUS

\* Part of a sequence.
LEMMA PartOf ==
  ASSUME NEW S, NEW s, NEW m \in Int, NEW n \in Int, \A i \in m..n : s[i] \in S
  PROVE  LET t == SubSeq(s, m, n)
         IN  /\ t \in Seq(S) /\ Len(t) = IF m <= n THEN n - m + 1 ELSE 0
             /\ \A i \in 1..(n - m + 1) : t[i] = s[m + i - 1]
OBVIOUS

\* Induction over the naturals, as a fact about sets.  It is a hypothesis of
\* what follows; InductionHolds, below, is its proof.
Inductive == \A T : 0 \in T /\ (\A n \in Nat : n \in T => n + 1 \in T) => Nat \subseteq T

\* Induction over the naturals, for a set.
LEMMA NatSet ==
  ASSUME Inductive, NEW T, 0 \in T, \A n \in Nat : n \in T => n + 1 \in T
  PROVE  Nat \subseteq T
BY Zenon DEF Inductive

\* Half a number is a number, and a smaller one.
LEMMA Halves ==
  ASSUME NEW a \in Nat
  PROVE  /\ a \div 2 \in Nat /\ a \div 2 <= a /\ (a # 0 => a \div 2 < a) /\ a % 2 \in {0, 1}
         /\ a = 2 * (a \div 2) + (a % 2)
OBVIOUS

\* Induction over the halves of a number, for a set.
LEMMA HalfSet ==
  ASSUME Inductive, NEW T, 0 \in T, \A a \in Nat \ {0} : a \div 2 \in T => a \in T
  PROVE  Nat \subseteq T
<1> DEFINE U == {n \in Nat : \A a \in 0..n : a \in T}
<1>1. 0 \in U
  OBVIOUS
<1>2. ASSUME NEW n \in Nat, n \in U PROVE n + 1 \in U
  <2>1. PICK a : a = n + 1
    OBVIOUS
  <2>2. a \in Nat \ {0} /\ a \div 2 \in Nat /\ a \div 2 < a
    BY <2>1, Halves
  <2>3. a \div 2 \in 0..n
    BY <2>1, <2>2
  <2>4. a \in T
    BY <1>2, <2>2, <2>3
  <2> QED
    BY <1>2, <2>1, <2>4
<1>3. Nat \subseteq U
  <2> HIDE DEF U
  <2> QED
    BY <1>1, <1>2, NatSet
<1> QED
  BY <1>3

\* Two runs that start alike and stay alike end alike.
LEMMA SameRun ==
  ASSUME Inductive, NEW F, NEW G, NEW n \in Nat, F[0] = G[0],
         \A i \in 0..(n - 1) : F[i] = G[i] => F[i + 1] = G[i + 1]
  PROVE  \A i \in 0..n : F[i] = G[i]
<1> DEFINE T == {i \in Nat : i <= n => F[i] = G[i]}
<1>1. 0 \in T
  OBVIOUS
<1>2. ASSUME NEW i \in Nat, i \in T PROVE i + 1 \in T
  BY <1>2
<1>3. Nat \subseteq T
  BY <1>1, <1>2, NatSet, Zenon
<1> QED
  BY <1>3

\* The first n + 1 of a sequence.
LEMMA PrefixGrows ==
  ASSUME NEW S, NEW s \in Seq(S), NEW n \in Nat, n < Len(s)
  PROVE  /\ SubSeq(s, 1, n) \in Seq(S) /\ s[n + 1] \in S
         /\ SubSeq(s, 1, n + 1) = Append(SubSeq(s, 1, n), s[n + 1])
<1>1. PICK p, q : p = SubSeq(s, 1, n) /\ q = SubSeq(s, 1, n + 1)
  BY Zenon
<1>2. p \in Seq(S) /\ Len(p) = n /\ \A i \in 1..n : p[i] = s[i]
  BY <1>1
<1>3. q \in Seq(S) /\ Len(q) = n + 1 /\ \A i \in 1..(n + 1) : q[i] = s[i]
  BY <1>1
<1>4. s[n + 1] \in S
  OBVIOUS
<1>5. PICK a : a = Append(p, s[n + 1])
  BY Zenon
<1>6. a \in Seq(S) /\ Len(a) = n + 1 /\ a[n + 1] = s[n + 1] /\ \A i \in 1..n : a[i] = p[i]
  BY <1>2, <1>4, <1>5
<1>7. ASSUME NEW i \in 1..(n + 1) PROVE q[i] = a[i]
  <2>1. CASE i = n + 1
    BY <1>3, <1>6, <2>1
  <2>2. CASE i \in 1..n
    BY <1>2, <1>3, <1>6, <2>2, Zenon
  <2> QED
    BY <2>1, <2>2
<1>8. q = a
  BY <1>3, <1>6, <1>7, SameElements
<1> QED
  BY <1>1, <1>2, <1>4, <1>5, <1>8

\* A sequence that is not empty has a last element.
LEMMA LastSplit ==
  ASSUME NEW S, NEW s \in Seq(S), NEW n \in Nat, Len(s) = n + 1
  PROVE  \E p \in Seq(S), e \in S : s = Append(p, e) /\ Len(p) = n
<1>1. SubSeq(s, 1, n + 1) = s
  OBVIOUS
<1>2. /\ SubSeq(s, 1, n) \in Seq(S) /\ s[n + 1] \in S
      /\ SubSeq(s, 1, n + 1) = Append(SubSeq(s, 1, n), s[n + 1])
  BY PrefixGrows
<1>3. Len(SubSeq(s, 1, n)) = n
  OBVIOUS
<1> QED
  BY <1>1, <1>2, <1>3, Zenon

\* Induction over sequences, for a set.
LEMMA SeqSet ==
  ASSUME Inductive, NEW S, NEW T, <<>> \in T,
         \A s \in Seq(S), e \in S : s \in T => Append(s, e) \in T
  PROVE  Seq(S) \subseteq T
<1> DEFINE U == {n \in Nat : \A s \in Seq(S) : Len(s) = n => s \in T}
<1>1. 0 \in U
  <2> SUFFICES ASSUME NEW s \in Seq(S), Len(s) = 0 PROVE s \in T
    OBVIOUS
  <2> QED
    OBVIOUS
<1>2. ASSUME NEW n \in Nat, n \in U PROVE n + 1 \in U
  <2> SUFFICES ASSUME NEW s \in Seq(S), Len(s) = n + 1 PROVE s \in T
    OBVIOUS
  <2>1. PICK p \in Seq(S), e \in S : s = Append(p, e)
    BY LastSplit
  <2>2. Len(p) = n
    BY <2>1
  <2> QED
    BY <1>2, <2>1, <2>2
<1>3. Nat \subseteq U
  BY <1>1, <1>2, NatSet, Zenon
<1> QED
  BY <1>3
\* g is a run of Encode over the first n of s.
EncodeRun(g, s, cap, n) ==
  g = [i \in 0..n |-> IF i = 0 THEN EncodeStart ELSE EncodeByte(g[i - 1], s[i], cap)]

\* The run exists.
LEMMA EncodeRuns ==
  ASSUME Inductive, NEW s, NEW cap
  PROVE  \A n \in Nat : \E g : EncodeRun(g, s, cap, n)
<1> DEFINE T == {n \in Nat : \E g : EncodeRun(g, s, cap, n)}
<1>1. 0 \in T
  <2>1. EncodeRun([i \in 0..0 |-> EncodeStart], s, cap, 0)
    BY DEF EncodeRun
  <2> QED
    BY <2>1
<1>2. ASSUME NEW n \in Nat, n \in T PROVE n + 1 \in T
  <2>1. PICK g : EncodeRun(g, s, cap, n)
    BY <1>2
  <2> DEFINE h == [i \in 0..(n + 1) |-> IF i = n + 1 THEN EncodeByte(g[n], s[n + 1], cap) ELSE g[i]]
  <2>2. ASSUME NEW i \in 0..(n + 1)
        PROVE  h[i] = IF i = 0 THEN EncodeStart ELSE EncodeByte(h[i - 1], s[i], cap)
    <3>1. CASE i = n + 1
      BY <3>1
    <3>2. CASE i \in 0..n
      BY <2>1, <3>2 DEF EncodeRun
    <3> QED
      BY <3>1, <3>2
  <2>3. EncodeRun(h, s, cap, n + 1)
    BY <2>2 DEF EncodeRun
  <2> QED
    BY <2>3
<1>3. Nat \subseteq T
  BY <1>1, <1>2, NatSet, Zenon
<1> QED
  BY <1>3

\* One more byte to encode is one more round.
LEMMA EncodeSteps ==
  ASSUME Inductive, NEW S, NEW s \in Seq(S), NEW e \in S, NEW cap
  PROVE  /\ Encode(<<>>, cap) = EncodeStart
         /\ Encode(Append(s, e), cap) = EncodeByte(Encode(s, cap), e, cap)
<1> DEFINE Run(q) == CHOOSE g : EncodeRun(g, q, cap, Len(q))
<1>1. ASSUME NEW q \in Seq(S)
      PROVE  EncodeRun(Run(q), q, cap, Len(q)) /\ Encode(q, cap) = Run(q)[Len(q)]
  <2>1. \E g : EncodeRun(g, q, cap, Len(q))
    <3>1. Len(q) \in Nat
      OBVIOUS
    <3> QED
      BY <3>1, EncodeRuns, Zenon
  <2>2. EncodeRun(Run(q), q, cap, Len(q))
    BY <2>1
  <2>3. Encode(q, cap) = Run(q)[Len(q)]
    BY DEF Encode, EncodeRun
  <2> QED
    BY <2>2, <2>3
<1> HIDE DEF Run
<1>2. PICK a : a = Append(s, e)
  BY Zenon
<1>3. a \in Seq(S) /\ Len(s) \in Nat /\ Len(a) = Len(s) + 1 /\ a[Len(s) + 1] = e /\ \A i \in 1..Len(s) : a[i] = s[i]
  BY <1>2
<1>4. \A i \in 0..Len(s) : Run(a)[i] = Run(s)[i]
  <2>1. Run(a)[0] = Run(s)[0]
    BY <1>1, <1>3 DEF EncodeRun
  <2>2. ASSUME NEW i \in 0..(Len(s) - 1), Run(a)[i] = Run(s)[i]
        PROVE  Run(a)[i + 1] = Run(s)[i + 1]
    <3>1. i + 1 \in 0..Len(s) /\ i + 1 \in 0..Len(a) /\ i + 1 \in 1..Len(s) /\ i + 1 # 0 /\ (i + 1) - 1 = i
      BY <1>3
    <3>2. EncodeRun(Run(a), a, cap, Len(a)) /\ EncodeRun(Run(s), s, cap, Len(s))
      BY <1>1, <1>3
    <3>3. Run(a)[i + 1] = EncodeByte(Run(a)[i], a[i + 1], cap)
      BY <3>1, <3>2 DEF EncodeRun
    <3>4. Run(s)[i + 1] = EncodeByte(Run(s)[i], s[i + 1], cap)
      BY <3>1, <3>2 DEF EncodeRun
    <3> QED
      BY <1>3, <2>2, <3>1, <3>3, <3>4
  <2> QED
    BY <1>3, <2>1, <2>2, SameRun, Zenon
<1>5. Run(a)[Len(s) + 1] = EncodeByte(Run(a)[Len(s)], e, cap)
  BY <1>1, <1>3 DEF EncodeRun
<1>6. Encode(<<>>, cap) = EncodeStart
  <2>1. PICK q : q = <<>>
    OBVIOUS
  <2>2. q \in Seq(S) /\ Len(q) = 0
    BY <2>1
  <2>3. Encode(q, cap) = EncodeStart
    BY <1>1, <2>2 DEF EncodeRun
  <2> QED
    BY <2>1, <2>3, Zenon
<1>7. Encode(a, cap) = EncodeByte(Encode(s, cap), e, cap)
  <2>1. Run(a)[Len(s)] = Run(s)[Len(s)]
    BY <1>3, <1>4
  <2>2. Encode(a, cap) = Run(a)[Len(s) + 1] /\ Encode(s, cap) = Run(s)[Len(s)]
    BY <1>1, <1>3
  <2> QED
    BY <1>5, <2>1, <2>2
<1> QED
  BY <1>2, <1>6, <1>7, Zenon

\* g is a run of Decode over the first n of s.
DecodeRun(g, s, cap, n) ==
  g = [i \in 0..n |-> IF i = 0 THEN DecodeStart ELSE DecodeByte(g[i - 1], s[i], cap)]

\* The run exists.
LEMMA DecodeRuns ==
  ASSUME Inductive, NEW s, NEW cap
  PROVE  \A n \in Nat : \E g : DecodeRun(g, s, cap, n)
<1> DEFINE T == {n \in Nat : \E g : DecodeRun(g, s, cap, n)}
<1>1. 0 \in T
  <2>1. DecodeRun([i \in 0..0 |-> DecodeStart], s, cap, 0)
    BY DEF DecodeRun
  <2> QED
    BY <2>1
<1>2. ASSUME NEW n \in Nat, n \in T PROVE n + 1 \in T
  <2>1. PICK g : DecodeRun(g, s, cap, n)
    BY <1>2
  <2> DEFINE h == [i \in 0..(n + 1) |-> IF i = n + 1 THEN DecodeByte(g[n], s[n + 1], cap) ELSE g[i]]
  <2>2. ASSUME NEW i \in 0..(n + 1)
        PROVE  h[i] = IF i = 0 THEN DecodeStart ELSE DecodeByte(h[i - 1], s[i], cap)
    <3>1. CASE i = n + 1
      BY <3>1
    <3>2. CASE i \in 0..n
      BY <2>1, <3>2 DEF DecodeRun
    <3> QED
      BY <3>1, <3>2
  <2>3. DecodeRun(h, s, cap, n + 1)
    BY <2>2 DEF DecodeRun
  <2> QED
    BY <2>3
<1>3. Nat \subseteq T
  BY <1>1, <1>2, NatSet, Zenon
<1> QED
  BY <1>3

\* One more byte to decode is one more round.
LEMMA DecodeSteps ==
  ASSUME Inductive, NEW S, NEW s \in Seq(S), NEW e \in S, NEW cap
  PROVE  /\ Decode(<<>>, cap) = DecodeStart
         /\ Decode(Append(s, e), cap) = DecodeByte(Decode(s, cap), e, cap)
<1> DEFINE Run(q) == CHOOSE g : DecodeRun(g, q, cap, Len(q))
<1>1. ASSUME NEW q \in Seq(S)
      PROVE  DecodeRun(Run(q), q, cap, Len(q)) /\ Decode(q, cap) = Run(q)[Len(q)]
  <2>1. \E g : DecodeRun(g, q, cap, Len(q))
    <3>1. Len(q) \in Nat
      OBVIOUS
    <3> QED
      BY <3>1, DecodeRuns, Zenon
  <2>2. DecodeRun(Run(q), q, cap, Len(q))
    BY <2>1
  <2>3. Decode(q, cap) = Run(q)[Len(q)]
    BY DEF Decode, DecodeRun
  <2> QED
    BY <2>2, <2>3
<1> HIDE DEF Run
<1>2. PICK a : a = Append(s, e)
  BY Zenon
<1>3. a \in Seq(S) /\ Len(s) \in Nat /\ Len(a) = Len(s) + 1 /\ a[Len(s) + 1] = e /\ \A i \in 1..Len(s) : a[i] = s[i]
  BY <1>2
<1>4. \A i \in 0..Len(s) : Run(a)[i] = Run(s)[i]
  <2>1. Run(a)[0] = Run(s)[0]
    BY <1>1, <1>3 DEF DecodeRun
  <2>2. ASSUME NEW i \in 0..(Len(s) - 1), Run(a)[i] = Run(s)[i]
        PROVE  Run(a)[i + 1] = Run(s)[i + 1]
    <3>1. i + 1 \in 0..Len(s) /\ i + 1 \in 0..Len(a) /\ i + 1 \in 1..Len(s) /\ i + 1 # 0 /\ (i + 1) - 1 = i
      BY <1>3
    <3>2. DecodeRun(Run(a), a, cap, Len(a)) /\ DecodeRun(Run(s), s, cap, Len(s))
      BY <1>1, <1>3
    <3>3. Run(a)[i + 1] = DecodeByte(Run(a)[i], a[i + 1], cap)
      BY <3>1, <3>2 DEF DecodeRun
    <3>4. Run(s)[i + 1] = DecodeByte(Run(s)[i], s[i + 1], cap)
      BY <3>1, <3>2 DEF DecodeRun
    <3> QED
      BY <1>3, <2>2, <3>1, <3>3, <3>4
  <2> QED
    BY <1>3, <2>1, <2>2, SameRun, Zenon
<1>5. Run(a)[Len(s) + 1] = DecodeByte(Run(a)[Len(s)], e, cap)
  BY <1>1, <1>3 DEF DecodeRun
<1>6. Decode(<<>>, cap) = DecodeStart
  <2>1. PICK q : q = <<>>
    OBVIOUS
  <2>2. q \in Seq(S) /\ Len(q) = 0
    BY <2>1
  <2>3. Decode(q, cap) = DecodeStart
    BY <1>1, <2>2 DEF DecodeRun
  <2> QED
    BY <2>1, <2>3, Zenon
<1>7. Decode(a, cap) = DecodeByte(Decode(s, cap), e, cap)
  <2>1. Run(a)[Len(s)] = Run(s)[Len(s)]
    BY <1>3, <1>4
  <2>2. Decode(a, cap) = Run(a)[Len(s) + 1] /\ Decode(s, cap) = Run(s)[Len(s)]
    BY <1>1, <1>3
  <2> QED
    BY <1>5, <2>1, <2>2
<1> QED
  BY <1>2, <1>6, <1>7, Zenon

\* g is a run of crc16 over the first n of s.
crc16Run(g, s, n) ==
  g = [i \in 0..n |-> IF i = 0 THEN kCrc16Init ELSE crc16_update(g[i - 1], s[i])]

\* The run exists.
LEMMA crc16Runs ==
  ASSUME Inductive, NEW s
  PROVE  \A n \in Nat : \E g : crc16Run(g, s, n)
<1> DEFINE T == {n \in Nat : \E g : crc16Run(g, s, n)}
<1>1. 0 \in T
  <2>1. crc16Run([i \in 0..0 |-> kCrc16Init], s, 0)
    BY DEF crc16Run
  <2> QED
    BY <2>1
<1>2. ASSUME NEW n \in Nat, n \in T PROVE n + 1 \in T
  <2>1. PICK g : crc16Run(g, s, n)
    BY <1>2
  <2> DEFINE h == [i \in 0..(n + 1) |-> IF i = n + 1 THEN crc16_update(g[n], s[n + 1]) ELSE g[i]]
  <2>2. ASSUME NEW i \in 0..(n + 1)
        PROVE  h[i] = IF i = 0 THEN kCrc16Init ELSE crc16_update(h[i - 1], s[i])
    <3>1. CASE i = n + 1
      BY <3>1
    <3>2. CASE i \in 0..n
      BY <2>1, <3>2 DEF crc16Run
    <3> QED
      BY <3>1, <3>2
  <2>3. crc16Run(h, s, n + 1)
    BY <2>2 DEF crc16Run
  <2> QED
    BY <2>3
<1>3. Nat \subseteq T
  BY <1>1, <1>2, NatSet, Zenon
<1> QED
  BY <1>3

\* One more byte of data is one more crc16_update().
LEMMA crc16Steps ==
  ASSUME Inductive, NEW S, NEW s \in Seq(S), NEW e \in S
  PROVE  /\ crc16(<<>>) = kCrc16Init
         /\ crc16(Append(s, e)) = crc16_update(crc16(s), e)
<1> DEFINE Run(q) == CHOOSE g : crc16Run(g, q, Len(q))
<1>1. ASSUME NEW q \in Seq(S)
      PROVE  crc16Run(Run(q), q, Len(q)) /\ crc16(q) = Run(q)[Len(q)]
  <2>1. \E g : crc16Run(g, q, Len(q))
    <3>1. Len(q) \in Nat
      OBVIOUS
    <3> QED
      BY <3>1, crc16Runs, Zenon
  <2>2. crc16Run(Run(q), q, Len(q))
    BY <2>1
  <2>3. crc16(q) = Run(q)[Len(q)]
    BY DEF crc16, crc16Run
  <2> QED
    BY <2>2, <2>3
<1> HIDE DEF Run
<1>2. PICK a : a = Append(s, e)
  BY Zenon
<1>3. a \in Seq(S) /\ Len(s) \in Nat /\ Len(a) = Len(s) + 1 /\ a[Len(s) + 1] = e /\ \A i \in 1..Len(s) : a[i] = s[i]
  BY <1>2
<1>4. \A i \in 0..Len(s) : Run(a)[i] = Run(s)[i]
  <2>1. Run(a)[0] = Run(s)[0]
    BY <1>1, <1>3 DEF crc16Run
  <2>2. ASSUME NEW i \in 0..(Len(s) - 1), Run(a)[i] = Run(s)[i]
        PROVE  Run(a)[i + 1] = Run(s)[i + 1]
    <3>1. i + 1 \in 0..Len(s) /\ i + 1 \in 0..Len(a) /\ i + 1 \in 1..Len(s) /\ i + 1 # 0 /\ (i + 1) - 1 = i
      BY <1>3
    <3>2. crc16Run(Run(a), a, Len(a)) /\ crc16Run(Run(s), s, Len(s))
      BY <1>1, <1>3
    <3>3. Run(a)[i + 1] = crc16_update(Run(a)[i], a[i + 1])
      BY <3>1, <3>2 DEF crc16Run
    <3>4. Run(s)[i + 1] = crc16_update(Run(s)[i], s[i + 1])
      BY <3>1, <3>2 DEF crc16Run
    <3> QED
      BY <1>3, <2>2, <3>1, <3>3, <3>4
  <2> QED
    BY <1>3, <2>1, <2>2, SameRun, Zenon
<1>5. Run(a)[Len(s) + 1] = crc16_update(Run(a)[Len(s)], e)
  BY <1>1, <1>3 DEF crc16Run
<1>6. crc16(<<>>) = kCrc16Init
  <2>1. PICK q : q = <<>>
    OBVIOUS
  <2>2. q \in Seq(S) /\ Len(q) = 0
    BY <2>1
  <2>3. crc16(q) = kCrc16Init
    BY <1>1, <2>2 DEF crc16Run
  <2> QED
    BY <2>1, <2>3, Zenon
<1>7. crc16(a) = crc16_update(crc16(s), e)
  <2>1. Run(a)[Len(s)] = Run(s)[Len(s)]
    BY <1>3, <1>4
  <2>2. crc16(a) = Run(a)[Len(s) + 1] /\ crc16(s) = Run(s)[Len(s)]
    BY <1>1, <1>3
  <2> QED
    BY <1>5, <2>1, <2>2
<1> QED
  BY <1>2, <1>6, <1>7, Zenon

\* The run that defines TwoTo exists.
TwoToRun(g, n) == g = [i \in 0..n |-> IF i = 0 THEN 1 ELSE 2 * g[i - 1]]

\* Such a function exists up to every n.
LEMMA TwoToRuns ==
  ASSUME Inductive
  PROVE  \A n \in Nat : \E g : TwoToRun(g, n)
<1> DEFINE T == {n \in Nat : \E g : TwoToRun(g, n)}
<1>1. 0 \in T
  <2>1. TwoToRun([i \in 0..0 |-> 1], 0)
    BY DEF TwoToRun
  <2> QED
    BY <2>1
<1>2. ASSUME NEW n \in Nat, n \in T PROVE n + 1 \in T
  <2>1. PICK g : TwoToRun(g, n)
    BY <1>2
  <2> DEFINE h == [i \in 0..(n + 1) |-> IF i = n + 1 THEN 2 * g[n] ELSE g[i]]
  <2>2. TwoToRun(h, n + 1)
    BY <2>1 DEF TwoToRun
  <2> QED
    BY <2>2
<1>3. Nat \subseteq T
  BY <1>1, <1>2, NatSet, Zenon
<1> QED
  BY <1>3

\* What a power of two is.
LEMMA TwoToSteps ==
  ASSUME Inductive
  PROVE  /\ TwoTo[0] = 1
         /\ \A n \in 0..(ByteBits - 1) : TwoTo[n + 1] = 2 * TwoTo[n]
         /\ \A n \in 0..ByteBits : TwoTo[n] \in Nat \ {0}
<1>1. TwoToRun(TwoTo, ByteBits)
  <2>1. \E g : TwoToRun(g, ByteBits)
    BY TwoToRuns, CodecConstants
  <2> QED
    BY <2>1, Zenon DEF TwoTo, TwoToRun
<1>2. TwoTo[0] = 1 /\ \A n \in 0..(ByteBits - 1) : TwoTo[n + 1] = 2 * TwoTo[n]
  <2>1. PICK g : g = TwoTo
    OBVIOUS
  <2>2. g[0] = 1 /\ \A n \in 0..(ByteBits - 1) : g[n + 1] = 2 * g[n]
    <3>1. TwoToRun(g, ByteBits) /\ ByteBits \in Nat
      BY <1>1, <2>1, CodecConstants
    <3>2. g[0] = 1
      BY <3>1 DEF TwoToRun
    <3>3. ASSUME NEW n \in 0..(ByteBits - 1) PROVE g[n + 1] = 2 * g[n]
      <4>1. n + 1 \in 0..ByteBits /\ n + 1 # 0 /\ (n + 1) - 1 = n
        BY <3>1
      <4> QED
        BY <3>1, <4>1 DEF TwoToRun
    <3> QED
      BY <3>2, <3>3
  <2> QED
    BY <2>1, <2>2
<1> DEFINE T == {n \in Nat : n <= ByteBits => TwoTo[n] \in Nat \ {0}}
<1>3. 0 \in T
  BY <1>2
<1>4. ASSUME NEW n \in Nat, n \in T PROVE n + 1 \in T
  BY <1>2, <1>4, CodecConstants
<1>5. Nat \subseteq T
  BY <1>3, <1>4, NatSet, Zenon
<1> QED
  BY <1>2, <1>5, CodecConstants

\* A byte has at least four values, an even number of them.
LEMMA RadixType ==
  ASSUME Inductive
  PROVE  /\ Radix \in Nat /\ Radix >= 4 /\ Full \in Nat /\ Full >= 3 /\ Radix = Full + 1
         /\ \E h \in Nat : Radix = 2 * h
<1>1. ByteBits \in Nat /\ ByteBits - 1 \in 0..(ByteBits - 1) /\ ByteBits - 2 \in 0..(ByteBits - 1)
      /\ (ByteBits - 1) + 1 = ByteBits /\ (ByteBits - 2) + 1 = ByteBits - 1
  BY CodecConstants
<1>2. TwoTo[ByteBits] = 2 * TwoTo[ByteBits - 1] /\ TwoTo[ByteBits - 1] = 2 * TwoTo[ByteBits - 2]
      /\ TwoTo[ByteBits - 1] \in Nat /\ TwoTo[ByteBits - 2] \in Nat \ {0}
  BY <1>1, TwoToSteps
<1> QED
  BY <1>2 DEF Radix, Full

\* The quotient and the remainder of a division.
LEMMA DivMod == ASSUME NEW n \in Nat, NEW d \in Nat \ {0}
  PROVE /\ n \div d \in Nat /\ n % d \in 0..(d-1) /\ n = d * (n \div d) + (n % d)
OBVIOUS

\* Multiplication by a positive number is strictly monotonic.
LEMMA Mono == ASSUME NEW d \in Nat \ {0}, NEW a \in Nat, NEW b \in Nat, a < b
  PROVE d * a + d <= d * b
<1>1. b - a - 1 \in Nat
  OBVIOUS
<1>2. d * b = d * a + d + d * (b - a - 1)
  BY <1>1
<1> QED BY <1>1, <1>2

\* A quotient is at least every k whose multiple fits.
LEMMA DivBound == ASSUME NEW n \in Nat, NEW d \in Nat \ {0}, NEW k \in Nat, k * d <= n
  PROVE k <= n \div d
<1>1. PICK q \in Nat, r \in 0..(d - 1) : q = n \div d /\ n = d * q + r
  BY DivMod
<1>2. SUFFICES ASSUME q < k PROVE FALSE
  BY <1>1
<1>3. d * q + d <= d * k
  BY <1>2, Mono
<1>4. d * k = k * d
  OBVIOUS
<1> QED BY <1>1, <1>3, <1>4

\* Division is monotonic.
LEMMA DivMono == ASSUME NEW n \in Nat, NEW m \in Nat, n <= m, NEW d \in Nat \ {0}
  PROVE n \div d <= m \div d
<1>1. PICK q \in Nat, r \in 0..(d - 1) : q = n \div d /\ n = d * q + r
  BY DivMod
<1>2. q * d <= m
  BY <1>1
<1> QED BY <1>1, <1>2, DivBound

\* The fields of an encoder that has not failed.
LEMMA EncoderFields ==
  ASSUME NEW dst, NEW i, NEW code
  PROVE  /\ Encoder(dst, i, code).status = "kOk" /\ Encoder(dst, i, code).dst = dst
         /\ Encoder(dst, i, code).at = i /\ Encoder(dst, i, code).code = code
  BY DEF Encoder

\* What NextBlock() does.
LEMMA Block ==
  ASSUME NEW dst, NEW i, NEW code, NEW cap
  PROVE  NextBlock(Encoder(dst, i, code), cap) =
           IF Len(dst) >= cap THEN Fails("kOutputOverflow")
           ELSE Encoder(Append([dst EXCEPT ![i] = code], 0), Len(dst) + 1, 1)
<1>1. PICK s : s = Encoder(dst, i, code)
  OBVIOUS
<1>2. s.dst = dst /\ s.at = i /\ s.code = code
  BY <1>1, EncoderFields
<1>3. NextBlock(s, cap) =
           IF Len(dst) >= cap THEN Fails("kOutputOverflow")
           ELSE Encoder(Append([dst EXCEPT ![i] = code], 0), Len(dst) + 1, 1)
  BY <1>2, Zenon DEF NextBlock
<1> QED
  BY <1>1, <1>3, Zenon

\* What EncodeByte() does.
LEMMA EncodeByteDef ==
  ASSUME NEW dst, NEW i, NEW code, NEW byte, NEW cap
  PROVE  EncodeByte(Encoder(dst, i, code), byte, cap) =
           IF byte = 0 THEN NextBlock(Encoder(dst, i, code), cap)
           ELSE IF Len(dst) >= cap THEN Fails("kOutputOverflow")
           ELSE IF code + 1 = Full THEN NextBlock(Encoder(Append(dst, byte), i, code + 1), cap)
           ELSE Encoder(Append(dst, byte), i, code + 1)
<1>1. PICK s : s = Encoder(dst, i, code)
  OBVIOUS
<1>2. s.status = "kOk" /\ s.dst = dst /\ s.at = i /\ s.code = code
  BY <1>1, EncoderFields
<1>3. PICK p : p = Encoder(Append(dst, byte), i, code + 1)
  OBVIOUS
<1>4. p.code = code + 1
  BY <1>3, EncoderFields
<1>5. EncodeByte(s, byte, cap) =
           IF byte = 0 THEN NextBlock(s, cap)
           ELSE IF Len(dst) >= cap THEN Fails("kOutputOverflow")
           ELSE IF code + 1 = Full THEN NextBlock(p, cap)
           ELSE p
  BY <1>2, <1>3, <1>4 DEF EncodeByte
<1> QED
  BY <1>1, <1>3, <1>5, Zenon
\* Patching a byte and appending another commute.
LEMMA PatchAppend == ASSUME NEW S, NEW dst \in Seq(S), NEW i \in 1..Len(dst), NEW byte \in S, NEW c \in S
  PROVE Append([dst EXCEPT ![i] = c], byte) = [Append(dst, byte) EXCEPT ![i] = c]
<1>1. PICK a : a = Append(dst, byte)
  BY Zenon
<1>2. a \in Seq(S) /\ Len(a) = Len(dst) + 1 /\ a[Len(dst) + 1] = byte /\ \A j \in 1..Len(dst) : a[j] = dst[j]
  BY <1>1
<1>3. PICK d : d = [dst EXCEPT ![i] = c]
  BY Zenon
<1>4. d \in Seq(S) /\ Len(d) = Len(dst) /\ \A j \in 1..Len(dst) : d[j] = IF j = i THEN c ELSE dst[j]
  BY <1>3
<1>5. Append(d, byte) = [a EXCEPT ![i] = c]
  <2>1. PICK x : x = Append(d, byte)
    BY Zenon
  <2>2. x \in Seq(S) /\ Len(x) = Len(dst) + 1 /\ x[Len(dst) + 1] = byte
        /\ \A j \in 1..Len(dst) : x[j] = d[j]
    BY <1>4, <2>1
  <2>3. PICK y : y = [a EXCEPT ![i] = c]
    BY Zenon
  <2>4. y \in Seq(S) /\ Len(y) = Len(a) /\ \A j \in 1..Len(a) : y[j] = IF j = i THEN c ELSE a[j]
    BY <1>2, <2>3
  <2>5. \A j \in 1..Len(x) : x[j] = y[j]
    <3> SUFFICES ASSUME NEW j \in 1..Len(x) PROVE x[j] = y[j]
      OBVIOUS
    <3>1. CASE j = Len(dst) + 1
      BY <1>2, <2>2, <2>4, <3>1
    <3>2. CASE j \in 1..Len(dst)
      BY <1>2, <1>4, <2>2, <2>4, <3>2, Zenon
    <3> QED
      BY <2>2, <3>1, <3>2
  <2>6. x = y
    BY <1>2, <2>2, <2>4, <2>5, SameElements
  <2> QED
    BY <2>1, <2>3, <2>6
<1> QED
  BY <1>1, <1>3, <1>5, Zenon

\* Patching the byte that was appended last.
LEMMA PatchLast ==
  ASSUME NEW S, NEW d \in Seq(S), NEW byte \in S, NEW c \in S
  PROVE  [Append(d, byte) EXCEPT ![Len(d) + 1] = c] = Append(d, c)
<1>1. PICK a : a = Append(d, byte)
  BY Zenon
<1>2. PICK x : x = Append(d, c)
  BY Zenon
<1>3. PICK y : y = [a EXCEPT ![Len(d) + 1] = c]
  BY Zenon
<1>4. a \in Seq(S) /\ Len(a) = Len(d) + 1 /\ \A j \in 1..Len(d) : a[j] = d[j]
  BY <1>1, OneAdded
<1>5. x \in Seq(S) /\ Len(x) = Len(d) + 1 /\ x[Len(d) + 1] = c /\ \A j \in 1..Len(d) : x[j] = d[j]
  BY <1>2, OneAdded
<1>6. y \in Seq(S) /\ Len(y) = Len(a) /\ \A j \in 1..Len(a) : y[j] = IF j = Len(d) + 1 THEN c ELSE a[j]
  BY <1>3, <1>4
<1>7. ASSUME NEW j \in 1..Len(x) PROVE y[j] = x[j]
  <2>1. CASE j = Len(d) + 1
    BY <1>4, <1>5, <1>6, <2>1
  <2>2. CASE j \in 1..Len(d)
    BY <1>4, <1>5, <1>6, <2>2
  <2> QED
    BY <1>5, <2>1, <2>2
<1>8. y = x
  BY <1>4, <1>5, <1>6, <1>7, SameElements
<1> QED
  BY <1>1, <1>2, <1>3, <1>8, Zenon

\* The fields of a decoder that has not failed.
LEMMA DecoderFields ==
  ASSUME NEW dst, NEW left, NEW code
  PROVE  /\ Decoder(dst, left, code).status = "kOk" /\ Decoder(dst, left, code).dst = dst
         /\ Decoder(dst, left, code).left = left /\ Decoder(dst, left, code).code = code
  BY DEF Decoder

\* What DecodeByte() does.
LEMMA DecodeByteDef ==
  ASSUME NEW dst, NEW left, NEW code, NEW byte, NEW cap
  PROVE  DecodeByte(Decoder(dst, left, code), byte, cap) =
           IF left > 0
           THEN IF byte = 0 THEN Fails("kInvalidInput")
                ELSE IF Len(dst) >= cap THEN Fails("kOutputOverflow")
                ELSE Decoder(Append(dst, byte), left - 1, code)
           ELSE IF code # Full /\ Len(dst) >= cap THEN Fails("kOutputOverflow")
                ELSE IF byte = 0 THEN Fails("kInvalidInput")
                ELSE Decoder(IF code # Full THEN Append(dst, 0) ELSE dst, byte - 1, byte)
<1>1. PICK s : s = Decoder(dst, left, code)
  OBVIOUS
<1>2. s.status = "kOk" /\ s.dst = dst /\ s.left = left /\ s.code = code
  BY <1>1, DecoderFields
<1>3. DecodeByte(s, byte, cap) =
        IF left > 0 THEN DecodeData(s, byte, cap) ELSE DecodeCode(s, byte, cap)
  BY <1>2 DEF DecodeByte
<1>4. DecodeData(s, byte, cap) =
        IF byte = 0 THEN Fails("kInvalidInput")
        ELSE IF Len(dst) >= cap THEN Fails("kOutputOverflow")
        ELSE Decoder(Append(dst, byte), left - 1, code)
  BY <1>2 DEF DecodeData
<1>5. DecodeCode(s, byte, cap) =
        IF code # Full /\ Len(dst) >= cap THEN Fails("kOutputOverflow")
        ELSE IF byte = 0 THEN Fails("kInvalidInput")
        ELSE Decoder(IF code # Full THEN Append(dst, 0) ELSE dst, byte - 1, byte)
  BY <1>2 DEF DecodeCode
<1>6. DecodeByte(s, byte, cap) =
        IF left > 0
        THEN IF byte = 0 THEN Fails("kInvalidInput")
             ELSE IF Len(dst) >= cap THEN Fails("kOutputOverflow")
             ELSE Decoder(Append(dst, byte), left - 1, code)
        ELSE IF code # Full /\ Len(dst) >= cap THEN Fails("kOutputOverflow")
             ELSE IF byte = 0 THEN Fails("kInvalidInput")
             ELSE Decoder(IF code # Full THEN Append(dst, 0) ELSE dst, byte - 1, byte)
  BY <1>3, <1>4, <1>5, Zenon
<1> QED
  BY <1>1, <1>6, Zenon

\* What the encoder has written of src, the code byte of the last block left
\* open: whatever that block's length will be, a decoder that has read it so
\* far has src, and knows how much is to come.
Decoded(src, dst, i, code) ==
  \A c \in code..Full, cap \in Nat :
    Len(src) <= cap => Decode([dst EXCEPT ![i] = c], cap) = Decoder(src, c - code, c)

\* The encoder after src: dst has no zero but at i, where the code byte of the
\* open block goes; it spends one byte more than src for the first block and
\* one for each full block; and it decodes to src once the code is filled in.
Written(src, dst, i, code) ==
  /\ dst \in Seq(Byte) /\ i \in 1..Len(dst) /\ code \in 1..Full
  /\ \A j \in 1..Len(dst) : j # i => dst[j] # 0
  /\ \E k \in Nat : Len(dst) = Len(src) + 1 + k /\ k * (Full - 1) + (code - 1) <= Len(src)
  /\ Decoded(src, dst, i, code)

\* A decoder at the end of a block reads the code byte of the next.
LEMMA DecodeNext ==
  ASSUME NEW src \in Seq(Byte), NEW code \in 1..Full, NEW c \in 1..Full, NEW cap \in Nat,
         code # Full => Len(src) < cap
  PROVE  DecodeByte(Decoder(src, 0, code), c, cap) =
           Decoder(IF code # Full THEN Append(src, 0) ELSE src, c - 1, c)
<1>1. ~(0 > 0) /\ c # 0 /\ ~(code # Full /\ Len(src) >= cap)
  OBVIOUS
<1> QED
  BY <1>1, DecodeByteDef

\* The encoder has written nothing of the empty input.
LEMMA WrittenStart ==
  ASSUME Inductive
  PROVE  Written(<<>>, <<0>>, 1, 1)
<1>1. Full \in Nat /\ Full >= 3 /\ Byte = 0..Full
  BY RadixType DEF Byte
<1>2. <<0>> \in Seq(Byte) /\ Len(<<0>>) = 1
  BY <1>1
<1>3. Len(<<0>>) = Len(<<>>) + 1 + 0 /\ 0 * (Full - 1) + (1 - 1) <= Len(<<>>)
  BY <1>1
<1>4. ASSUME NEW c \in 1..Full, NEW cap \in Nat
      PROVE  Decode([<<0>> EXCEPT ![1] = c], cap) = Decoder(<<>>, c - 1, c)
  <2>1. [<<0>> EXCEPT ![1] = c] = Append(<<>>, c)
    OBVIOUS
  <2>2. <<>> \in Seq(Byte) /\ c \in Byte
    BY <1>1
  <2>3. Decode(<<>>, cap) = DecodeStart /\ Decode(Append(<<>>, c), cap) = DecodeByte(Decode(<<>>, cap), c, cap)
    BY <2>2, DecodeSteps, Zenon
  <2>4. Full \in 1..Full
    BY <1>1
  <2>5. DecodeByte(Decoder(<<>>, 0, Full), c, cap) = Decoder(<<>>, c - 1, c)
    BY <2>2, <2>4, DecodeNext, Zenon
  <2> QED
    BY <2>1, <2>3, <2>5 DEF DecodeStart
<1> QED
  BY <1>1, <1>2, <1>3, <1>4 DEF Written, Decoded

\* The block is closed and the code byte of the next reserved: a zero of the
\* data is implied unless the block was full.
LEMMA WrittenClose ==
  ASSUME Inductive, NEW src \in Seq(Byte), NEW dst, NEW i, NEW code, Written(src, dst, i, code)
  PROVE  LET next == Append([dst EXCEPT ![i] = code], 0)
         IN  /\ Len(next) = Len(dst) + 1
             /\ code # Full => Written(Append(src, 0), next, Len(dst) + 1, 1)
             /\ code = Full => Written(src, next, Len(dst) + 1, 1)
<1>1. Full \in Nat /\ Full >= 3 /\ Byte = 0..Full
  BY RadixType DEF Byte
<1>2. dst \in Seq(Byte) /\ i \in 1..Len(dst) /\ code \in 1..Full /\ code \in Byte /\ 0 \in Byte
      /\ \A j \in 1..Len(dst) : j # i => dst[j] # 0
  BY <1>1 DEF Written
<1>3. PICK closed : closed = [dst EXCEPT ![i] = code]
  BY Zenon
<1>4. closed \in Seq(Byte) /\ Len(closed) = Len(dst) /\ \A j \in 1..Len(dst) : closed[j] # 0
  BY <1>2, <1>3
<1>5. PICK next : next = Append(closed, 0)
  BY Zenon
<1>6. /\ next \in Seq(Byte) /\ Len(next) = Len(dst) + 1
      /\ \A j \in 1..Len(next) : j # Len(dst) + 1 => next[j] # 0
  <2>1. /\ next \in Seq(Byte) /\ Len(next) = Len(dst) + 1
        /\ \A j \in 1..Len(dst) : next[j] = closed[j]
    BY <1>2, <1>4, <1>5, OneAdded
  <2> QED
    BY <1>4, <2>1
<1>7. PICK after : after = IF code # Full THEN Append(src, 0) ELSE src
  BY Zenon
<1>8. after \in Seq(Byte) /\ Len(after) = IF code # Full THEN Len(src) + 1 ELSE Len(src)
  BY <1>2, <1>7
<1>9. ASSUME NEW c \in 1..Full, NEW cap \in Nat, Len(after) <= cap
      PROVE  Decode([next EXCEPT ![Len(dst) + 1] = c], cap) = Decoder(after, c - 1, c)
  <2>1. [next EXCEPT ![Len(dst) + 1] = c] = Append(closed, c)
    <3>1. c \in Byte
      BY <1>1
    <3> QED
      BY <1>2, <1>4, <1>5, <3>1, PatchLast
  <2>2. c \in Byte /\ code \in code..Full /\ Len(src) <= cap /\ code - code = 0
    BY <1>1, <1>2, <1>8, <1>9
  <2>3. Decode(closed, cap) = Decoder(src, 0, code)
    BY <1>3, <2>2, Zenon DEF Written, Decoded
  <2>4. Decode(Append(closed, c), cap) = DecodeByte(Decode(closed, cap), c, cap)
    BY <1>4, <2>2, DecodeSteps
  <2>5. code # Full => Len(src) < cap
    BY <1>8, <1>9
  <2>6. DecodeByte(Decoder(src, 0, code), c, cap) = Decoder(after, c - 1, c)
    BY <1>2, <1>7, <2>5, DecodeNext
  <2> QED
    BY <2>1, <2>3, <2>4, <2>6, Zenon
<1>10. \E k \in Nat : Len(next) = Len(after) + 1 + k /\ k * (Full - 1) + (1 - 1) <= Len(after)
  <2>1. PICK k \in Nat : Len(dst) = Len(src) + 1 + k /\ k * (Full - 1) + (code - 1) <= Len(src)
    BY DEF Written
  <2>2. CASE code # Full
    <3>1. Len(next) = Len(after) + 1 + k /\ k * (Full - 1) + (1 - 1) <= Len(after)
      BY <1>1, <1>2, <1>6, <1>8, <2>1, <2>2
    <3> QED
      BY <3>1
  <2>3. CASE code = Full
    <3>1. (k + 1) * (Full - 1) = k * (Full - 1) + (Full - 1)
      BY <1>1
    <3>2. Len(next) = Len(after) + 1 + (k + 1) /\ (k + 1) * (Full - 1) + (1 - 1) <= Len(after)
      BY <1>1, <1>2, <1>6, <1>8, <2>1, <2>3, <3>1
    <3> QED
      BY <3>2
  <2> QED
    BY <2>2, <2>3
<1>11. Written(after, next, Len(dst) + 1, 1)
  <2>1. Len(dst) + 1 \in 1..Len(next) /\ 1 \in 1..Full
    BY <1>1, <1>2, <1>6
  <2>2. Decoded(after, next, Len(dst) + 1, 1)
    BY <1>9 DEF Decoded
  <2> QED
    BY <1>6, <1>10, <2>1, <2>2, Zenon DEF Written
<1> QED
  BY <1>3, <1>5, <1>6, <1>7, <1>11, Zenon

\* A byte is put in the open block.
LEMMA WrittenPut ==
  ASSUME Inductive, NEW src \in Seq(Byte), NEW dst, NEW i, NEW code, Written(src, dst, i, code),
         NEW byte \in Byte, byte # 0, code # Full
  PROVE  Written(Append(src, byte), Append(dst, byte), i, code + 1)
<1>1. Full \in Nat /\ Full >= 3 /\ Byte = 0..Full
  BY RadixType DEF Byte
<1>2. dst \in Seq(Byte) /\ i \in 1..Len(dst) /\ code \in 1..Full /\ code + 1 \in 1..Full
      /\ \A j \in 1..Len(dst) : j # i => dst[j] # 0
  BY <1>1 DEF Written
<1>3. PICK put : put = Append(dst, byte)
  BY Zenon
<1>4. put \in Seq(Byte) /\ Len(put) = Len(dst) + 1 /\ i \in 1..Len(put)
      /\ \A j \in 1..Len(put) : j # i => put[j] # 0
  <2>1. /\ put \in Seq(Byte) /\ Len(put) = Len(dst) + 1
        /\ put[Len(dst) + 1] = byte /\ \A j \in 1..Len(dst) : put[j] = dst[j]
    BY <1>2, <1>3, OneAdded
  <2>2. ASSUME NEW j \in 1..Len(put), j # i PROVE put[j] # 0
    <3>1. CASE j = Len(dst) + 1
      BY <2>1, <3>1
    <3>2. CASE j \in 1..Len(dst)
      BY <1>2, <2>1, <2>2, <3>2
    <3> QED
      BY <2>1, <3>1, <3>2
  <2> QED
    BY <1>2, <2>1, <2>2
<1>5. PICK after : after = Append(src, byte)
  BY Zenon
<1>6. after \in Seq(Byte) /\ Len(after) = Len(src) + 1
  BY <1>5
<1>7. ASSUME NEW c \in (code + 1)..Full, NEW cap \in Nat, Len(after) <= cap
      PROVE  Decode([put EXCEPT ![i] = c], cap) = Decoder(after, c - (code + 1), c)
  <2>1. c \in Byte /\ c \in code..Full /\ Len(src) <= cap /\ c - code > 0
        /\ (c - code) - 1 = c - (code + 1) /\ ~(Len(src) >= cap)
    BY <1>1, <1>2, <1>6, <1>7
  <2>2. PICK d : d = [dst EXCEPT ![i] = c]
    BY Zenon
  <2>3. d \in Seq(Byte) /\ [put EXCEPT ![i] = c] = Append(d, byte)
    BY <1>2, <1>3, <2>1, <2>2, PatchAppend
  <2>4. Decode(d, cap) = Decoder(src, c - code, c)
    BY <2>1, <2>2, Zenon DEF Written, Decoded
  <2>5. Decode(Append(d, byte), cap) = DecodeByte(Decode(d, cap), byte, cap)
    BY <2>3, DecodeSteps
  <2>6. DecodeByte(Decoder(src, c - code, c), byte, cap) = Decoder(after, c - (code + 1), c)
    BY <1>5, <2>1, DecodeByteDef
  <2> QED
    BY <2>3, <2>4, <2>5, <2>6, Zenon
<1>8. \E k \in Nat : Len(put) = Len(after) + 1 + k /\ k * (Full - 1) + ((code + 1) - 1) <= Len(after)
  <2>1. PICK k \in Nat : Len(dst) = Len(src) + 1 + k /\ k * (Full - 1) + (code - 1) <= Len(src)
    BY DEF Written
  <2>2. Len(put) = Len(after) + 1 + k /\ k * (Full - 1) + ((code + 1) - 1) <= Len(after)
    BY <1>1, <1>2, <1>4, <1>6, <2>1
  <2> QED
    BY <2>2
<1>9. Written(after, put, i, code + 1)
  BY <1>2, <1>4, <1>7, <1>8, Zenon DEF Written, Decoded
<1> QED
  BY <1>3, <1>5, <1>9

\* The encoder has not run out of room, and what it has written is right.
Encodes(src, s, cap) ==
  \E dst, i, code : s = Encoder(dst, i, code) /\ code # Full /\ Len(dst) <= cap
                    /\ Written(src, dst, i, code)

\* The size of what is written for src stays within the bound the callers use.
LEMMA WrittenSize ==
  ASSUME Inductive, NEW src \in Seq(Byte), NEW dst, NEW i, NEW code, Written(src, dst, i, code)
  PROVE  Len(dst) <= cobs_encoded_max_size(Len(src))
<1>1. PICK k \in Nat : Len(dst) = Len(src) + 1 + k /\ k * (Full - 1) + (code - 1) <= Len(src)
  BY DEF Written
<1>2. Full - 1 \in Nat \ {0} /\ Len(src) \in Nat /\ code \in Nat /\ code >= 1
  <2>1. code \in 1..Full
    BY DEF Written
  <2> QED
    BY <2>1, RadixType
<1>3. k * (Full - 1) <= Len(src)
  <2>1. k * (Full - 1) \in Nat
    BY <1>2
  <2> QED
    BY <1>1, <1>2, <2>1
<1>4. k <= Len(src) \div (Full - 1)
  BY <1>2, <1>3, DivBound, Zenon
<1>5. Len(src) \div (Full - 1) \in Nat
  BY <1>2, DivMod, Zenon
<1> QED
  BY <1>1, <1>2, <1>4, <1>5 DEF cobs_encoded_max_size

\* One byte more never needs less room.
LEMMA MaxSizeGrows ==
  ASSUME Inductive, NEW n \in Nat
  PROVE  /\ cobs_encoded_max_size(n) \in Nat
         /\ cobs_encoded_max_size(n + 1) \in Nat
         /\ cobs_encoded_max_size(n) <= cobs_encoded_max_size(n + 1)
<1>1. PICK d \in Nat \ {0} : d = Full - 1
  BY RadixType
<1>2. n + 1 \in Nat /\ n <= n + 1
  OBVIOUS
<1>3. n \div d \in Nat /\ (n + 1) \div d \in Nat
  BY <1>2, DivMod
<1>4. n \div d <= (n + 1) \div d
  BY <1>2, DivMono
<1> QED
  BY <1>1, <1>3, <1>4 DEF cobs_encoded_max_size

\* One byte more: it is written, or there is no room for what the bound allows.
LEMMA EncodeOne ==
  ASSUME Inductive, NEW src \in Seq(Byte), NEW byte \in Byte, NEW cap \in Nat \ {0}, NEW s,
         Encodes(src, s, cap)
  PROVE  \/ Encodes(Append(src, byte), EncodeByte(s, byte, cap), cap)
         \/ /\ EncodeByte(s, byte, cap) = Fails("kOutputOverflow")
            /\ cap < cobs_encoded_max_size(Len(src) + 1)
<1>1. PICK dst, i, code : s = Encoder(dst, i, code) /\ code # Full /\ Len(dst) <= cap
                          /\ Written(src, dst, i, code)
  BY DEF Encodes
<1>2. PICK after : after = Append(src, byte)
  BY Zenon
<1>3. after \in Seq(Byte) /\ Len(after) = Len(src) + 1
  BY <1>2
<1>4. dst \in Seq(Byte) /\ Len(dst) \in Nat /\ code \in 1..Full
  BY <1>1 DEF Written
<1>5. PICK next : next = EncodeByte(s, byte, cap)
  OBVIOUS
<1>6. cobs_encoded_max_size(Len(after)) \in Nat
  BY <1>3, MaxSizeGrows
<1>7. CASE byte = 0
  <2>1. PICK d : d = Append([dst EXCEPT ![i] = code], 0)
    BY Zenon
  <2>2. next = IF Len(dst) >= cap THEN Fails("kOutputOverflow") ELSE Encoder(d, Len(dst) + 1, 1)
    <3>1. next = NextBlock(Encoder(dst, i, code), cap)
      BY <1>1, <1>5, <1>7, EncodeByteDef
    <3> QED
      BY <2>1, <3>1, Block, Zenon
  <2>3. Written(after, d, Len(dst) + 1, 1)
    BY <1>1, <1>2, <1>7, <2>1, WrittenClose, Zenon
  <2>4. Len(d) = Len(dst) + 1
    BY <1>1, <2>1, WrittenClose
  <2>5. Len(d) <= cobs_encoded_max_size(Len(after))
    BY <1>3, <2>3, WrittenSize
  <2>6. CASE Len(dst) >= cap
    BY <1>2, <1>3, <1>4, <1>5, <1>6, <2>2, <2>4, <2>5, <2>6
  <2>7. CASE ~(Len(dst) >= cap)
    <3>1. next = Encoder(d, Len(dst) + 1, 1) /\ 1 # Full /\ Len(d) <= cap
      BY <1>4, <2>2, <2>4, <2>7, RadixType
    <3> QED
      BY <1>2, <1>5, <2>3, <3>1 DEF Encodes
  <2> QED
    BY <2>6, <2>7
<1>8. CASE byte # 0
  <2>1. PICK d : d = Append(dst, byte)
    BY Zenon
  <2>2. Written(after, d, i, code + 1) /\ Len(d) = Len(dst) + 1
    BY <1>1, <1>2, <1>4, <1>8, <2>1, WrittenPut
  <2>3. Len(d) <= cobs_encoded_max_size(Len(after))
    BY <1>3, <2>2, WrittenSize
  <2>4. next = IF Len(dst) >= cap THEN Fails("kOutputOverflow")
               ELSE IF code + 1 = Full THEN NextBlock(Encoder(d, i, code + 1), cap)
               ELSE Encoder(d, i, code + 1)
    BY <1>1, <1>5, <1>8, <2>1, EncodeByteDef
  <2>5. CASE Len(dst) >= cap
    BY <1>2, <1>3, <1>4, <1>5, <1>6, <2>2, <2>3, <2>4, <2>5
  <2>6. CASE ~(Len(dst) >= cap) /\ code + 1 # Full
    <3>1. next = Encoder(d, i, code + 1) /\ Len(d) <= cap
      BY <1>4, <2>2, <2>4, <2>6
    <3> QED
      BY <1>2, <1>5, <2>2, <2>6, <3>1 DEF Encodes
  <2>7. CASE ~(Len(dst) >= cap) /\ code + 1 = Full
    <3>1. PICK e : e = Append([d EXCEPT ![i] = code + 1], 0)
      BY Zenon
    <3>2. next = IF Len(d) >= cap THEN Fails("kOutputOverflow") ELSE Encoder(e, Len(d) + 1, 1)
      BY <2>4, <2>7, <3>1, Block, Zenon
    <3>3. Written(after, e, Len(d) + 1, 1)
      BY <1>3, <2>2, <2>7, <3>1, WrittenClose, Zenon
    <3>4. Len(e) = Len(d) + 1
      BY <1>3, <2>2, <3>1, WrittenClose
    <3>5. Len(e) <= cobs_encoded_max_size(Len(after))
      BY <1>3, <3>3, WrittenSize
    <3>6. CASE Len(d) >= cap
      BY <1>2, <1>3, <1>4, <1>5, <1>6, <2>2, <3>2, <3>4, <3>5, <3>6
    <3>7. CASE ~(Len(d) >= cap)
      <4>1. next = Encoder(e, Len(d) + 1, 1) /\ 1 # Full /\ Len(e) <= cap
        BY <1>4, <2>2, <3>2, <3>4, <3>7, RadixType
      <4> QED
        BY <1>2, <1>5, <3>3, <4>1 DEF Encodes
    <3> QED
      BY <3>6, <3>7
  <2> QED
    BY <2>5, <2>6, <2>7
<1> QED
  BY <1>7, <1>8

\* cobs_encode() writes what decodes to src, or runs out of a room that is
\* smaller than the bound.
LEMMA EncodeWrites ==
  ASSUME Inductive
  PROVE  \A src \in Seq(Byte) : \A cap \in Nat \ {0} :
           \/ Encodes(src, Encode(src, cap), cap)
           \/ Encode(src, cap) = Fails("kOutputOverflow") /\ cap < cobs_encoded_max_size(Len(src))
<1> DEFINE P(src, cap) == \/ Encodes(src, Encode(src, cap), cap)
                          \/ /\ Encode(src, cap) = Fails("kOutputOverflow")
                             /\ cap < cobs_encoded_max_size(Len(src))
           T == {src \in Seq(Byte) : \A cap \in Nat \ {0} : P(src, cap)}
<1>1. <<>> \in T
  <2>1. ASSUME NEW cap \in Nat \ {0} PROVE Encodes(<<>>, Encode(<<>>, cap), cap)
    <3>1. Encode(<<>>, cap) = Encoder(<<0>>, 1, 1)
      <4>1. <<>> \in Seq(Byte) /\ 0 \in Byte
        BY RadixType DEF Byte
      <4> QED
        BY <4>1, EncodeSteps, Zenon DEF EncodeStart
    <3>2. 1 # Full /\ Len(<<0>>) <= cap
      BY RadixType
    <3> QED
      BY <3>1, <3>2, WrittenStart, Zenon DEF Encodes
  <2> QED
    BY <2>1
<1>2. ASSUME NEW src \in Seq(Byte), NEW byte \in Byte, src \in T PROVE Append(src, byte) \in T
  <2> SUFFICES ASSUME NEW cap \in Nat \ {0} PROVE P(Append(src, byte), cap)
    OBVIOUS
  <2>1. PICK after : after = Append(src, byte)
    BY Zenon
  <2>2. after \in Seq(Byte) /\ Len(after) = Len(src) + 1
    BY <2>1
  <2>3. Encode(after, cap) = EncodeByte(Encode(src, cap), byte, cap)
    BY <2>1, EncodeSteps
  <2>4. CASE Encode(src, cap) = Fails("kOutputOverflow") /\ cap < cobs_encoded_max_size(Len(src))
    <3>1. EncodeByte(Fails("kOutputOverflow"), byte, cap) = Fails("kOutputOverflow")
      BY DEF EncodeByte, Fails
    <3>2. cobs_encoded_max_size(Len(src)) <= cobs_encoded_max_size(Len(after))
      BY <2>2, MaxSizeGrows
    <3>3. cobs_encoded_max_size(Len(src)) \in Nat /\ cobs_encoded_max_size(Len(after)) \in Nat
      BY <2>2, MaxSizeGrows
    <3>4. P(after, cap)
      BY <2>3, <2>4, <3>1, <3>2, <3>3
    <3> QED
      BY <2>1, <3>4
  <2>5. CASE Encodes(src, Encode(src, cap), cap)
    <3>1. P(after, cap)
      BY <2>1, <2>2, <2>3, <2>5, EncodeOne
    <3> QED
      BY <2>1, <3>1
  <2> QED
    BY <1>2, <2>4, <2>5
<1>3. Seq(Byte) \subseteq T
  <2> HIDE DEF T
  <2> QED
    BY <1>1, <1>2, SeqSet
<1> QED
  BY <1>3

\* The encoder given the size its callers compute.
LEMMA EncodeFits ==
  ASSUME Inductive, NEW src \in Seq(Byte), NEW cap \in Nat, cap >= cobs_encoded_max_size(Len(src))
  PROVE  cap # 0 /\ Encodes(src, Encode(src, cap), cap)
<1>1. cobs_encoded_max_size(Len(src)) \in Nat
  BY MaxSizeGrows
<1>2. cobs_encoded_max_size(Len(src)) >= 1
  <2>1. PICK d \in Nat \ {0} : d = Full - 1
    BY RadixType
  <2>2. Len(src) \in Nat
    OBVIOUS
  <2>3. Len(src) \div d \in Nat
    BY <2>2, DivMod, Zenon
  <2> QED
    BY <2>1, <2>2, <2>3 DEF cobs_encoded_max_size
<1>3. cap \in Nat \ {0}
  BY <1>1, <1>2
<1> QED
  BY <1>1, <1>3, EncodeWrites

\* What cobs_encode() returns when the encoder got to the end.
LEMMA EncodedBytes ==
  ASSUME Inductive, NEW src \in Seq(Byte), NEW cap \in Nat \ {0}, Encodes(src, Encode(src, cap), cap)
  PROVE  LET encoded == cobs_encode(src, cap)
         IN  /\ encoded.status = "kOk"
             /\ encoded.bytes \in Seq(Byte \ {0})
             /\ Len(encoded.bytes) = Len(Encode(src, cap).dst)
             /\ 0 < Len(encoded.bytes) /\ Len(encoded.bytes) <= cobs_encoded_max_size(Len(src))
             /\ \A room \in Nat : Len(src) <= room =>
                  cobs_decode(encoded.bytes, room) = [status |-> "kOk", bytes |-> src]
<1>1. PICK dst, i, code : Encode(src, cap) = Encoder(dst, i, code) /\ code # Full /\ Len(dst) <= cap
                          /\ Written(src, dst, i, code)
  BY DEF Encodes
<1>2. PICK e : e = Encode(src, cap)
  OBVIOUS
<1>3. e.status = "kOk" /\ e.dst = dst /\ e.at = i /\ e.code = code
  BY <1>1, <1>2, EncoderFields
<1>4. PICK bytes : bytes = [dst EXCEPT ![i] = code]
  BY Zenon
<1>5. cobs_encode(src, cap) = [status |-> "kOk", bytes |-> bytes]
  BY <1>2, <1>3, <1>4 DEF cobs_encode
<1>6. /\ dst \in Seq(Byte) /\ i \in 1..Len(dst) /\ code \in 1..Full /\ code \in Byte
      /\ \A j \in 1..Len(dst) : j # i => dst[j] # 0
  BY <1>1, RadixType DEF Written, Byte
<1>7. bytes \in Seq(Byte) /\ Len(bytes) = Len(dst) /\ \A j \in 1..Len(dst) : bytes[j] = IF j = i THEN code ELSE dst[j]
  BY <1>4, <1>6
<1>8. bytes \in Seq(Byte \ {0})
  <2>1. \A j \in 1..Len(bytes) : bytes[j] \in Byte \ {0}
    BY <1>6, <1>7
  <2> QED
    BY <1>7, <2>1
<1>9. 0 < Len(bytes) /\ Len(bytes) <= cobs_encoded_max_size(Len(src))
  BY <1>1, <1>6, <1>7, WrittenSize
<1>10. ASSUME NEW room \in Nat, Len(src) <= room
       PROVE  cobs_decode(bytes, room) = [status |-> "kOk", bytes |-> src]
  <2>1. code \in code..Full /\ code - code = 0
    BY <1>6, RadixType
  <2>2. Decode(bytes, room) = Decoder(src, 0, code)
    BY <1>1, <1>4, <1>10, <2>1, Zenon DEF Written, Decoded
  <2>3. PICK d : d = Decode(bytes, room)
    OBVIOUS
  <2>4. d.status = "kOk" /\ d.left = 0 /\ d.dst = src
    BY <2>2, <2>3, DecoderFields
  <2> QED
    BY <2>3, <2>4 DEF cobs_decode
<1> QED
  BY <1>2, <1>3, <1>5, <1>7, <1>8, <1>9, <1>10

\* One byte, in two rooms.
LEMMA EncodeOneRoom ==
  ASSUME Inductive, NEW src \in Seq(Byte), NEW byte \in Byte, NEW c \in Nat \ {0}, NEW d \in Nat \ {0},
         NEW s, NEW t, Encodes(src, s, c), NEW after, Encodes(after, EncodeByte(s, byte, c), c),
         t = IF Len(s.dst) <= d THEN s ELSE Fails("kOutputOverflow")
  PROVE  EncodeByte(t, byte, d) = IF Len(EncodeByte(s, byte, c).dst) <= d THEN EncodeByte(s, byte, c)
                                  ELSE Fails("kOutputOverflow")
<1>1. PICK dst, i, code : s = Encoder(dst, i, code) /\ Written(src, dst, i, code)
  BY DEF Encodes
<1>2. dst \in Seq(Byte) /\ i \in 1..Len(dst) /\ code \in 1..Full /\ code \in Byte /\ 0 \in Byte
  <2>1. dst \in Seq(Byte) /\ i \in 1..Len(dst) /\ code \in 1..Full
    BY <1>1, Zenon DEF Written
  <2> QED
    BY <2>1, RadixType DEF Byte
<1>3. s.dst = dst
  BY <1>1, EncoderFields
<1>4. EncodeByte(Fails("kOutputOverflow"), byte, d) = Fails("kOutputOverflow")
  BY DEF EncodeByte, Fails
<1>5. PICK u : u = EncodeByte(s, byte, c)
  OBVIOUS
<1>6. u.status = "kOk"
  BY <1>5, EncoderFields DEF Encodes
<1>7. u # Fails("kOutputOverflow")
  BY <1>6 DEF Fails
<1>8. PICK x : x = Append([dst EXCEPT ![i] = code], 0)
  BY Zenon
<1>9. PICK y : y = Append(dst, byte)
  BY Zenon
<1>10. PICK z : z = Append([y EXCEPT ![i] = code + 1], 0)
  BY Zenon
<1>11. Len(x) = Len(dst) + 1 /\ Len(y) = Len(dst) + 1 /\ (code + 1 = Full => Len(z) = Len(dst) + 2)
  <2>1. [dst EXCEPT ![i] = code] \in Seq(Byte) /\ Len([dst EXCEPT ![i] = code]) = Len(dst)
    BY <1>2, OneReplaced
  <2>2. y \in Seq(Byte) /\ Len(y) = Len(dst) + 1
    BY <1>2, <1>9, OneAdded
  <2>3. ASSUME code + 1 = Full PROVE Len(z) = Len(dst) + 2
    <3>1. code + 1 \in Byte
      BY <2>3, RadixType DEF Byte
    <3>2. i \in 1..Len(y)
      BY <1>2, <2>2
    <3>3. PICK w : w = [y EXCEPT ![i] = code + 1]
      BY Zenon
    <3>4. w \in Seq(Byte) /\ Len(w) = Len(y)
      BY <2>2, <3>1, <3>2, <3>3, OneReplaced
    <3>5. z = Append(w, 0)
      BY <1>10, <3>3
    <3>6. Len(z) = Len(w) + 1
      BY <1>2, <3>4, <3>5, OneAdded
    <3>7. Len(dst) \in Nat
      BY <1>2
    <3> QED
      BY <2>2, <3>4, <3>6, <3>7
  <2> QED
    BY <1>2, <1>8, <2>1, <2>2, <2>3, OneAdded
<1>12. \A cap : EncodeByte(s, byte, cap) =
         IF byte = 0 THEN IF Len(dst) >= cap THEN Fails("kOutputOverflow") ELSE Encoder(x, Len(dst) + 1, 1)
         ELSE IF Len(dst) >= cap THEN Fails("kOutputOverflow")
         ELSE IF code + 1 = Full THEN IF Len(y) >= cap THEN Fails("kOutputOverflow") ELSE Encoder(z, Len(y) + 1, 1)
         ELSE Encoder(y, i, code + 1)
  <2> SUFFICES ASSUME NEW cap
      PROVE EncodeByte(s, byte, cap) =
         IF byte = 0 THEN IF Len(dst) >= cap THEN Fails("kOutputOverflow") ELSE Encoder(x, Len(dst) + 1, 1)
         ELSE IF Len(dst) >= cap THEN Fails("kOutputOverflow")
         ELSE IF code + 1 = Full THEN IF Len(y) >= cap THEN Fails("kOutputOverflow") ELSE Encoder(z, Len(y) + 1, 1)
         ELSE Encoder(y, i, code + 1)
    OBVIOUS
  <2>1. NextBlock(s, cap) = IF Len(dst) >= cap THEN Fails("kOutputOverflow") ELSE Encoder(x, Len(dst) + 1, 1)
    BY <1>1, <1>8, Block, Zenon
  <2>2. NextBlock(Encoder(y, i, code + 1), cap) =
          IF Len(y) >= cap THEN Fails("kOutputOverflow") ELSE Encoder(z, Len(y) + 1, 1)
    BY <1>10, Block, Zenon
  <2> QED
    BY <1>1, <1>9, <2>1, <2>2, EncodeByteDef
<1>13. Encoder(x, Len(dst) + 1, 1).dst = x /\ Encoder(z, Len(y) + 1, 1).dst = z
       /\ Encoder(y, i, code + 1).dst = y
  BY EncoderFields
<1>14. Len(dst) \in Nat
  BY <1>2
<1>15. CASE Len(dst) <= d
  <2>1. t = s
    BY <1>3, <1>15
  <2>2. CASE byte = 0
    BY <1>5, <1>7, <1>11, <1>12, <1>13, <1>14, <2>1, <2>2
  <2>3. CASE byte # 0 /\ code + 1 # Full
    BY <1>5, <1>7, <1>11, <1>12, <1>13, <1>14, <2>1, <2>3
  <2>4. CASE byte # 0 /\ code + 1 = Full
    BY <1>5, <1>7, <1>11, <1>12, <1>13, <1>14, <2>1, <2>4
  <2> QED
    BY <2>2, <2>3, <2>4
<1>16. CASE ~(Len(dst) <= d)
  <2>1. t = Fails("kOutputOverflow")
    BY <1>3, <1>16
  <2>2. Len(u.dst) > Len(dst)
    BY <1>5, <1>7, <1>11, <1>12, <1>13, <1>14
  <2> QED
    BY <1>4, <1>5, <1>14, <1>16, <2>1, <2>2
<1> QED
  BY <1>15, <1>16

\* The encoder runs the same in every room its output fits, and fails in any
\* other.
LEMMA EncodeRoom ==
  ASSUME Inductive
  PROVE  \A src \in Seq(Byte) : \A c, d \in Nat \ {0} :
           Encodes(src, Encode(src, c), c) =>
             Encode(src, d) = IF Len(Encode(src, c).dst) <= d THEN Encode(src, c)
                              ELSE Fails("kOutputOverflow")
<1> DEFINE P(src, c, d) == Encodes(src, Encode(src, c), c) =>
                             Encode(src, d) = IF Len(Encode(src, c).dst) <= d THEN Encode(src, c)
                                              ELSE Fails("kOutputOverflow")
           T == {src \in Seq(Byte) : \A c, d \in Nat \ {0} : P(src, c, d)}
<1>1. <<>> \in T
  <2>1. <<>> \in Seq(Byte) /\ 0 \in Byte
    BY RadixType DEF Byte
  <2>2. \A c \in Nat : Encode(<<>>, c) = EncodeStart
    BY <2>1, EncodeSteps, Zenon
  <2>3. EncodeStart.dst = <<0>> /\ Len(<<0>>) = 1
    BY EncoderFields DEF EncodeStart
  <2>4. ASSUME NEW c \in Nat \ {0}, NEW d \in Nat \ {0} PROVE P(<<>>, c, d)
    <3>1. Encode(<<>>, c) = EncodeStart /\ Encode(<<>>, d) = EncodeStart
      BY <2>2
    <3>2. Len(EncodeStart.dst) <= d
      BY <2>3
    <3> QED
      BY <3>1, <3>2, Zenon
  <2> QED
    BY <2>1, <2>4
<1>2. ASSUME NEW src \in Seq(Byte), NEW byte \in Byte, src \in T PROVE Append(src, byte) \in T
  <2> SUFFICES ASSUME NEW c \in Nat \ {0}, NEW d \in Nat \ {0} PROVE P(Append(src, byte), c, d)
    OBVIOUS
  <2>1. PICK after : after = Append(src, byte)
    BY Zenon
  <2>2. after \in Seq(Byte)
    BY <2>1
  <2>3. Encode(after, c) = EncodeByte(Encode(src, c), byte, c)
        /\ Encode(after, d) = EncodeByte(Encode(src, d), byte, d)
    BY <2>1, EncodeSteps
  <2>4. ASSUME Encodes(after, Encode(after, c), c) PROVE Encodes(src, Encode(src, c), c)
    <3>1. CASE Encode(src, c) = Fails("kOutputOverflow")
      <4>1. Encode(after, c) = Fails("kOutputOverflow")
        BY <2>3, <3>1 DEF EncodeByte, Fails
      <4>2. \E x, y, z : Fails("kOutputOverflow") = Encoder(x, y, z)
        BY <2>4, <4>1, Zenon DEF Encodes
      <4>3. Fails("kOutputOverflow").status = "kOutputOverflow"
        BY DEF Fails
      <4> QED
        BY <4>2, <4>3, EncoderFields
    <3> QED
      BY <3>1, EncodeWrites
  <2>5. ASSUME Encodes(after, Encode(after, c), c)
        PROVE  Encode(after, d) = IF Len(Encode(after, c).dst) <= d THEN Encode(after, c)
                                  ELSE Fails("kOutputOverflow")
    <3>1. Encode(src, d) = IF Len(Encode(src, c).dst) <= d THEN Encode(src, c)
                           ELSE Fails("kOutputOverflow")
      BY <1>2, <2>4, <2>5
    <3>2. PICK s, t : s = Encode(src, c) /\ t = Encode(src, d)
      OBVIOUS
    <3>3. Encodes(src, s, c) /\ Encodes(after, EncodeByte(s, byte, c), c)
      BY <2>3, <2>4, <2>5, <3>2
    <3>4. EncodeByte(t, byte, d) = IF Len(EncodeByte(s, byte, c).dst) <= d THEN EncodeByte(s, byte, c)
                                   ELSE Fails("kOutputOverflow")
      BY <2>1, <3>1, <3>2, <3>3, EncodeOneRoom
    <3> QED
      BY <2>3, <3>2, <3>4
  <2> QED
    BY <2>1, <2>5
<1>3. Seq(Byte) \subseteq T
  <2> HIDE DEF T
  <2> QED
    BY <1>1, <1>2, SeqSet
<1> QED
  BY <1>3

\* The decoder has found nothing wrong yet.
Decodes(s) == \E dst \in Seq(Byte), left \in Nat, code \in Byte : s = Decoder(dst, left, code)

\* One byte, in two rooms.
LEMMA DecodeOneRoom ==
  ASSUME Inductive, NEW byte \in Byte, NEW c \in Nat, NEW d \in Nat, NEW s, Decodes(s)
  PROVE  LET u == DecodeByte(s, byte, c)
             t == IF Len(s.dst) <= d THEN s ELSE Fails("kOutputOverflow")
         IN  \/ \E why \in {"kOutputOverflow", "kInvalidInput"} : u = Fails(why)
             \/ /\ Decodes(u)
                /\ DecodeByte(t, byte, d) = IF Len(u.dst) <= d THEN u ELSE Fails("kOutputOverflow")
<1>1. PICK dst \in Seq(Byte), left \in Nat, code \in Byte : s = Decoder(dst, left, code)
  BY DEF Decodes
<1>2. s.dst = dst /\ Len(dst) \in Nat
  BY <1>1, DecoderFields
<1>3. PICK u : u = DecodeByte(s, byte, c)
  OBVIOUS
<1>4. PICK t : t = IF Len(s.dst) <= d THEN s ELSE Fails("kOutputOverflow")
  OBVIOUS
<1>5. DecodeByte(Fails("kOutputOverflow"), byte, d) = Fails("kOutputOverflow")
  BY DEF DecodeByte, Fails
<1>6. \A cap \in Nat : DecodeByte(s, byte, cap) =
        IF left > 0
        THEN IF byte = 0 THEN Fails("kInvalidInput")
             ELSE IF Len(dst) >= cap THEN Fails("kOutputOverflow")
             ELSE Decoder(Append(dst, byte), left - 1, code)
        ELSE IF code # Full /\ Len(dst) >= cap THEN Fails("kOutputOverflow")
             ELSE IF byte = 0 THEN Fails("kInvalidInput")
             ELSE Decoder(IF code # Full THEN Append(dst, 0) ELSE dst, byte - 1, byte)
  BY <1>1, DecodeByteDef
<1>7. 0 \in Byte /\ byte \in Nat /\ (byte # 0 => byte - 1 \in Nat) /\ (left > 0 => left - 1 \in Nat)
  BY RadixType DEF Byte
<1>8. PICK x : x = Append(dst, byte)
  BY Zenon
<1>9. PICK y : y = IF code # Full THEN Append(dst, 0) ELSE dst
  BY Zenon
<1>10. x \in Seq(Byte) /\ Len(x) = Len(dst) + 1
  BY <1>8, OneAdded
<1>11. y \in Seq(Byte) /\ Len(y) = IF code # Full THEN Len(dst) + 1 ELSE Len(dst)
  BY <1>7, <1>9, OneAdded
<1>12. Decoder(x, left - 1, code).dst = x /\ Decoder(y, byte - 1, byte).dst = y
  BY DecoderFields
<1>13. \/ \E why \in {"kOutputOverflow", "kInvalidInput"} : u = Fails(why)
       \/ /\ Decodes(u)
          /\ DecodeByte(t, byte, d) = IF Len(u.dst) <= d THEN u ELSE Fails("kOutputOverflow")
  <2> SUFFICES ASSUME u # Fails("kOutputOverflow"), u # Fails("kInvalidInput")
               PROVE  /\ Decodes(u)
                      /\ DecodeByte(t, byte, d) = IF Len(u.dst) <= d THEN u ELSE Fails("kOutputOverflow")
    OBVIOUS
  <2>1. CASE left > 0
    <3>1. u = Decoder(x, left - 1, code) /\ byte # 0
      BY <1>3, <1>6, <1>8, <2>1
    <3>2. Decodes(u)
      BY <1>7, <1>10, <2>1, <3>1 DEF Decodes
    <3>3. u.dst = x
      BY <1>12, <3>1
    <3>4. DecodeByte(s, byte, d) = IF Len(dst) >= d THEN Fails("kOutputOverflow") ELSE u
      BY <1>6, <1>8, <2>1, <3>1
    <3>5. DecodeByte(t, byte, d) = IF Len(x) <= d THEN u ELSE Fails("kOutputOverflow")
      BY <1>2, <1>4, <1>5, <1>10, <3>4
    <3> QED
      BY <3>2, <3>3, <3>5
  <2>2. CASE ~(left > 0)
    <3>1. u = Decoder(y, byte - 1, byte) /\ byte # 0
      BY <1>3, <1>6, <1>9, <2>2
    <3>2. Decodes(u)
      BY <1>7, <1>11, <3>1 DEF Decodes
    <3>3. u.dst = y
      BY <1>12, <3>1
    <3>4. DecodeByte(s, byte, d) = IF code # Full /\ Len(dst) >= d THEN Fails("kOutputOverflow") ELSE u
      BY <1>6, <1>9, <2>2, <3>1
    <3>5. DecodeByte(t, byte, d) = IF Len(y) <= d THEN u ELSE Fails("kOutputOverflow")
      BY <1>2, <1>4, <1>5, <1>11, <3>4
    <3> QED
      BY <3>2, <3>3, <3>5
  <2> QED
    BY <2>1, <2>2
<1> QED
  BY <1>3, <1>4, <1>13

\* The decoder runs the same in every room its output fits, and fails in any
\* other.
LEMMA DecodeRoom ==
  ASSUME Inductive
  PROVE  \A src \in Seq(Byte) : \A c, d \in Nat :
           \/ \E why \in {"kOutputOverflow", "kInvalidInput"} : Decode(src, c) = Fails(why)
           \/ /\ Decodes(Decode(src, c))
              /\ Decode(src, d) = IF Len(Decode(src, c).dst) <= d THEN Decode(src, c)
                                  ELSE Fails("kOutputOverflow")
<1> DEFINE P(src, c, d) == \/ \E why \in {"kOutputOverflow", "kInvalidInput"} : Decode(src, c) = Fails(why)
                           \/ /\ Decodes(Decode(src, c))
                              /\ Decode(src, d) = IF Len(Decode(src, c).dst) <= d THEN Decode(src, c)
                                                  ELSE Fails("kOutputOverflow")
           T == {src \in Seq(Byte) : \A c, d \in Nat : P(src, c, d)}
<1>1. <<>> \in T
  <2>1. <<>> \in Seq(Byte) /\ 0 \in Byte /\ Full \in Byte
    BY RadixType DEF Byte
  <2>2. \A c \in Nat : Decode(<<>>, c) = DecodeStart
    BY <2>1, DecodeSteps, Zenon
  <2>3. DecodeStart.dst = <<>> /\ Len(<<>>) = 0 /\ Decodes(DecodeStart)
    <3>1. DecodeStart.dst = <<>>
      BY DecoderFields DEF DecodeStart
    <3>2. 0 \in Nat /\ Len(<<>>) = 0
      OBVIOUS
    <3> QED
      BY <2>1, <3>1, <3>2, Zenon DEF DecodeStart, Decodes
  <2>4. ASSUME NEW c \in Nat, NEW d \in Nat PROVE P(<<>>, c, d)
    <3>1. Decode(<<>>, c) = DecodeStart /\ Decode(<<>>, d) = DecodeStart
      BY <2>2
    <3>2. Len(DecodeStart.dst) <= d
      BY <2>3
    <3> QED
      BY <2>3, <3>1, <3>2, Zenon
  <2> QED
    BY <2>1, <2>4
<1>2. ASSUME NEW src \in Seq(Byte), NEW byte \in Byte, src \in T PROVE Append(src, byte) \in T
  <2> SUFFICES ASSUME NEW c \in Nat, NEW d \in Nat PROVE P(Append(src, byte), c, d)
    OBVIOUS
  <2>1. PICK after : after = Append(src, byte)
    BY Zenon
  <2>2. Decode(after, c) = DecodeByte(Decode(src, c), byte, c)
        /\ Decode(after, d) = DecodeByte(Decode(src, d), byte, d)
    BY <2>1, DecodeSteps
  <2>3. CASE \E why \in {"kOutputOverflow", "kInvalidInput"} : Decode(src, c) = Fails(why)
    <3>1. PICK why \in {"kOutputOverflow", "kInvalidInput"} : Decode(src, c) = Fails(why)
      BY <2>3
    <3>2. DecodeByte(Fails(why), byte, c) = Fails(why)
      BY <3>1 DEF DecodeByte, Fails
    <3>3. P(after, c, d)
      BY <2>2, <3>1, <3>2
    <3> QED
      BY <2>1, <3>3
  <2>4. CASE /\ Decodes(Decode(src, c))
             /\ Decode(src, d) = IF Len(Decode(src, c).dst) <= d THEN Decode(src, c)
                                 ELSE Fails("kOutputOverflow")
    <3>1. P(after, c, d)
      BY <2>2, <2>4, DecodeOneRoom
    <3> QED
      BY <2>1, <3>1
  <2> QED
    BY <1>2, <2>3, <2>4
<1>3. Seq(Byte) \subseteq T
  <2> HIDE DEF T
  <2> QED
    BY <1>1, <1>2, SeqSet
<1> QED
  BY <1>3

\* g is exclusive or, for a first argument up to n.
XorRun(g, n) ==
  g = [a \in 0..n |-> [b \in Word |->
         IF a = 0 THEN b ELSE 2 * g[a \div 2][b \div 2] + ((a + b) % 2)]]

\* The words of two bytes, which halving stays within.
LEMMA WordType ==
  ASSUME Inductive
  PROVE  /\ Radix * Radix \in Nat /\ Radix * Radix >= 16
         /\ \A a \in Word : a \in Nat /\ a \div 2 \in Word /\ a < Radix * Radix
         /\ \A a \in Nat : a < Radix * Radix => a \in Word
<1>1. Radix * Radix \in Nat /\ Radix * Radix >= 16
  <2>1. Radix - 4 \in Nat
    BY RadixType
  <2>2. Radix * Radix = (Radix - 4) * (Radix - 4) + 8 * (Radix - 4) + 16
    BY RadixType
  <2>3. (Radix - 4) * (Radix - 4) \in Nat
    BY <2>1
  <2> QED
    BY <2>1, <2>2, <2>3
<1> QED
  BY <1>1, Halves DEF Word

\* Such a function exists up to every n.
LEMMA XorRuns ==
  ASSUME Inductive
  PROVE  \A n \in Nat : \E g : XorRun(g, n)
<1> DEFINE T == {n \in Nat : \E g : XorRun(g, n)}
<1>1. 0 \in T
  <2>1. XorRun([a \in 0..0 |-> [b \in Word |-> b]], 0)
    BY DEF XorRun
  <2> QED
    BY <2>1
<1>2. ASSUME NEW n \in Nat, n \in T PROVE n + 1 \in T
  <2>1. PICK g : XorRun(g, n)
    BY <1>2
  <2> DEFINE h == [a \in 0..(n + 1) |->
                     IF a = n + 1
                     THEN [b \in Word |-> 2 * g[(n + 1) \div 2][b \div 2] + (((n + 1) + b) % 2)]
                     ELSE g[a]]
  <2>2. ASSUME NEW a \in 0..(n + 1)
        PROVE  h[a] = [b \in Word |-> IF a = 0 THEN b ELSE 2 * h[a \div 2][b \div 2] + ((a + b) % 2)]
    <3>1. a # 0 => a \div 2 \in 0..n
      BY Halves
    <3>2. a # 0 => h[a \div 2] = g[a \div 2]
      BY <3>1
    <3>3. h[a] = [b \in Word |-> IF a = 0 THEN b ELSE 2 * g[a \div 2][b \div 2] + ((a + b) % 2)]
      <4>1. CASE a = n + 1
        BY <4>1
      <4>2. CASE a \in 0..n
        <5>1. h[a] = g[a]
          BY <4>2
        <5>2. g[a] = [b \in Word |-> IF a = 0 THEN b ELSE 2 * g[a \div 2][b \div 2] + ((a + b) % 2)]
          BY <2>1, <4>2, Zenon DEF XorRun
        <5> HIDE DEF h
        <5> QED
          BY <5>1, <5>2
      <4> QED
        BY <4>1, <4>2
    <3> HIDE DEF h
    <3> QED
      BY <3>2, <3>3
  <2>3. XorRun(h, n + 1)
    BY <2>2, Zenon DEF XorRun
  <2> QED
    BY <2>3
<1>3. Nat \subseteq T
  BY <1>1, <1>2, NatSet, Zenon
<1> QED
  BY <1>3

\* The equations of exclusive or.
LEMMA XorDef ==
  ASSUME Inductive, NEW a \in Word, NEW b \in Word
  PROVE  Xor[a][b] = IF a = 0 THEN b ELSE 2 * Xor[a \div 2][b \div 2] + ((a + b) % 2)
<1>1. PICK n \in Nat : n = Radix * Radix - 1
  BY WordType
<1>2. Word = 0..n
  BY <1>1 DEF Word
<1>3. XorRun(Xor, n)
  <2>1. \E g : XorRun(g, n)
    BY XorRuns
  <2> QED
    BY <1>2, <2>1, Zenon DEF Xor, XorRun
<1>4. PICK x : x = Xor
  OBVIOUS
<1>5. XorRun(x, n)
  BY <1>3, <1>4
<1>6. x[a] = [c \in Word |-> IF a = 0 THEN c ELSE 2 * x[a \div 2][c \div 2] + ((a + c) % 2)]
  BY <1>2, <1>5, Zenon DEF XorRun
<1>7. x[a][b] = IF a = 0 THEN b ELSE 2 * x[a \div 2][b \div 2] + ((a + b) % 2)
  BY <1>6
<1> QED
  BY <1>4, <1>7

\* A quotient and a remainder that fit are the ones.
LEMMA DivUnique ==
  ASSUME NEW d \in Nat \ {0}, NEW q \in Nat, NEW r \in 0..(d - 1), NEW a, a = d * q + r
  PROVE  a \in Nat /\ a \div d = q /\ a % d = r
<1>0. a \in Nat
  OBVIOUS
<1>1. PICK k \in Nat, m \in 0..(d - 1) : k = a \div d /\ m = a % d /\ a = d * k + m
  BY <1>0, DivMod
<1>2. ~(k < q)
  <2> SUFFICES ASSUME k < q PROVE FALSE
    OBVIOUS
  <2>1. d * k + d <= d * q
    BY Mono
  <2> QED
    BY <1>1, <2>1
<1>3. ~(q < k)
  <2> SUFFICES ASSUME q < k PROVE FALSE
    OBVIOUS
  <2>1. d * q + d <= d * k
    BY Mono
  <2> QED
    BY <1>1, <2>1
<1>4. k = q
  BY <1>2, <1>3
<1> QED
  BY <1>0, <1>1, <1>4

\* Induction over the powers of two up to a word, for a set.
LEMMA PowerSet ==
  ASSUME Inductive, NEW T, 1 \in T, \A n \in Nat \ {0} : n \in T => 2 * n \in T
  PROVE  \A k \in 0..ByteBits : TwoTo[k] \in T /\ TwoTo[k] * Radix \in T
<1>1. ByteBits \in Nat
  BY CodecConstants
<1> DEFINE U == {k \in Nat : k <= ByteBits => TwoTo[k] \in T}
           V == {k \in Nat : k <= ByteBits => TwoTo[k] * Radix \in T}
<1>2. 0 \in U
  BY TwoToSteps
<1>3. ASSUME NEW k \in Nat, k \in U PROVE k + 1 \in U
  <2> SUFFICES ASSUME k + 1 <= ByteBits PROVE TwoTo[k + 1] \in T
    OBVIOUS
  <2>1. k \in 0..(ByteBits - 1) /\ k \in 0..ByteBits
    BY <1>1
  <2>2. TwoTo[k + 1] = 2 * TwoTo[k] /\ TwoTo[k] \in Nat \ {0}
    BY <2>1, TwoToSteps
  <2>3. TwoTo[k] \in T
    BY <1>3, <2>1
  <2> QED
    BY <2>2, <2>3
<1>4. Nat \subseteq U
  BY <1>2, <1>3, NatSet, Zenon
<1>5. Radix \in T /\ Radix \in Nat \ {0}
  BY <1>1, <1>4, RadixType DEF Radix
<1>6. 0 \in V
  <2>1. TwoTo[0] * Radix = Radix
    BY <1>5, TwoToSteps
  <2> QED
    BY <1>5, <2>1
<1>7. ASSUME NEW k \in Nat, k \in V PROVE k + 1 \in V
  <2> SUFFICES ASSUME k + 1 <= ByteBits PROVE TwoTo[k + 1] * Radix \in T
    OBVIOUS
  <2>1. k \in 0..(ByteBits - 1) /\ k \in 0..ByteBits
    BY <1>1
  <2>2. TwoTo[k + 1] = 2 * TwoTo[k] /\ TwoTo[k] \in Nat \ {0}
    BY <2>1, TwoToSteps
  <2>3. PICK p \in Nat \ {0}, r \in Nat \ {0} : p = TwoTo[k] /\ r = Radix
    BY <1>5, <2>2
  <2>4. p * r \in T
    BY <1>7, <2>1, <2>3
  <2>5. (2 * p) * r = 2 * (p * r) /\ p * r \in Nat \ {0}
    OBVIOUS
  <2> QED
    BY <2>2, <2>3, <2>4, <2>5
<1>8. Nat \subseteq V
  BY <1>6, <1>7, NatSet, Zenon
<1> QED
  BY <1>1, <1>4, <1>8

\* A word is a pair of bytes.
LEMMA WordIsBytes == Radix * Radix = TwoTo[ByteBits] * Radix /\ ByteBits \in 0..ByteBits
  BY CodecConstants DEF Radix

\* The lowest bit and the bits above it, and zero.
LEMMA XorEq ==
  ASSUME Inductive, NEW a \in Word, NEW b \in Word
  PROVE  /\ Xor[0][b] = b
         /\ Xor[a][b] = 2 * Xor[a \div 2][b \div 2] + ((a + b) % 2)
<1>1. 0 \in Word /\ a \div 2 \in Word /\ b \div 2 \in Word /\ a \in Nat /\ b \in Nat
  BY WordType
<1>2. \A c \in Word : Xor[0][c] = c
  BY <1>1, XorDef
<1>3. CASE a = 0
  <2>1. a \div 2 = 0 /\ (a + b) % 2 = b % 2
    BY <1>1, <1>3
  <2>2. b = 2 * (b \div 2) + (b % 2)
    BY <1>1, Halves
  <2> QED
    BY <1>1, <1>2, <1>3, <2>1, <2>2
<1>4. CASE a # 0
  BY <1>2, <1>4, XorDef
<1> QED
  BY <1>3, <1>4

\* Exclusive or of numbers below a power of two is below it.
LEMMA XorBelow ==
  ASSUME Inductive
  PROVE  \A k \in 0..ByteBits : \A n \in {TwoTo[k], TwoTo[k] * Radix} : \A a, b \in Word :
           a < n /\ b < n => Xor[a][b] \in Nat /\ Xor[a][b] < n
<1> DEFINE T == {n \in Nat : \A a, b \in Word : a < n /\ b < n => Xor[a][b] \in Nat /\ Xor[a][b] < n}
<1>1. 1 \in T
  <2> SUFFICES ASSUME NEW a \in Word, NEW b \in Word, a < 1, b < 1
               PROVE  Xor[a][b] \in Nat /\ Xor[a][b] < 1
    OBVIOUS
  <2>0. a \in Nat /\ b \in Nat
    BY WordType
  <2>1. a = 0 /\ b = 0
    BY <2>0
  <2> QED
    BY <2>1, XorEq
<1>2. ASSUME NEW n \in Nat \ {0}, n \in T PROVE 2 * n \in T
  <2> SUFFICES ASSUME NEW a \in Word, NEW b \in Word, a < 2 * n, b < 2 * n
               PROVE  Xor[a][b] \in Nat /\ Xor[a][b] < 2 * n
    OBVIOUS
  <2>1. a \in Nat /\ b \in Nat /\ a \div 2 \in Word /\ b \div 2 \in Word
    BY WordType
  <2>2. a \div 2 < n /\ b \div 2 < n
    BY <2>1
  <2>3. Xor[a \div 2][b \div 2] \in Nat /\ Xor[a \div 2][b \div 2] < n
    BY <1>2, <2>1, <2>2
  <2>4. (a + b) % 2 \in {0, 1}
    BY <2>1
  <2>5. Xor[a][b] = 2 * Xor[a \div 2][b \div 2] + ((a + b) % 2)
    BY XorEq
  <2> QED
    BY <2>3, <2>4, <2>5
<1>3. \A k \in 0..ByteBits : TwoTo[k] \in T /\ TwoTo[k] * Radix \in T
  <2> HIDE DEF T
  <2> QED
    BY <1>1, <1>2, PowerSet
<1> QED
  BY <1>3

\* Words stay words.
LEMMA XorType ==
  ASSUME Inductive, NEW a \in Word, NEW b \in Word
  PROVE  Xor[a][b] \in Word
<1>1. PICK n \in Nat : n = Radix * Radix
  BY WordType
<1>2. a < n /\ b < n
  BY <1>1, WordType
<1>3. n \in {TwoTo[ByteBits], TwoTo[ByteBits] * Radix} /\ ByteBits \in 0..ByteBits
  BY <1>1, WordIsBytes
<1>4. Xor[a][b] \in Nat /\ Xor[a][b] < n
  BY <1>2, <1>3, XorBelow
<1> QED
  BY <1>1, <1>4, WordType

\* The simple laws: exclusive or with nothing, with itself, and twice.
LEMMA XorLaws ==
  ASSUME Inductive, NEW a \in Word, NEW b \in Word
  PROVE  Xor[a][0] = a /\ Xor[a][a] = 0 /\ Xor[Xor[a][b]][b] = a
<1> DEFINE T == {x \in Nat : x \in Word =>
                   /\ Xor[x][0] = x /\ Xor[x][x] = 0
                   /\ \A y \in Word : Xor[Xor[x][y]][y] = x}
<1>0. 0 \in Word /\ 0 \div 2 = 0
  BY WordType
<1> DEFINE U == {y \in Nat : y \in Word => Xor[y][y] = 0}
<1>u. ASSUME NEW y \in Nat \ {0}, y \div 2 \in U PROVE y \in U
  <2> SUFFICES ASSUME y \in Word PROVE Xor[y][y] = 0
    OBVIOUS
  <2>1. y \div 2 \in Word /\ Xor[y \div 2][y \div 2] = 0
    BY <1>u, WordType
  <2>2. Xor[y][y] = 2 * Xor[y \div 2][y \div 2] + ((y + y) % 2)
    BY XorEq
  <2> QED
    BY <2>1, <2>2
<1>v. 0 \in U
  BY <1>0, XorEq
<1>w. Nat \subseteq U
  <2> HIDE DEF U
  <2> QED
    BY <1>u, <1>v, HalfSet
<1>x. \A y \in Word : y \in Nat /\ Xor[y][y] = 0
  BY <1>w, WordType, Zenon
<1>1. 0 \in T
  BY <1>0, <1>x, XorEq, Zenon
<1>2. ASSUME NEW x \in Nat \ {0}, x \div 2 \in T PROVE x \in T
  <2> SUFFICES ASSUME x \in Word PROVE Xor[x][0] = x /\ \A y \in Word : Xor[Xor[x][y]][y] = x
    BY <1>x
  <2>1. PICK h : h = x \div 2
    OBVIOUS
  <2>2. h \in Nat /\ h \in Word /\ x = 2 * h + (x % 2) /\ x % 2 \in {0, 1}
    BY <2>1, WordType, Halves
  <2>3. Xor[h][0] = h /\ \A y \in Word : Xor[Xor[h][y]][y] = h
    BY <1>2, <2>1, <2>2
  <2>4. Xor[x][0] = 2 * Xor[h][0] + ((x + 0) % 2)
    BY <1>0, <2>1, XorEq
  <2>5. ASSUME NEW y \in Word PROVE Xor[Xor[x][y]][y] = x
    <3>1. PICK g : g = y \div 2
      OBVIOUS
    <3>2. g \in Word /\ y \in Nat
      BY <3>1, WordType
    <3>3. Xor[x][y] \in Word /\ Xor[h][g] \in Word /\ Xor[h][g] \in Nat
      BY <2>2, <3>2, XorType, WordType, Zenon
    <3>4. PICK z : z = Xor[x][y]
      OBVIOUS
    <3>5. PICK w : w = Xor[h][g]
      OBVIOUS
    <3>6. z = 2 * w + ((x + y) % 2)
      BY <2>1, <3>1, <3>4, <3>5, XorEq
    <3>7. z \div 2 = w /\ (z + y) % 2 = x % 2
      BY <2>2, <3>2, <3>3, <3>5, <3>6
    <3>8. Xor[z][y] = 2 * Xor[w][g] + ((z + y) % 2)
      BY <3>1, <3>3, <3>4, <3>7, XorEq, Zenon
    <3> QED
      BY <2>2, <2>3, <3>2, <3>4, <3>5, <3>7, <3>8
  <2> QED
    BY <2>2, <2>3, <2>4, <2>5
<1>3. Nat \subseteq T
  <2> HIDE DEF T
  <2> QED
    BY <1>1, <1>2, HalfSet
<1>4. a \in Nat
  BY WordType
<1> QED
  BY <1>3, <1>4, Zenon

\* The order of two foldings does not matter.
LEMMA XorSwap ==
  ASSUME Inductive, NEW a \in Word, NEW b \in Word, NEW c \in Word
  PROVE  Xor[Xor[a][b]][c] = Xor[Xor[a][c]][b]
<1> DEFINE T == {x \in Nat : x \in Word =>
                   \A y, z \in Word : Xor[Xor[y][x]][z] = Xor[Xor[y][z]][x]}
<1>1. 0 \in T
  <2> SUFFICES ASSUME NEW y \in Word, NEW z \in Word
               PROVE  Xor[Xor[y][0]][z] = Xor[Xor[y][z]][0]
    OBVIOUS
  <2>1. Xor[y][z] \in Word
    BY XorType
  <2> QED
    BY <2>1, XorLaws
<1>2. ASSUME NEW x \in Nat \ {0}, x \div 2 \in T PROVE x \in T
  <2> SUFFICES ASSUME x \in Word, NEW y \in Word, NEW z \in Word
               PROVE  Xor[Xor[y][x]][z] = Xor[Xor[y][z]][x]
    OBVIOUS
  <2>1. PICK h, i, j : h = x \div 2 /\ i = y \div 2 /\ j = z \div 2
    OBVIOUS
  <2>2. h \in Word /\ i \in Word /\ j \in Word /\ x \in Nat /\ y \in Nat /\ z \in Nat
    BY <2>1, WordType
  <2>3. Xor[Xor[i][h]][j] = Xor[Xor[i][j]][h]
    BY <1>2, <2>1, <2>2
  <2>4. PICK u, v, r, s : u = Xor[i][h] /\ v = Xor[i][j] /\ r = Xor[y][x] /\ s = Xor[y][z]
    OBVIOUS
  <2>5. u \in Nat /\ v \in Nat /\ r \in Word /\ s \in Word
    BY <2>2, <2>4, XorType, WordType, Zenon
  <2>6. r = 2 * u + ((y + x) % 2) /\ s = 2 * v + ((y + z) % 2)
    BY <2>1, <2>4, XorEq, Zenon
  <2>7. r \div 2 = u /\ s \div 2 = v /\ (r + z) % 2 = (s + x) % 2
    BY <2>2, <2>5, <2>6
  <2>8. Xor[r][z] = 2 * Xor[u][j] + ((r + z) % 2)
    BY <2>1, <2>5, <2>7, XorEq
  <2>9. Xor[s][x] = 2 * Xor[v][h] + ((s + x) % 2)
    BY <2>1, <2>5, <2>7, XorEq, Zenon
  <2> QED
    BY <2>3, <2>4, <2>7, <2>8, <2>9
<1>3. Nat \subseteq T
  <2> HIDE DEF T
  <2> QED
    BY <1>1, <1>2, HalfSet
<1>4. b \in Nat
  BY WordType
<1> QED
  BY <1>3, <1>4

\* The quotient and the remainder by twice a number.
LEMMA Twice ==
  ASSUME NEW a \in Nat, NEW n \in Nat \ {0}
  PROVE  /\ a \div (2 * n) = (a \div 2) \div n
         /\ a % (2 * n) = 2 * ((a \div 2) % n) + (a % 2)
<1>1. PICK h, r : h = a \div 2 /\ r = a % 2
  OBVIOUS
<1>2. h \in Nat /\ r \in {0, 1} /\ a = 2 * h + r
  BY <1>1
<1>3. PICK q, s : q = h \div n /\ s = h % n
  OBVIOUS
<1>4. q \in Nat /\ s \in 0..(n - 1) /\ h = n * q + s
  BY <1>2, <1>3, DivMod, Zenon
<1>5. PICK d \in Nat \ {0} : d = 2 * n
  OBVIOUS
<1>6. 2 * (n * q) = (2 * n) * q
  BY <1>4
<1>7. PICK t : t = 2 * s + r
  OBVIOUS
<1>8. t \in 0..(d - 1) /\ a = d * q + t
  BY <1>2, <1>4, <1>5, <1>6, <1>7
<1>9. a \div d = q /\ a % d = t
  BY <1>4, <1>8, DivUnique
<1> QED
  BY <1>1, <1>3, <1>5, <1>7, <1>9

\* Parts of a word are words.
LEMMA PartType ==
  ASSUME Inductive, NEW a \in Word, NEW n \in Nat \ {0}
  PROVE  a \div n \in Word /\ a % n \in Word /\ a \in Nat
<1>1. a \in Nat /\ a < Radix * Radix /\ Radix * Radix \in Nat
  BY WordType
<1>2. PICK q, r : q = a \div n /\ r = a % n
  OBVIOUS
<1>3. q \in Nat /\ r \in 0..(n - 1) /\ a = n * q + r
  BY <1>1, <1>2, DivMod, Zenon
<1>4. q <= a /\ r <= a
  <2>1. PICK m \in Nat : n = m + 1
    BY n - 1 \in Nat, n = (n - 1) + 1
  <2>2. n * q = q + m * q /\ m * q \in Nat
    BY <1>3, <2>1
  <2> QED
    BY <1>3, <2>2
<1>5. q \in Word /\ r \in Word
  BY <1>1, <1>3, <1>4, WordType
<1> QED
  BY <1>1, <1>2, <1>5

\* Exclusive or works on the digits above a power of two and on those below it
\* apart.
LEMMA XorDigits ==
  ASSUME Inductive
  PROVE  \A k \in 0..ByteBits : \A n \in {TwoTo[k], TwoTo[k] * Radix} : \A a, b \in Word :
           Xor[a][b] \div n = Xor[a \div n][b \div n] /\ Xor[a][b] % n = Xor[a % n][b % n]
<1> DEFINE T == {n \in Nat : \A a, b \in Word :
      Xor[a][b] \div n = Xor[a \div n][b \div n] /\ Xor[a][b] % n = Xor[a % n][b % n]}
<1>1. 1 \in T
  <2> SUFFICES ASSUME NEW a \in Word, NEW b \in Word
               PROVE  Xor[a][b] \div 1 = Xor[a \div 1][b \div 1] /\ Xor[a][b] % 1 = Xor[a % 1][b % 1]
    OBVIOUS
  <2>1. a \in Nat /\ b \in Nat /\ Xor[a][b] \in Nat /\ 0 \in Word
    BY WordType, XorType
  <2>2. a \div 1 = a /\ b \div 1 = b /\ a % 1 = 0 /\ b % 1 = 0
    BY <2>1
  <2>3. Xor[a][b] \div 1 = Xor[a][b] /\ Xor[a][b] % 1 = 0
    BY <2>1
  <2>4. Xor[0][0] = 0
    BY <2>1, XorEq
  <2> QED
    BY <2>2, <2>3, <2>4
<1>2. ASSUME NEW n \in Nat \ {0}, n \in T PROVE 2 * n \in T
  <2> SUFFICES ASSUME NEW a \in Word, NEW b \in Word
               PROVE  /\ Xor[a][b] \div (2 * n) = Xor[a \div (2 * n)][b \div (2 * n)]
                      /\ Xor[a][b] % (2 * n) = Xor[a % (2 * n)][b % (2 * n)]
    OBVIOUS
  <2>1. PICK h, g, z, w : h = a \div 2 /\ g = b \div 2 /\ z = Xor[a][b] /\ w = Xor[h][g]
    OBVIOUS
  <2>2. h \in Word /\ g \in Word /\ a \in Nat /\ b \in Nat /\ z \in Word /\ w \in Nat /\ z \in Nat
    BY <2>1, WordType, XorType
  <2>3. z = 2 * w + ((a + b) % 2)
    BY <2>1, XorEq
  <2>4. z \div 2 = w /\ z % 2 = (a + b) % 2
    BY <2>2, <2>3
  <2>5. w \div n = Xor[h \div n][g \div n] /\ w % n = Xor[h % n][g % n]
    BY <1>2, <2>1, <2>2
  <2>6. z \div (2 * n) = w \div n /\ a \div (2 * n) = h \div n /\ b \div (2 * n) = g \div n
    BY <2>1, <2>2, <2>4, Twice, Zenon
  <2>7. PICK x, y : x = a % (2 * n) /\ y = b % (2 * n)
    OBVIOUS
  <2>8. PICK i, j : i = h % n /\ j = g % n
    OBVIOUS
  <2>9. i \in Word /\ j \in Word /\ i \in Nat /\ j \in Nat
    BY <2>2, <2>8, PartType, WordType, Zenon
  <2>10. x = 2 * i + (a % 2) /\ y = 2 * j + (b % 2) /\ z % (2 * n) = 2 * (w % n) + (z % 2)
    BY <2>1, <2>2, <2>4, <2>7, <2>8, Twice, Zenon
  <2>11. PICK m \in Nat \ {0} : m = 2 * n
    OBVIOUS
  <2>12. x \in Word /\ y \in Word
    BY <2>7, <2>11, PartType
  <2>13. x \div 2 = i /\ y \div 2 = j /\ (x + y) % 2 = (a + b) % 2
    BY <2>2, <2>9, <2>10
  <2>14. Xor[x][y] = 2 * Xor[i][j] + ((x + y) % 2)
    BY <2>12, <2>13, XorEq
  <2>15. z % (2 * n) = Xor[x][y]
    BY <2>4, <2>5, <2>8, <2>10, <2>13, <2>14
  <2> QED
    BY <2>1, <2>5, <2>6, <2>7, <2>15
<1>3. \A k \in 0..ByteBits : TwoTo[k] \in T /\ TwoTo[k] * Radix \in T
  <2> HIDE DEF T
  <2> QED
    BY <1>1, <1>2, PowerSet
<1> QED
  BY <1>3

\* Exclusive or works on the two bytes of a word apart.
LEMMA XorBytes ==
  ASSUME Inductive, NEW a \in Word, NEW b \in Word
  PROVE  /\ Xor[a][b] \div Radix = Xor[a \div Radix][b \div Radix]
         /\ Xor[a][b] % Radix = Xor[a % Radix][b % Radix]
<1>1. Radix \in {TwoTo[ByteBits], TwoTo[ByteBits] * Radix} /\ ByteBits \in 0..ByteBits
  BY CodecConstants DEF Radix
<1> QED
  BY <1>1, XorDigits

\* g is n rounds from the checksum c.
RoundsRun(g, c, n) == g = [i \in 0..n |-> IF i = 0 THEN c ELSE Shift(g[i - 1])]

\* The rounds exist.
LEMMA RoundsRuns ==
  ASSUME Inductive, NEW c
  PROVE  \A n \in Nat : \E g : RoundsRun(g, c, n)
<1> DEFINE T == {n \in Nat : \E g : RoundsRun(g, c, n)}
<1>1. 0 \in T
  <2>1. RoundsRun([i \in 0..0 |-> c], c, 0)
    BY DEF RoundsRun
  <2> QED
    BY <2>1
<1>2. ASSUME NEW n \in Nat, n \in T PROVE n + 1 \in T
  <2>1. PICK g : RoundsRun(g, c, n)
    BY <1>2
  <2> DEFINE h == [i \in 0..(n + 1) |-> IF i = n + 1 THEN Shift(g[n]) ELSE g[i]]
  <2>2. ASSUME NEW i \in 0..(n + 1)
        PROVE  h[i] = IF i = 0 THEN c ELSE Shift(h[i - 1])
    <3>1. CASE i = n + 1
      BY <3>1
    <3>2. CASE i \in 0..n
      BY <2>1, <3>2 DEF RoundsRun
    <3> QED
      BY <3>1, <3>2
  <2>3. RoundsRun(h, c, n + 1)
    BY <2>2 DEF RoundsRun
  <2> QED
    BY <2>3
<1>3. Nat \subseteq T
  BY <1>1, <1>2, NatSet, Zenon
<1> QED
  BY <1>3

\* Rounds() is ByteBits times Shift().
LEMMA RoundsSteps ==
  ASSUME Inductive, NEW c
  PROVE  \E g : /\ g[0] = c /\ Rounds(c) = g[ByteBits]
                /\ \A i \in 0..(ByteBits - 1) : g[i + 1] = Shift(g[i])
<1>0. ByteBits \in Nat
  BY CodecConstants
<1>1. PICK g : g = CHOOSE f : RoundsRun(f, c, ByteBits)
  OBVIOUS
<1>2. \E f : RoundsRun(f, c, ByteBits)
  BY <1>0, RoundsRuns
<1>3. RoundsRun(g, c, ByteBits)
  BY <1>1, <1>2
<1>4. Rounds(c) = g[ByteBits]
  BY <1>1 DEF Rounds, RoundsRun
<1>5. g[0] = c
  BY <1>0, <1>3 DEF RoundsRun
<1>6. ASSUME NEW i \in 0..(ByteBits - 1) PROVE g[i + 1] = Shift(g[i])
  <2>1. i + 1 \in 0..ByteBits /\ i + 1 # 0 /\ (i + 1) - 1 = i
    BY <1>0
  <2> QED
    BY <1>3, <2>1, Zenon DEF RoundsRun
<1> QED
  BY <1>4, <1>5, <1>6

\* What Shift() does, by the top bit.
LEMMA ShiftDef ==
  ASSUME Inductive, NEW c \in Word
  PROVE  /\ Shift(c) \in Word
         /\ 2 * c < Radix * Radix => 2 * c \in Word /\ Shift(c) = 2 * c
         /\ 2 * c >= Radix * Radix =>
              2 * c - Radix * Radix \in Word /\ Shift(c) = Xor[2 * c - Radix * Radix][kCrc16Poly]
<1>1. PICK n : n = Radix * Radix
  OBVIOUS
<1>2. n \in Nat /\ c \in Nat /\ c < n
  BY <1>1, WordType
<1>3. ASSUME 2 * c < n PROVE 2 * c \in Word /\ Shift(c) = 2 * c
  BY <1>1, <1>2, <1>3, WordType DEF Shift
<1>4. ASSUME 2 * c >= n PROVE 2 * c - n \in Word /\ Shift(c) = Xor[2 * c - n][kCrc16Poly]
  <2>1. 2 * c - n \in Nat /\ 2 * c - n < n
    BY <1>2, <1>4
  <2> QED
    BY <1>1, <1>4, <2>1, WordType DEF Shift
<1>5. Shift(c) \in Word
  <2>1. CASE 2 * c < n
    BY <1>3, <2>1
  <2>2. CASE 2 * c >= n
    BY <1>4, <2>2, XorType, CodecConstants
  <2> QED
    BY <1>2, <2>1, <2>2
<1> QED
  BY <1>1, <1>3, <1>4, <1>5

\* A word has an even number of values, half of them in the lower half.
LEMMA TopBit ==
  ASSUME Inductive
  PROVE  \E h \in Nat \ {0} : /\ Radix * Radix = 2 * h
                              /\ \A a, b \in Word : /\ Xor[a][b] \div h = Xor[a \div h][b \div h]
                                                    /\ Xor[a][b] % h = Xor[a % h][b % h]
<1>1. PICK k : k = ByteBits - 1
  OBVIOUS
<1>2. k \in 0..ByteBits /\ k \in 0..(ByteBits - 1) /\ k + 1 = ByteBits
  BY <1>1, CodecConstants
<1>3. TwoTo[k + 1] = 2 * TwoTo[k] /\ TwoTo[k] \in Nat \ {0} /\ Radix \in Nat \ {0}
  BY <1>2, TwoToSteps, RadixType
<1>4. PICK p \in Nat \ {0}, r \in Nat \ {0} : p = TwoTo[k] /\ r = Radix
  BY <1>3
<1>5. r = 2 * p
  BY <1>2, <1>3, <1>4 DEF Radix
<1>6. r * r = 2 * (p * r) /\ p * r \in Nat \ {0}
  BY <1>5
<1>7. p * r \in {TwoTo[k], TwoTo[k] * Radix}
  BY <1>4
<1> QED
  BY <1>2, <1>4, <1>6, <1>7, XorDigits

\* Exclusive or with one word loses nothing.
LEMMA XorInjective ==
  ASSUME Inductive, NEW a \in Word, NEW b \in Word, NEW p \in Word, Xor[a][p] = Xor[b][p]
  PROVE  a = b
<1>1. Xor[Xor[a][p]][p] = a /\ Xor[Xor[b][p]][p] = b
  BY XorLaws
<1> QED
  BY <1>1

\* Xor with a word can be undone.
LEMMA XorCancel ==
  ASSUME Inductive, NEW a \in Word, NEW b \in Word, NEW p \in Word, Xor[p][a] = Xor[p][b]
  PROVE  a = b
<1>0. 0 \in Word
  BY WordType
<1>1. Xor[Xor[0][p]][a] = Xor[Xor[0][a]][p] /\ Xor[Xor[0][p]][b] = Xor[Xor[0][b]][p]
  BY <1>0, XorSwap
<1>2. Xor[0][p] = p /\ Xor[0][a] = a /\ Xor[0][b] = b
  BY XorEq
<1> QED
  BY <1>1, <1>2, XorInjective

\* A round loses nothing: the lowest bit tells whether the polynomial was
\* folded in.
LEMMA ShiftInjective ==
  ASSUME Inductive, NEW c \in Word, NEW d \in Word, Shift(c) = Shift(d)
  PROVE  c = d
<1>1. PICK h \in Nat \ {0} : Radix * Radix = 2 * h
  BY TopBit
<1>2. PICK n : n = Radix * Radix
  OBVIOUS
<1>3. n = 2 * h /\ n \in Nat /\ c \in Nat /\ d \in Nat
  BY <1>1, <1>2, WordType
<1>4. ASSUME NEW x \in Word PROVE /\ 2 * x < n => Shift(x) % 2 = 0
                                  /\ 2 * x >= n => Shift(x) % 2 = 1
  <2>1. x \in Nat
    BY WordType
  <2>2. ASSUME 2 * x < n PROVE Shift(x) % 2 = 0
    <3>1. Shift(x) = 2 * x
      BY <1>2, <2>2, ShiftDef
    <3> QED
      BY <2>1, <3>1
  <2>3. ASSUME 2 * x >= n PROVE Shift(x) % 2 = 1
    <3>1. PICK y, p : y = 2 * x - n /\ p = kCrc16Poly
      OBVIOUS
    <3>2. y \in Word /\ p \in Word /\ Shift(x) = Xor[y][p] /\ p % 2 = 1
      BY <1>2, <2>3, <3>1, ShiftDef, CodecConstants
    <3>3. Xor[y][p] = 2 * Xor[y \div 2][p \div 2] + ((y + p) % 2)
      BY <3>2, XorEq
    <3>4. y \div 2 \in Word /\ p \div 2 \in Word /\ p \in Nat
      BY <3>2, WordType
    <3>5. Xor[y \div 2][p \div 2] \in Nat
      BY <3>4, XorType, WordType
    <3>6. (y + p) % 2 = 1
      BY <1>3, <2>1, <2>3, <3>1, <3>2, <3>4
    <3> QED
      BY <3>2, <3>3, <3>5, <3>6
  <2> QED
    BY <2>2, <2>3
<1>5. CASE 2 * c < n /\ 2 * d < n
  <2>1. Shift(c) = 2 * c /\ Shift(d) = 2 * d
    BY <1>2, <1>5, ShiftDef
  <2>2. 2 * c = 2 * d
    BY <2>1, Zenon
  <2> QED
    BY <1>3, <2>2
<1>6. CASE 2 * c >= n /\ 2 * d >= n
  <2>1. PICK x, y : x = 2 * c - n /\ y = 2 * d - n
    OBVIOUS
  <2>2. x \in Word /\ y \in Word /\ kCrc16Poly \in Word
    BY <1>2, <1>6, <2>1, ShiftDef, CodecConstants
  <2>3. Xor[x][kCrc16Poly] = Xor[y][kCrc16Poly]
    BY <1>2, <1>6, <2>1, ShiftDef
  <2>4. x = y
    BY <2>2, <2>3, XorInjective
  <2> QED
    BY <1>3, <2>1, <2>4
<1>7. (2 * c < n) = (2 * d < n)
  BY <1>3, <1>4
<1> QED
  BY <1>3, <1>5, <1>6, <1>7

\* Bytes as the high and as the low half of a word.
LEMMA ByteWord ==
  ASSUME Inductive
  PROVE  /\ \A y \in Byte : /\ y \in Word /\ y \in Nat /\ y \div Radix = 0 /\ y % Radix = y
                            /\ y * Radix \in Word /\ (y * Radix) \div Radix = y /\ (y * Radix) % Radix = 0
         /\ \A c \in Word : c \div Radix \in Byte /\ c % Radix \in Byte
                            /\ c = Radix * (c \div Radix) + (c % Radix)
<1>1. PICK r \in Nat \ {0} : r = Radix /\ Byte = 0..(r - 1)
  BY RadixType DEF Byte
<1>2. r * r = Radix * Radix /\ r * r \in Nat
  BY <1>1
<1>3. ASSUME NEW y \in 0..(r - 1)
      PROVE  /\ y \in Word /\ y \in Nat /\ y \div r = 0 /\ y % r = y
             /\ y * r \in Word /\ (y * r) \div r = y /\ (y * r) % r = 0
  <2>1. y \in Nat /\ y = r * 0 + y /\ 0 \in 0..(r - 1) /\ y * r = r * y + 0 /\ y * r \in Nat
    OBVIOUS
  <2>2. y \div r = 0 /\ y % r = y
    BY <2>1, DivUnique
  <2>3. PICK z : z = y * r
    OBVIOUS
  <2>4. z \div r = y /\ z % r = 0
    BY <2>1, <2>3, DivUnique
  <2>5. r * y + r <= r * r
    BY <2>1, Mono
  <2>6. z < r * r /\ y < r * r /\ z \in Nat
    <3>1. r * y = y + (r - 1) * y /\ (r - 1) * y \in Nat
      <4>1. PICK m \in Nat : r = m + 1
        BY r - 1 \in Nat, r = (r - 1) + 1
      <4>2. r * y = y + m * y /\ m * y \in Nat /\ r - 1 = m
        BY <2>1, <4>1
      <4> QED
        BY <4>2
    <3> QED
      BY <1>2, <2>1, <2>3, <2>5, <3>1
  <2> QED
    BY <1>2, <2>1, <2>2, <2>3, <2>4, <2>6, WordType
<1>4. ASSUME NEW c \in Word
      PROVE  c \div r \in 0..(r - 1) /\ c % r \in 0..(r - 1) /\ c = r * (c \div r) + (c % r)
  <2>1. c \in Nat /\ c < r * r
    BY <1>2, WordType
  <2>2. PICK q, s : q = c \div r /\ s = c % r
    OBVIOUS
  <2>3. q \in Nat /\ s \in 0..(r - 1) /\ c = r * q + s
    BY <2>1, <2>2, DivMod, Zenon
  <2>4. q < r
    <3> SUFFICES ASSUME q >= r PROVE FALSE
      BY <2>3
    <3>1. CASE q = r
      BY <2>1, <2>3, <3>1
    <3>2. CASE r < q
      <4>1. r * r + r <= r * q
        BY <2>3, <3>2, Mono
      <4> QED
        BY <1>2, <2>1, <2>3, <4>1
    <3> QED
      BY <2>3, <3>1, <3>2
  <2> QED
    BY <2>2, <2>3, <2>4
<1> QED
  BY <1>1, <1>3, <1>4

\* No power of two of a byte's bits exceeds a byte's number of values.
LEMMA TwoToBound ==
  ASSUME Inductive
  PROVE  \A i \in 0..ByteBits : TwoTo[i] <= Radix
<1>0. ByteBits \in Nat
  BY CodecConstants
<1> DEFINE T == {j \in Nat : j <= ByteBits => TwoTo[ByteBits - j] <= Radix}
<1>1. 0 \in T
  <2>1. ByteBits - 0 = ByteBits /\ Radix \in Nat
    BY <1>0, RadixType
  <2> QED
    BY <2>1 DEF Radix
<1>2. ASSUME NEW j \in Nat, j \in T PROVE j + 1 \in T
  <2> SUFFICES ASSUME j + 1 <= ByteBits PROVE TwoTo[ByteBits - (j + 1)] <= Radix
    OBVIOUS
  <2>1. PICK k : k = ByteBits - (j + 1)
    OBVIOUS
  <2>2. k \in 0..(ByteBits - 1) /\ k \in 0..ByteBits /\ k + 1 = ByteBits - j /\ j <= ByteBits
    BY <1>0, <2>1
  <2>3. TwoTo[k + 1] = 2 * TwoTo[k] /\ TwoTo[k] \in Nat
    BY <2>2, TwoToSteps
  <2>4. TwoTo[k + 1] <= Radix
    BY <1>2, <2>2
  <2> QED
    BY <2>1, <2>3, <2>4, RadixType
<1>3. Nat \subseteq T
  <2> HIDE DEF T
  <2> QED
    BY <1>1, <1>2, NatSet
<1>4. ASSUME NEW i \in 0..ByteBits PROVE TwoTo[i] <= Radix
  <2>1. ByteBits - i \in Nat /\ ByteBits - i <= ByteBits /\ ByteBits - (ByteBits - i) = i
    BY <1>0
  <2> QED
    BY <1>3, <2>1
<1> QED
  BY <1>4

\* A round is linear in what does not reach the top bit.
LEMMA ShiftLinear ==
  ASSUME Inductive, NEW u \in Word, NEW t \in Word, 2 * t < Radix * Radix
  PROVE  Shift(Xor[u][t]) = Xor[Shift(u)][2 * t]
<1>1. PICK h \in Nat \ {0} :
        /\ Radix * Radix = 2 * h
        /\ \A a, b \in Word : /\ Xor[a][b] \div h = Xor[a \div h][b \div h]
                              /\ Xor[a][b] % h = Xor[a % h][b % h]
  BY TopBit
<1>2. u \in Nat /\ t \in Nat /\ u < 2 * h /\ t < h
  <2>1. u \in Nat /\ t \in Nat /\ u < Radix * Radix
    BY WordType
  <2>2. u < 2 * h /\ 2 * t < 2 * h
    BY <1>1, <2>1
  <2> QED
    BY <2>1, <2>2
<1>3. PICK q, w, z, v : q = u \div h /\ w = u % h /\ z = Xor[u][t] /\ v = Xor[w][t]
  OBVIOUS
<1>4. q \in Nat /\ w \in 0..(h - 1) /\ u = h * q + w /\ w \in Word /\ q \in Word
  BY <1>2, <1>3, DivMod, PartType, Zenon
<1>5. t \div h = 0 /\ t % h = t
  <2>1. PICK k \in Nat : k = 0
    OBVIOUS
  <2>2. PICK e \in 0..(h - 1) : e = t
    BY <1>2
  <2>3. t = h * k + e
    BY <1>2, <2>1, <2>2
  <2>4. t \div h = k /\ t % h = e
    BY <2>3, DivUnique, Zenon
  <2> QED
    BY <2>1, <2>2, <2>4
<1>6. z \in Word /\ z \in Nat /\ v \in Word /\ v \in Nat
  BY <1>3, <1>4, XorType, WordType, Zenon
<1>7. z \div h = q /\ z % h = v
  <2>1. z \div h = Xor[q][0] /\ z % h = Xor[w][t]
    BY <1>1, <1>3, <1>5
  <2>2. Xor[q][0] = q
    BY <1>4, XorLaws
  <2> QED
    BY <1>3, <2>1, <2>2
<1>8. z = h * q + v /\ v \in 0..(h - 1)
  BY <1>6, <1>7, DivMod
<1>9. q = 0 \/ q = 1
  <2> SUFFICES ASSUME 1 < q PROVE FALSE
    BY <1>4
  <2>1. h * 1 + h <= h * q
    BY <1>4, Mono
  <2> QED
    BY <1>2, <1>4, <2>1
<1>10. PICK x, y : x = 2 * w /\ y = 2 * t
  OBVIOUS
<1>11. x \in Nat /\ x < 2 * h /\ y \in Nat /\ y < 2 * h /\ x \div 2 = w /\ y \div 2 = t /\ (x + y) % 2 = 0
  BY <1>2, <1>4, <1>10
<1>12. x \in Word /\ y \in Word
  BY <1>1, <1>11, WordType
<1>13. Xor[x][y] = 2 * v
  <2>1. Xor[x][y] = 2 * Xor[x \div 2][y \div 2] + ((x + y) % 2)
    BY <1>12, XorEq
  <2> QED
    BY <1>3, <1>6, <1>11, <2>1
<1>14. CASE q = 0
  <2>1. u = w /\ z = v
    BY <1>4, <1>8, <1>14
  <2>2. 2 * u < Radix * Radix /\ 2 * z < Radix * Radix
    BY <1>1, <1>4, <1>8, <2>1
  <2>3. Shift(u) = 2 * u /\ Shift(z) = 2 * z
    BY <1>6, <2>2, ShiftDef
  <2> QED
    BY <1>3, <1>10, <1>13, <2>1, <2>3
<1>15. CASE q = 1
  <2>1. u = h + w /\ z = h + v
    BY <1>4, <1>8, <1>15
  <2>2. 2 * u >= 2 * h /\ 2 * u - 2 * h = x /\ 2 * z >= 2 * h /\ 2 * z - 2 * h = 2 * v
    BY <1>4, <1>8, <1>10, <2>1
  <2>3. Shift(u) = Xor[x][kCrc16Poly]
    BY <1>1, <2>2, ShiftDef
  <2>4. Shift(z) = Xor[2 * v][kCrc16Poly]
    <3>1. Shift(z) = Xor[2 * z - Radix * Radix][kCrc16Poly]
      BY <1>1, <1>6, <2>2, ShiftDef
    <3> QED
      BY <1>1, <2>2, <3>1
  <2>5. Xor[Xor[x][y]][kCrc16Poly] = Xor[Xor[x][kCrc16Poly]][y]
    BY <1>12, XorSwap, CodecConstants
  <2> QED
    BY <1>3, <1>10, <1>13, <2>3, <2>4, <2>5
<1> QED
  BY <1>9, <1>14, <1>15

\* The loop over the bits of a byte keeps a word a word, loses nothing, gives
\* nothing for nothing, and is linear in a byte in the low half.
LEMMA RoundsType ==
  ASSUME Inductive, NEW c \in Word
  PROVE  Rounds(c) \in Word
<1>1. PICK g : /\ g[0] = c /\ Rounds(c) = g[ByteBits]
               /\ \A i \in 0..(ByteBits - 1) : g[i + 1] = Shift(g[i])
  BY RoundsSteps
<1> DEFINE T == {i \in Nat : i <= ByteBits => g[i] \in Word}
<1>2. 0 \in T
  BY <1>1
<1>3. ASSUME NEW i \in Nat, i \in T PROVE i + 1 \in T
  BY <1>1, <1>3, ShiftDef, CodecConstants
<1>4. Nat \subseteq T
  BY <1>2, <1>3, NatSet, Zenon
<1> QED
  BY <1>1, <1>4, CodecConstants

\* The rounds of crc16_update() leave the zero register alone.
LEMMA RoundsZero ==
  ASSUME Inductive
  PROVE  Rounds(0) = 0
<1>1. PICK g : /\ g[0] = 0 /\ Rounds(0) = g[ByteBits]
               /\ \A i \in 0..(ByteBits - 1) : g[i + 1] = Shift(g[i])
  BY RoundsSteps
<1>2. Shift(0) = 0
  <2>1. 0 \in Word /\ 2 * 0 < Radix * Radix
    BY WordType
  <2> QED
    BY <2>1, ShiftDef
<1> DEFINE T == {i \in Nat : i <= ByteBits => g[i] = 0}
<1>3. 0 \in T
  BY <1>1
<1>4. ASSUME NEW i \in Nat, i \in T PROVE i + 1 \in T
  BY <1>1, <1>2, <1>4, CodecConstants
<1>5. Nat \subseteq T
  BY <1>3, <1>4, NatSet, Zenon
<1> QED
  BY <1>1, <1>5, CodecConstants

\* The rounds of crc16_update() lose nothing of the register.
LEMMA RoundsInjective ==
  ASSUME Inductive, NEW c \in Word, NEW d \in Word, Rounds(c) = Rounds(d)
  PROVE  c = d
<1>0. ByteBits \in Nat
  BY CodecConstants
<1>1. PICK g : /\ g[0] = c /\ Rounds(c) = g[ByteBits]
               /\ \A i \in 0..(ByteBits - 1) : g[i + 1] = Shift(g[i])
  BY RoundsSteps
<1>2. PICK f : /\ f[0] = d /\ Rounds(d) = f[ByteBits]
               /\ \A i \in 0..(ByteBits - 1) : f[i + 1] = Shift(f[i])
  BY RoundsSteps
<1> DEFINE T == {i \in Nat : i <= ByteBits =>
                   g[i] \in Word /\ f[i] \in Word /\ (g[i] = f[i] => c = d)}
<1>3. 0 \in T
  BY <1>1, <1>2
<1>4. ASSUME NEW i \in Nat, i \in T PROVE i + 1 \in T
  <2> SUFFICES ASSUME i + 1 <= ByteBits
               PROVE  g[i + 1] \in Word /\ f[i + 1] \in Word /\ (g[i + 1] = f[i + 1] => c = d)
    OBVIOUS
  <2>1. i \in 0..(ByteBits - 1) /\ i <= ByteBits
    BY <1>0
  <2>2. PICK x, y : x = g[i] /\ y = f[i]
    OBVIOUS
  <2>3. x \in Word /\ y \in Word /\ (x = y => c = d)
    BY <1>4, <2>1, <2>2
  <2>4. g[i + 1] = Shift(x) /\ f[i + 1] = Shift(y)
    BY <1>1, <1>2, <2>1, <2>2
  <2> QED
    BY <2>3, <2>4, ShiftDef, ShiftInjective
<1>5. Nat \subseteq T
  BY <1>3, <1>4, NatSet, Zenon
<1>6. g[ByteBits] = f[ByteBits] => c = d
  BY <1>0, <1>5
<1> QED
  BY <1>1, <1>2, <1>6, Zenon

\* A change in the low byte of the register is in the high byte after the
\* rounds of crc16_update(), and changes nothing else.
LEMMA RoundsLinear ==
  ASSUME Inductive, NEW u \in Word, NEW y \in Byte
  PROVE  Rounds(Xor[u][y]) = Xor[Rounds(u)][y * Radix]
<1>0. ByteBits \in Nat
  BY CodecConstants
<1>1. PICK g : /\ g[0] = u /\ Rounds(u) = g[ByteBits]
               /\ \A i \in 0..(ByteBits - 1) : g[i + 1] = Shift(g[i])
  BY RoundsSteps
<1>2. PICK c : c = Xor[u][y]
  OBVIOUS
<1>3. PICK f : /\ f[0] = c /\ Rounds(c) = f[ByteBits]
               /\ \A i \in 0..(ByteBits - 1) : f[i + 1] = Shift(f[i])
  BY RoundsSteps
<1>4. PICK r \in Nat \ {0} : r = Radix /\ y \in 0..(r - 1)
  BY RadixType DEF Byte
<1>5. ASSUME NEW i \in 0..ByteBits PROVE y * TwoTo[i] \in Word /\ y * TwoTo[i] < Radix * Radix
  <2>1. PICK p \in Nat \ {0} : p = TwoTo[i] /\ p <= r
    BY <1>4, TwoToSteps, TwoToBound
  <2>2. r * y + r <= r * r
    BY <1>4, Mono
  <2>3. y * p <= r * y
    <3>1. PICK m \in Nat : r = p + m
      BY <2>1, r - p \in Nat, r = p + (r - p)
    <3>2. r * y = y * p + m * y /\ m * y \in Nat /\ y * p \in Nat
      BY <1>4, <3>1
    <3> QED
      BY <3>2
  <2>4. y * p \in Nat /\ y * p < r * r
    BY <1>4, <2>2, <2>3
  <2> QED
    BY <1>4, <2>1, <2>4, WordType
<1> DEFINE T == {i \in Nat : i <= ByteBits => g[i] \in Word /\ f[i] = Xor[g[i]][y * TwoTo[i]]}
<1>6. 0 \in T
  <2>1. y * TwoTo[0] = y
    BY <1>4, TwoToSteps
  <2> QED
    BY <1>1, <1>2, <1>3, <2>1
<1>7. ASSUME NEW i \in Nat, i \in T PROVE i + 1 \in T
  <2> SUFFICES ASSUME i + 1 <= ByteBits
               PROVE  g[i + 1] \in Word /\ f[i + 1] = Xor[g[i + 1]][y * TwoTo[i + 1]]
    OBVIOUS
  <2>1. i \in 0..(ByteBits - 1) /\ i \in 0..ByteBits /\ i + 1 \in 0..ByteBits /\ i <= ByteBits
    BY <1>0
  <2>2. PICK v, t : v = g[i] /\ t = y * TwoTo[i]
    OBVIOUS
  <2>3. v \in Word /\ t \in Word /\ f[i] = Xor[v][t]
    BY <1>5, <1>7, <2>1, <2>2
  <2>4. y * TwoTo[i + 1] = 2 * t
    <3>1. TwoTo[i + 1] = 2 * TwoTo[i] /\ TwoTo[i] \in Nat
      BY <2>1, TwoToSteps
    <3>2. PICK p \in Nat : p = TwoTo[i]
      BY <3>1
    <3>3. y * (2 * p) = 2 * (y * p)
      BY <1>4
    <3> QED
      BY <2>2, <3>1, <3>2, <3>3
  <2>5. 2 * t < Radix * Radix
    BY <1>5, <2>1, <2>4
  <2>6. Shift(Xor[v][t]) = Xor[Shift(v)][2 * t] /\ Shift(v) \in Word
    BY <2>3, <2>5, ShiftLinear, ShiftDef
  <2>7. g[i + 1] = Shift(v) /\ f[i + 1] = Shift(Xor[v][t])
    BY <1>1, <1>3, <2>1, <2>2, <2>3
  <2> QED
    BY <2>4, <2>6, <2>7
<1>8. Nat \subseteq T
  BY <1>6, <1>7, NatSet, Zenon
<1>9. f[ByteBits] = Xor[g[ByteBits]][y * TwoTo[ByteBits]]
  BY <1>0, <1>8
<1> QED
  BY <1>1, <1>2, <1>3, <1>9 DEF Radix

\* A word has room for its bytes: crc16_update() with the high byte of a
\* checksum and then with its low byte gives zero.
LEMMA UpdateResidue ==
  ASSUME Inductive, NEW c \in Word
  PROVE  crc16_update(crc16_update(c, c \div Radix), c % Radix) = 0
<1>1. PICK hi, lo : hi = c \div Radix /\ lo = c % Radix
  OBVIOUS
<1>2. hi \in Byte /\ lo \in Byte
  BY <1>1, ByteWord
<1>3. PICK a, b : a = hi * Radix /\ b = lo * Radix
  OBVIOUS
<1>4. /\ a \in Word /\ a \div Radix = hi /\ a % Radix = 0
      /\ b \in Word /\ lo \in Word /\ hi \in Word /\ 0 \in Word
  BY <1>2, <1>3, ByteWord, WordType
<1>5. PICK z : z = Xor[c][a]
  OBVIOUS
<1>6. z \in Word
  BY <1>4, <1>5, XorType
<1>7. z \div Radix = 0 /\ z % Radix = lo
  <2>1. z \div Radix = Xor[hi][hi] /\ z % Radix = Xor[lo][0]
    BY <1>1, <1>4, <1>5, XorBytes
  <2> QED
    BY <1>4, <2>1, XorLaws
<1>8. z = lo
  <2>1. z = Radix * (z \div Radix) + (z % Radix)
    BY <1>6, ByteWord
  <2>2. Radix * 0 = 0 /\ lo \in Nat
    BY <1>2, RadixType, ByteWord
  <2> QED
    BY <1>7, <2>1, <2>2
<1>9. Rounds(lo) = b
  <2>1. Xor[0][lo] = lo /\ Xor[0][b] = b
    BY <1>4, XorEq
  <2>2. Rounds(Xor[0][lo]) = Xor[Rounds(0)][b]
    BY <1>2, <1>3, <1>4, RoundsLinear
  <2> QED
    BY <2>1, <2>2, RoundsZero
<1>10. crc16_update(c, hi) = b
  BY <1>3, <1>5, <1>8, <1>9 DEF crc16_update
<1>11. crc16_update(b, lo) = 0
  BY <1>3, <1>4, XorLaws, RoundsZero DEF crc16_update
<1> QED
  BY <1>1, <1>10, <1>11

\* A checksum is a word.
LEMMA UpdateType ==
  ASSUME Inductive, NEW c \in Word, NEW y \in Byte
  PROVE  crc16_update(c, y) \in Word
<1>1. y * Radix \in Word
  BY ByteWord
<1>2. Xor[c][y * Radix] \in Word
  BY <1>1, XorType
<1> QED
  BY <1>2, RoundsType DEF crc16_update

\* A CRC is a word of two bytes.
LEMMA crc16Type ==
  ASSUME Inductive
  PROVE  \A s \in Seq(Byte) : crc16(s) \in Word
<1> DEFINE T == {s \in Seq(Byte) : crc16(s) \in Word}
<1>1. <<>> \in T
  <2>1. PICK s \in Seq(Byte), e \in Byte : s = <<>>
    <3>1. 0 \in Byte /\ <<>> \in Seq(Byte)
      BY RadixType DEF Byte
    <3> QED
      BY <3>1, Zenon
  <2>2. crc16(<<>>) = kCrc16Init
    BY <2>1, crc16Steps, Zenon
  <2>3. kCrc16Init \in Word
    <3>1. PICK n : n = Radix * Radix
      OBVIOUS
    <3>2. n \in Nat /\ n >= 16
      BY <3>1, WordType
    <3>3. n - 1 \in Nat /\ n - 1 < n
      BY <3>2
    <3> QED
      BY <3>1, <3>3, WordType DEF kCrc16Init
  <2> QED
    BY <2>2, <2>3
<1>2. ASSUME NEW s \in T, NEW e \in Byte PROVE Append(s, e) \in T
  <2>1. s \in Seq(Byte) /\ crc16(s) \in Word
    OBVIOUS
  <2>2. crc16(Append(s, e)) = crc16_update(crc16(s), e)
    BY <2>1, crc16Steps
  <2>3. Append(s, e) \in Seq(Byte)
    BY <2>1
  <2> QED
    BY <2>1, <2>2, <2>3, UpdateType
<1>3. Seq(Byte) \subseteq T
  <2> HIDE DEF T
  <2> QED
    BY <1>1, <1>2, SeqSet
<1> QED
  BY <1>3

\* The residue of crc16(): over a message followed by its own checksum, high
\* byte first, it is zero.
LEMMA ResidueOf ==
  ASSUME Inductive, NEW data \in Seq(Byte)
  PROVE  /\ data \o <<crc16(data) \div Radix, crc16(data) % Radix>> \in Seq(Byte)
         /\ crc16(data \o <<crc16(data) \div Radix, crc16(data) % Radix>>) = 0
<1>1. PICK c, hi, lo : c = crc16(data) /\ hi = c \div Radix /\ lo = c % Radix
  OBVIOUS
<1>2. c \in Word
  BY <1>1, crc16Type
<1>3. hi \in Byte /\ lo \in Byte
  BY <1>1, <1>2, ByteWord
<1>4. PICK p : p = Append(data, hi)
  BY Zenon
<1>5. p \in Seq(Byte) /\ crc16(p) = crc16_update(c, hi)
  BY <1>1, <1>3, <1>4, crc16Steps
<1>6. PICK q : q = Append(p, lo)
  BY Zenon
<1>7. q \in Seq(Byte) /\ crc16(q) = crc16_update(crc16(p), lo)
  BY <1>3, <1>5, <1>6, crc16Steps
<1>8. crc16(q) = 0
  BY <1>1, <1>2, <1>5, <1>7, UpdateResidue
<1>9. data \o <<hi, lo>> = q
  BY <1>3, <1>4, <1>5, <1>6
<1> QED
  BY <1>1, <1>7, <1>8, <1>9, Zenon

\* The bound on the encoded size grows with the data.
LEMMA MaxSizeMono ==
  ASSUME Inductive, NEW n \in Nat, NEW m \in Nat, n <= m
  PROVE  /\ cobs_encoded_max_size(n) \in Nat /\ cobs_encoded_max_size(m) \in Nat
         /\ cobs_encoded_max_size(n) <= cobs_encoded_max_size(m)
<1>1. PICK d \in Nat \ {0} : d = Full - 1
  BY RadixType
<1>2. n \div d <= m \div d /\ n \div d \in Nat /\ m \div d \in Nat
  BY DivMono, DivMod
<1> QED
  BY <1>1, <1>2 DEF cobs_encoded_max_size

\* With room for the largest encoding, cobs_encode() succeeds, writes no zero,
\* keeps the bound, and cobs_decode() gives the data back.
LEMMA CobsCodes ==
  ASSUME Inductive, NEW src \in Seq(Byte), NEW cap \in Nat, cap >= cobs_encoded_max_size(Len(src))
  PROVE  LET encoded == cobs_encode(src, cap)
         IN  /\ encoded.status = "kOk"
             /\ encoded.bytes \in Seq(Byte \ {0})
             /\ 0 < Len(encoded.bytes) /\ Len(encoded.bytes) <= cobs_encoded_max_size(Len(src))
             /\ \A room \in Nat : Len(src) <= room =>
                  cobs_decode(encoded.bytes, room) = [status |-> "kOk", bytes |-> src]
<1>1. cap # 0 /\ Encodes(src, Encode(src, cap), cap)
  BY EncodeFits
<1> QED
  BY <1>1, EncodedBytes, Zenon

\* The bytes of a frame before encoding: their number, their fields, and a
\* checksum of zero over all of them.
LEMMA BlobFields ==
  ASSUME Inductive, NEW type \in Byte, NEW payload \in Seq(Byte), Len(payload) <= kMaxPayloadSize
  PROVE  /\ Blob(type, payload) \in Seq(Byte)
         /\ Len(Blob(type, payload)) = Len(payload) + 4
         /\ Blob(type, payload)[1] = type /\ Blob(type, payload)[2] = Len(payload)
         /\ SubSeq(Blob(type, payload), 3, 2 + Len(payload)) = payload
         /\ crc16(Blob(type, payload)) = 0
<1>1. PICK n : n = Len(payload)
  OBVIOUS
<1>2. n \in Nat /\ n \in Byte
  BY <1>1, RadixType DEF kMaxPayloadSize, Byte, Full
<1>3. PICK data : data = <<type, n>> \o payload
  BY Zenon
<1>4. /\ data \in Seq(Byte) /\ Len(data) = n + 2 /\ data[1] = type /\ data[2] = n
      /\ \A i \in 1..n : data[i + 2] = payload[i]
  <2>1. PICK header : header = <<type, n>>
    BY Zenon
  <2>2. header \in Seq(Byte) /\ Len(header) = 2 /\ header[1] = type /\ header[2] = n
    BY <1>2, <2>1
  <2>3. data = header \o payload
    BY <1>3, <2>1
  <2>4. /\ data \in Seq(Byte) /\ Len(data) = Len(header) + Len(payload)
        /\ \A i \in 1..(Len(header) + Len(payload)) :
             data[i] = IF i <= Len(header) THEN header[i] ELSE payload[i - Len(header)]
    BY <2>2, <2>3, Joined, Zenon
  <2>5. data[1] = type /\ data[2] = n
    <3>1. 1 \in 1..(2 + n) /\ 2 \in 1..(2 + n)
      BY <1>2
    <3> QED
      BY <1>1, <2>2, <2>4, <3>1
  <2>6. ASSUME NEW i \in 1..n PROVE data[i + 2] = payload[i]
    <3>1. i + 2 \in 1..(Len(header) + Len(payload)) /\ ~(i + 2 <= Len(header)) /\ (i + 2) - Len(header) = i
      BY <1>1, <1>2, <2>2
    <3> QED
      BY <2>4, <3>1
  <2> QED
    BY <1>1, <1>2, <2>2, <2>4, <2>5, <2>6
<1>5. PICK blob, check : blob = data \o check /\ check = <<crc16(data) \div Radix, crc16(data) % Radix>>
  BY Zenon
<1>6. blob = Blob(type, payload)
  BY <1>1, <1>3, <1>5 DEF Blob
<1>7. blob \in Seq(Byte) /\ crc16(blob) = 0
  BY <1>4, <1>5, ResidueOf
<1>8. check \in Seq(Byte) /\ Len(check) = 2
  <2>1. crc16(data) \in Word
    BY <1>4, crc16Type
  <2>2. crc16(data) \div Radix \in Byte /\ crc16(data) % Radix \in Byte
    BY <2>1, ByteWord
  <2> QED
    BY <1>5, <2>2
<1>9. Len(blob) = n + 4 /\ \A i \in 1..(n + 2) : blob[i] = data[i]
  <2>1. Len(blob) = Len(data) + Len(check) /\ \A i \in 1..Len(data) : blob[i] = data[i]
    BY <1>4, <1>5, <1>8, Joined
  <2> QED
    BY <1>2, <1>4, <1>8, <2>1
<1>10. SubSeq(blob, 3, 2 + n) = payload
  <2>1. PICK sub : sub = SubSeq(blob, 3, 2 + n)
    BY Zenon
  <2>2. sub \in Seq(Byte) /\ Len(sub) = n /\ \A i \in 1..n : sub[i] = blob[3 + i - 1]
    BY <1>2, <1>7, <1>9, <2>1, PartOf
  <2>3. ASSUME NEW i \in 1..n PROVE sub[i] = payload[i]
    <3>1. i + 2 \in 1..(n + 2) /\ 3 + i - 1 = i + 2
      BY <1>2
    <3> QED
      BY <1>4, <1>9, <2>2, <3>1
  <2>4. sub = payload
    BY <1>1, <2>2, <2>3, SameElements
  <2> QED
    BY <2>1, <2>4
<1>11. 1 \in 1..(n + 2) /\ 2 \in 1..(n + 2)
  BY <1>2
<1> QED
  BY <1>1, <1>4, <1>6, <1>7, <1>9, <1>10, <1>11

\* All but the last of a sequence with an element appended.
LEMMA FrontOfAppend ==
  ASSUME NEW S, NEW s \in Seq(S), NEW e \in S
  PROVE  SubSeq(Append(s, e), 1, Len(Append(s, e)) - 1) = s
<1>1. PICK a, n : a = Append(s, e) /\ n = Len(s)
  BY Zenon
<1>2. n \in Nat /\ a \in Seq(S) /\ Len(a) = n + 1 /\ \A i \in 1..n : a[i] = s[i]
  BY <1>1
<1>3. PICK f : f = SubSeq(a, 1, n)
  BY Zenon
<1>4. f \in Seq(S) /\ Len(f) = n /\ \A i \in 1..n : f[i] = a[i]
  BY <1>2, <1>3
<1>5. f = s
  BY <1>1, <1>2, <1>4, SameElements
<1>6. (n + 1) - 1 = n
  BY <1>2
<1> QED
  BY <1>1, <1>2, <1>3, <1>5, <1>6

\* A frame that may be sent: what encode_frame() writes ends in a delimiter,
\* the bytes before it are not zero, fit the parser's buffer, and
\* finish_frame() makes the frame of them.
LEMMA FrameCodes ==
  ASSUME Inductive, NEW type \in Byte, NEW payload \in Seq(Byte), Len(payload) <= kMaxPayloadSize
  PROVE  LET coded == encode_frame(type, payload, max_encoded_frame_size(Len(payload)))
             bytes == Undelimited(Frame(type, payload))
         IN  /\ coded.status = "kOk" /\ coded.bytes = Append(bytes, 0)
             /\ bytes \in Seq(Byte \ {0}) /\ 0 < Len(bytes) /\ Len(bytes) <= kBufferSize
             /\ finish_frame(bytes) = [error |-> "kNone", frame |-> Frame(type, payload)]
<1>1. PICK n, blob : n = Len(payload) /\ blob = Blob(type, payload)
  OBVIOUS
<1>2. /\ n \in Nat /\ blob \in Seq(Byte) /\ Len(blob) = n + 4 /\ blob[1] = type /\ blob[2] = n
      /\ SubSeq(blob, 3, 2 + n) = payload /\ crc16(blob) = 0
  <2>1. n \in Nat
    BY <1>1
  <2> QED
    BY <1>1, <2>1, BlobFields, Zenon
<1>3. n + 4 <= kMaxBlob /\ kMaxBlob \in Nat
  BY <1>1, <1>2, RadixType DEF kMaxBlob, kMaxPayloadSize, kFrameHeaderSize, kFrameCrcSize
<1>4. PICK cap : cap = cobs_encoded_max_size(n + 4)
  OBVIOUS
<1>5. cap \in Nat /\ cap <= kBufferSize
  BY <1>2, <1>3, <1>4, MaxSizeMono DEF kBufferSize
<1>6. max_encoded_frame_size(Len(payload)) = cap + 1
  <2>1. 2 + n + 2 = n + 4
    BY <1>2
  <2> QED
    BY <1>1, <1>4, <2>1 DEF max_encoded_frame_size, kFrameHeaderSize, kFrameCrcSize
<1>7. PICK cobs : cobs = cobs_encode(blob, cap)
  OBVIOUS
<1>8. /\ cobs.status = "kOk" /\ cobs.bytes \in Seq(Byte \ {0})
      /\ 0 < Len(cobs.bytes) /\ Len(cobs.bytes) <= cap
      /\ cobs_decode(cobs.bytes, kMaxBlob) = [status |-> "kOk", bytes |-> blob]
  <2>1. cap >= cobs_encoded_max_size(Len(blob)) /\ Len(blob) <= kMaxBlob
        /\ cap = cobs_encoded_max_size(Len(blob))
    BY <1>2, <1>3, <1>4, <1>5
  <2> QED
    BY <1>2, <1>3, <1>5, <1>7, <2>1, CobsCodes, Zenon
<1>9. PICK coded : coded = encode_frame(type, payload, max_encoded_frame_size(Len(payload)))
  OBVIOUS
<1>10. coded.status = "kOk" /\ coded.bytes = Append(cobs.bytes, 0)
  <2>1. (cap + 1) - 1 = cap /\ cap + 1 # 0
    BY <1>5
  <2>2. coded = [status |-> "kOk", bytes |-> Append(cobs.bytes, 0)]
    <3>1. ~(n > kMaxPayloadSize) /\ n <= kMaxPayloadSize
      BY <1>1, <1>2, RadixType DEF kMaxPayloadSize
    <3>2. cobs_encode(Blob(type, payload), (cap + 1) - 1) = cobs
      BY <1>1, <1>7, <2>1
    <3>3. ~(cap + 1 = 0 \/ cobs.status # "kOk")
      BY <1>8, <2>1
    <3> QED
      BY <1>1, <1>6, <1>9, <3>1, <3>2, <3>3, Zenon DEF encode_frame
  <2> QED
    BY <2>2
<1>11. Undelimited(Frame(type, payload)) = cobs.bytes
  <2>1. Undelimited(Frame(type, payload)) = SubSeq(coded.bytes, 1, Len(coded.bytes) - 1)
    BY <1>9 DEF Undelimited, Frame
  <2>2. PICK c : c = cobs.bytes
    OBVIOUS
  <2>3. c \in Seq(Nat)
    BY <1>8, <2>2, RadixType DEF Byte
  <2>4. SubSeq(Append(c, 0), 1, Len(Append(c, 0)) - 1) = c
    BY <2>3, FrontOfAppend
  <2> QED
    BY <1>10, <2>1, <2>2, <2>4
<1>12. finish_frame(cobs.bytes) = [error |-> "kNone", frame |-> Frame(type, payload)]
  <2>1. PICK d : d = cobs_decode(cobs.bytes, kMaxBlob)
    OBVIOUS
  <2>2. d.status = "kOk" /\ d.bytes = blob
    BY <1>8, <2>1
  <2>3. ~(Len(d.bytes) < 2 + 2) /\ Len(d.bytes) = 2 + 2 + d.bytes[2]
    BY <1>2, <2>2
  <2>4. crc16(d.bytes) = 0 /\ d.bytes[1] = type /\ SubSeq(d.bytes, 2 + 1, 2 + d.bytes[2]) = payload
    BY <1>2, <2>2
  <2> QED
    BY <2>1, <2>2, <2>3, <2>4, Zenon DEF finish_frame, kFrameHeaderSize, kFrameCrcSize
<1>13. Len(cobs.bytes) <= kBufferSize
  <2>1. Len(cobs.bytes) \in Nat
    BY <1>8
  <2>2. kBufferSize \in Nat
    <3>1. kMaxBlob <= kMaxBlob
      BY <1>3
    <3> QED
      BY <1>3, <3>1, MaxSizeMono DEF kBufferSize
  <2> QED
    BY <1>5, <1>8, <2>1, <2>2
<1> QED
  BY <1>8, <1>9, <1>10, <1>11, <1>12, <1>13, Zenon

\* A byte of data loses nothing of the checksum.
LEMMA UpdateInjective ==
  ASSUME Inductive, NEW c \in Word, NEW d \in Word, NEW y \in Byte, crc16_update(c, y) = crc16_update(d, y)
  PROVE  c = d
<1>1. PICK w : w = y * Radix
  OBVIOUS
<1>2. w \in Word
  BY <1>1, ByteWord
<1>3. Xor[c][w] \in Word /\ Xor[d][w] \in Word
  BY <1>2, XorType
<1>4. Rounds(Xor[c][w]) = Rounds(Xor[d][w])
  BY <1>1 DEF crc16_update
<1>5. Xor[c][w] = Xor[d][w]
  BY <1>3, <1>4, RoundsInjective
<1> QED
  BY <1>2, <1>5, XorInjective

\* Two bytes of data are the two bytes of the checksum: from one checksum, the
\* next but one tells what they were.
LEMMA TwoBytes ==
  ASSUME Inductive, NEW c \in Word, NEW x \in Byte, NEW y \in Byte, NEW u \in Byte, NEW v \in Byte,
         crc16_update(crc16_update(c, x), y) = crc16_update(crc16_update(c, u), v)
  PROVE  x = u /\ y = v
<1>1. ASSUME NEW a \in Byte, NEW b \in Byte
      PROVE  LET w == Xor[Xor[c][a * Radix]][b]
             IN  /\ w \in Word
                 /\ crc16_update(crc16_update(c, a), b) = Rounds(Rounds(w))
                 /\ w \div Radix = Xor[c \div Radix][a] /\ w % Radix = Xor[c % Radix][b]
  <2>1. PICK e, f, w : e = a * Radix /\ f = Xor[c][e] /\ w = Xor[f][b]
    OBVIOUS
  <2>2. /\ e \in Word /\ e \div Radix = a /\ e % Radix = 0
        /\ a \in Word /\ b \in Word /\ b \div Radix = 0 /\ b % Radix = b
    BY <2>1, ByteWord
  <2>3. f \in Word /\ w \in Word
    BY <2>1, <2>2, XorType
  <2>4. crc16_update(crc16_update(c, a), b) = Rounds(Rounds(w))
    <3>1. crc16_update(c, a) = Rounds(f)
      BY <2>1 DEF crc16_update
    <3>2. Rounds(w) = Xor[Rounds(f)][b * Radix]
      BY <2>1, <2>3, RoundsLinear
    <3> QED
      BY <3>1, <3>2 DEF crc16_update
  <2>5. PICK hi, lo : hi = c \div Radix /\ lo = c % Radix
    OBVIOUS
  <2>6. hi \in Word /\ lo \in Word
    BY <2>5, ByteWord
  <2>7. f \div Radix = Xor[hi][a] /\ f % Radix = lo
    <3>1. f \div Radix = Xor[hi][a] /\ f % Radix = Xor[lo][0]
      BY <2>1, <2>2, <2>5, XorBytes
    <3> QED
      BY <2>6, <3>1, XorLaws
  <2>8. w \div Radix = Xor[hi][a] /\ w % Radix = Xor[lo][b]
    <3>1. w \div Radix = Xor[Xor[hi][a]][0] /\ w % Radix = Xor[lo][b]
      BY <2>1, <2>2, <2>3, <2>7, XorBytes
    <3>2. Xor[hi][a] \in Word
      BY <2>2, <2>6, XorType
    <3> QED
      BY <3>1, <3>2, XorLaws
  <2> QED
    BY <2>1, <2>3, <2>4, <2>5, <2>8, Zenon
<1>2. PICK w, z : w = Xor[Xor[c][x * Radix]][y] /\ z = Xor[Xor[c][u * Radix]][v]
  OBVIOUS
<1>3. /\ w \in Word /\ crc16_update(crc16_update(c, x), y) = Rounds(Rounds(w))
      /\ w \div Radix = Xor[c \div Radix][x] /\ w % Radix = Xor[c % Radix][y]
  BY <1>1, <1>2, Zenon
<1>4. /\ z \in Word /\ crc16_update(crc16_update(c, u), v) = Rounds(Rounds(z))
      /\ z \div Radix = Xor[c \div Radix][u] /\ z % Radix = Xor[c % Radix][v]
  BY <1>1, <1>2, Zenon
<1>5. Rounds(w) = Rounds(z)
  BY <1>3, <1>4, RoundsType, RoundsInjective, Zenon
<1>6. w = z
  BY <1>3, <1>4, <1>5, RoundsInjective
<1>7. PICK hi, lo : hi = c \div Radix /\ lo = c % Radix
  OBVIOUS
<1>8. Xor[hi][x] = Xor[hi][u] /\ Xor[lo][y] = Xor[lo][v]
  BY <1>3, <1>4, <1>6, <1>7
<1>9. hi \in Word /\ lo \in Word /\ x \in Word /\ y \in Word /\ u \in Word /\ v \in Word
  BY <1>7, ByteWord
<1> QED
  BY <1>8, <1>9, XorCancel

\* A burst: the bytes at i and i + 1 are altered, and no others.
Burst(s, t, i) ==
  /\ Len(s) = Len(t) /\ s # t
  /\ \A j \in 1..Len(s) : j # i /\ j # i + 1 => s[j] = t[j]

\* Two neighbours of a sequence replaced.
Replaced(s, i, x, y) == [s EXCEPT ![i] = x, ![i + 1] = y]

\* The checksums of two messages that differ in two neighbouring bytes, and
\* only there, differ.
LEMMA BurstDetected ==
  ASSUME Inductive, NEW s \in Seq(Byte), NEW t \in Seq(Byte), NEW i \in 1..(Len(s) - 1), Burst(s, t, i)
  PROVE  crc16(s) # crc16(t)
<1> USE DEF Burst
<1>1. PICK n : n = Len(s)
  OBVIOUS
<1>2. n \in Nat /\ Len(t) = n /\ i \in Nat /\ i >= 1 /\ i + 1 <= n /\ i \in 1..n /\ i + 1 \in 1..n
  BY <1>1
<1>3. s[i] # t[i] \/ s[i + 1] # t[i + 1]
  <2> SUFFICES ASSUME s[i] = t[i], s[i + 1] = t[i + 1] PROVE FALSE
    OBVIOUS
  <2>1. \A j \in 1..Len(s) : s[j] = t[j]
    OBVIOUS
  <2> QED
    BY <2>1, SameElements
<1> DEFINE P(k) == SubSeq(s, 1, k)
           Q(k) == SubSeq(t, 1, k)
<1>4. ASSUME NEW k \in Nat, k < n
      PROVE  /\ P(k) \in Seq(Byte) /\ P(k + 1) = Append(P(k), s[k + 1]) /\ s[k + 1] \in Byte
             /\ Q(k) \in Seq(Byte) /\ Q(k + 1) = Append(Q(k), t[k + 1]) /\ t[k + 1] \in Byte
  <2>1. k < Len(s) /\ k < Len(t)
    BY <1>1, <1>2, <1>4
  <2>2. P(k) \in Seq(Byte) /\ P(k + 1) = Append(P(k), s[k + 1]) /\ s[k + 1] \in Byte
    BY <2>1, PrefixGrows, Zenon
  <2>3. Q(k) \in Seq(Byte) /\ Q(k + 1) = Append(Q(k), t[k + 1]) /\ t[k + 1] \in Byte
    BY <2>1, PrefixGrows, Zenon
  <2> QED
    BY <2>2, <2>3
<1>5. P(n) = s /\ Q(n) = t
  BY <1>1, <1>2
<1> HIDE DEF P, Q
<1>6. ASSUME NEW k \in Nat, k < n
      PROVE  /\ crc16(P(k + 1)) = crc16_update(crc16(P(k)), s[k + 1]) /\ crc16(P(k)) \in Word
             /\ crc16(Q(k + 1)) = crc16_update(crc16(Q(k)), t[k + 1]) /\ crc16(Q(k)) \in Word
  <2>1. /\ P(k) \in Seq(Byte) /\ P(k + 1) = Append(P(k), s[k + 1]) /\ s[k + 1] \in Byte
        /\ Q(k) \in Seq(Byte) /\ Q(k + 1) = Append(Q(k), t[k + 1]) /\ t[k + 1] \in Byte
    BY <1>4, <1>6, Zenon
  <2>2. crc16(P(k + 1)) = crc16_update(crc16(P(k)), s[k + 1])
    BY <2>1, crc16Steps, Zenon
  <2>3. crc16(Q(k + 1)) = crc16_update(crc16(Q(k)), t[k + 1])
    BY <2>1, crc16Steps, Zenon
  <2> QED
    BY <2>1, <2>2, <2>3, crc16Type
<1>7. PICK m : m = i - 1
  OBVIOUS
<1>8. m \in Nat /\ m + 1 = i /\ m < n /\ i < n /\ i \in Nat
  BY <1>2, <1>7
<1>9. P(m) = Q(m)
  <2>1. P(m) \in Seq(Byte) /\ Q(m) \in Seq(Byte)
    BY <1>4, <1>8
  <2>2. Len(P(m)) = m /\ Len(Q(m)) = m /\ \A j \in 1..m : P(m)[j] = s[j] /\ Q(m)[j] = t[j]
    BY <1>1, <1>2, <1>8 DEF P, Q
  <2>3. \A j \in 1..m : s[j] = t[j]
    BY <1>1, <1>2, <1>8
  <2>4. PICK p, q : p = P(m) /\ q = Q(m)
    OBVIOUS
  <2>5. /\ p \in Seq(Byte) /\ q \in Seq(Byte) /\ Len(p) = Len(q)
        /\ \A j \in 1..Len(p) : p[j] = q[j]
    BY <2>1, <2>2, <2>3, <2>4
  <2>6. p = q
    BY <2>5, SameElements, Zenon
  <2> QED
    BY <2>4, <2>6
<1>10. crc16(P(i + 1)) # crc16(Q(i + 1))
  <2>1. PICK c : c = crc16(P(m))
    OBVIOUS
  <2>2. c \in Word /\ crc16(Q(m)) = c
    BY <1>6, <1>8, <1>9, <2>1
  <2>3. crc16(P(i)) = crc16_update(c, s[i]) /\ crc16(Q(i)) = crc16_update(c, t[i])
    BY <1>6, <1>8, <2>1, <2>2
  <2>4. /\ crc16(P(i + 1)) = crc16_update(crc16_update(c, s[i]), s[i + 1])
        /\ crc16(Q(i + 1)) = crc16_update(crc16_update(c, t[i]), t[i + 1])
    BY <1>6, <1>8, <2>3
  <2>5. s[i] \in Byte /\ t[i] \in Byte /\ s[i + 1] \in Byte /\ t[i + 1] \in Byte
    BY <1>4, <1>8
  <2> QED
    BY <1>3, <2>2, <2>4, <2>5, TwoBytes
<1> DEFINE T == {d \in Nat : (i + 1) + d <= n => crc16(P((i + 1) + d)) # crc16(Q((i + 1) + d))}
<1>11. 0 \in T
  <2>1. (i + 1) + 0 = i + 1
    BY <1>2
  <2> QED
    BY <1>10, <2>1
<1>12. ASSUME NEW d \in Nat, d \in T PROVE d + 1 \in T
  <2> SUFFICES ASSUME (i + 1) + (d + 1) <= n
               PROVE  crc16(P((i + 1) + (d + 1))) # crc16(Q((i + 1) + (d + 1)))
    OBVIOUS
  <2>1. PICK k : k = (i + 1) + d
    OBVIOUS
  <2>2. k \in Nat /\ k < n /\ k + 1 = (i + 1) + (d + 1) /\ k <= n
    BY <1>2, <2>1
  <2>3. crc16(P(k)) # crc16(Q(k))
    BY <1>12, <2>1, <2>2
  <2>4. k + 1 \in 1..Len(s) /\ k + 1 # i /\ k + 1 # i + 1
    BY <1>1, <1>2, <2>1, <2>2
  <2>5. s[k + 1] = t[k + 1]
    BY <2>4
  <2>6. /\ crc16(P(k + 1)) = crc16_update(crc16(P(k)), s[k + 1]) /\ crc16(P(k)) \in Word
        /\ crc16(Q(k + 1)) = crc16_update(crc16(Q(k)), s[k + 1]) /\ crc16(Q(k)) \in Word
        /\ s[k + 1] \in Byte
    BY <1>4, <1>6, <2>2, <2>5
  <2>7. crc16(P(k + 1)) # crc16(Q(k + 1))
    BY <2>3, <2>6, UpdateInjective
  <2> QED
    BY <2>2, <2>7
<1>13. Nat \subseteq T
  <2> HIDE DEF T
  <2> QED
    BY <1>11, <1>12, NatSet, Zenon
<1>14. n - (i + 1) \in Nat /\ (i + 1) + (n - (i + 1)) = n /\ n <= n
  BY <1>2
<1>15. crc16(P(n)) # crc16(Q(n))
  <2>1. n - (i + 1) \in T
    BY <1>13, <1>14, Zenon
  <2> QED
    BY <1>14, <2>1
<1> QED
  BY <1>5, <1>15

\* Replacing two neighbours is a burst, unless it alters nothing.
LEMMA TwoReplaced ==
  ASSUME NEW S, NEW s \in Seq(S), NEW i \in 1..(Len(s) - 1), NEW x \in S, NEW y \in S,
         Replaced(s, i, x, y) # s
  PROVE  Replaced(s, i, x, y) \in Seq(S) /\ Burst(s, Replaced(s, i, x, y), i)
<1>1. PICK r, k : r = [s EXCEPT ![i] = x] /\ k = i + 1
  BY Zenon
<1>2. i \in 1..Len(s) /\ k \in 1..Len(s)
  BY <1>1
<1>3. r \in Seq(S) /\ Len(r) = Len(s) /\ \A j \in 1..Len(s) : r[j] = IF j = i THEN x ELSE s[j]
  BY <1>1, <1>2, OneReplaced
<1>4. PICK t : t = [r EXCEPT ![k] = y]
  BY Zenon
<1>5. t \in Seq(S) /\ Len(t) = Len(r) /\ \A j \in 1..Len(r) : t[j] = IF j = k THEN y ELSE r[j]
  BY <1>2, <1>3, <1>4, OneReplaced
<1>6. t = Replaced(s, i, x, y)
  BY <1>1, <1>4 DEF Replaced
<1>7. t \in Seq(S) /\ Len(t) = Len(s) /\ \A j \in 1..Len(s) : j # i /\ j # k => s[j] = t[j]
  BY <1>3, <1>5
<1>8. Burst(s, t, i)
  BY <1>1, <1>6, <1>7 DEF Burst
<1> QED
  BY <1>6, <1>7, <1>8

\* A frame with two neighbouring bytes altered is not taken for a frame.
LEMMA BurstRejected ==
  ASSUME Inductive, NEW type \in Byte, NEW payload \in Seq(Byte), Len(payload) <= kMaxPayloadSize,
         NEW blob, blob = Blob(type, payload), NEW i \in 1..(Len(blob) - 1),
         NEW hit \in Seq(Byte), Burst(blob, hit, i)
  PROVE  finish_frame(cobs_encode(hit, kBufferSize).bytes).error # "kNone"
<1>1. PICK n : n = Len(payload) + 4
  OBVIOUS
<1>2. n \in Nat /\ blob \in Seq(Byte) /\ Len(blob) = n /\ crc16(blob) = 0
  <2>1. n \in Nat
    BY <1>1
  <2> QED
    BY <1>1, <2>1, BlobFields, Zenon
<1>3. Len(hit) = n
  BY <1>2 DEF Burst
<1>4. crc16(hit) # 0
  <2>0. blob \in Seq(Byte)
    BY <1>2
  <2>1. crc16(blob) # crc16(hit)
    BY <2>0, BurstDetected, Zenon
  <2> QED
    BY <1>2, <2>1
<1>5. n <= kMaxBlob /\ kMaxBlob \in Nat
  BY <1>1, <1>2, RadixType DEF kMaxBlob, kMaxPayloadSize, kFrameHeaderSize, kFrameCrcSize
<1>6. kBufferSize \in Nat /\ kBufferSize >= cobs_encoded_max_size(Len(hit))
  BY <1>2, <1>3, <1>5, MaxSizeMono, Zenon DEF kBufferSize
<1>7. PICK bytes : bytes = cobs_encode(hit, kBufferSize).bytes
  OBVIOUS
<1>8. cobs_decode(bytes, kMaxBlob) = [status |-> "kOk", bytes |-> hit]
  <2>1. Len(hit) <= kMaxBlob
    BY <1>3, <1>5
  <2> QED
    BY <1>3, <1>5, <1>6, <1>7, <2>1, CobsCodes, Zenon
<1>9. PICK d : d = cobs_decode(bytes, kMaxBlob)
  OBVIOUS
<1>10. d.status = "kOk" /\ d.bytes = hit
  BY <1>8, <1>9
<1>11. finish_frame(bytes) \in {Rejected("kBadLength"), Rejected("kBadCrc")}
  BY <1>4, <1>9, <1>10 DEF finish_frame
<1>12. Rejected("kBadLength").error = "kBadLength" /\ Rejected("kBadCrc").error = "kBadCrc"
  BY DEF Rejected
<1> QED
  BY <1>7, <1>11, <1>12

---------------------------------------------------------------------------
\* A room is enough for cobs_encode() exactly when it holds what is written.
LEMMA EncodeNeeds ==
  ASSUME Inductive, NEW src \in Seq(Byte), NEW m \in Nat, m >= cobs_encoded_max_size(Len(src)),
         NEW cap \in 0..Len(cobs_encode(src, m).bytes)
  PROVE  cobs_encode(src, cap).status = "kOk" <=> cap = Len(cobs_encode(src, m).bytes)
<1>1. m \in Nat \ {0} /\ Encodes(src, Encode(src, m), m)
  BY EncodeFits
<1>2. PICK e, size : e = Encode(src, m) /\ size = Len(e.dst)
  BY Zenon
<1>3. PICK room : room = Len(cobs_encode(src, m).bytes)
  OBVIOUS
<1>4. 0 < room /\ room = size
  BY <1>1, <1>2, <1>3, EncodedBytes, Zenon
<1>5. size \in Nat /\ e.status = "kOk"
  <2>1. PICK dst, i, code : e = Encoder(dst, i, code) /\ dst \in Seq(Byte)
    BY <1>1, <1>2 DEF Encodes, Written
  <2> QED
    BY <1>2, <2>1 DEF Encoder
<1>6. cap \in 0..size
  BY <1>3, <1>4
<1>7. CASE cap = 0
  <2>1. cobs_encode(src, cap) = Fails("kOutputOverflow")
    BY <1>7, Zenon DEF cobs_encode
  <2> QED
    BY <1>3, <1>4, <1>5, <1>7, <2>1 DEF Fails
<1>8. CASE cap # 0
  <2>1. cap \in Nat \ {0}
    BY <1>5, <1>6, <1>8
  <2>2. PICK f : f = Encode(src, cap)
    OBVIOUS
  <2>3. f = IF size <= cap THEN e ELSE Fails("kOutputOverflow")
    BY <1>1, <1>2, <2>1, <2>2, EncodeRoom, Zenon
  <2>4. cobs_encode(src, cap) =
          IF f.status # "kOk" THEN Fails("kOutputOverflow")
          ELSE [status |-> "kOk", bytes |-> [f.dst EXCEPT ![f.at] = f.code]]
    BY <1>8, <2>2, Zenon DEF cobs_encode
  <2>5. cobs_encode(src, cap).status = "kOk" <=> f.status = "kOk"
    BY <2>4 DEF Fails
  <2>6. f.status = "kOk" <=> size <= cap
    BY <1>5, <2>3 DEF Fails
  <2> QED
    BY <1>3, <1>4, <1>5, <1>6, <2>5, <2>6
<1> QED
  BY <1>7, <1>8

\* What cobs_decode() gives back in room enough it gives back in any room that
\* holds it, and refuses a smaller one.
LEMMA DecodeNeeds ==
  ASSUME Inductive, NEW src \in Seq(Byte), NEW m \in Nat, NEW cap \in Nat,
         cobs_decode(src, m).status = "kOk"
  PROVE  cobs_decode(src, cap) = IF cap < Len(cobs_decode(src, m).bytes)
                                 THEN Fails("kOutputOverflow") ELSE cobs_decode(src, m)
<1> DEFINE Out(f) == CASE f.status # "kOk" -> f
                       [] f.status = "kOk" /\ f.left > 0 -> Fails("kInvalidInput")
                       [] OTHER -> [status |-> "kOk", bytes |-> f.dst]
<1>1. \A room : cobs_decode(src, room) = Out(Decode(src, room))
  BY Zenon DEF cobs_decode
<1>2. PICK e, f, size : e = Decode(src, m) /\ f = Decode(src, cap) /\ size = Len(e.dst)
  BY Zenon
<1>3. Out(e).status = "kOk" /\ cobs_decode(src, m) = Out(e) /\ cobs_decode(src, cap) = Out(f)
  BY <1>1, <1>2, Zenon
<1>4. \A why \in {"kOutputOverflow", "kInvalidInput"} : Out(Fails(why)) = Fails(why) /\ Fails(why).status # "kOk"
  BY DEF Fails
<1>5. /\ Decodes(e)
      /\ f = IF size <= cap THEN e ELSE Fails("kOutputOverflow")
  <2>1. ASSUME NEW why \in {"kOutputOverflow", "kInvalidInput"}, e = Fails(why) PROVE FALSE
    BY <1>3, <1>4, <2>1, Zenon
  <2> QED
    BY <1>2, <2>1, DecodeRoom, Zenon
<1>6. size \in Nat /\ e.status = "kOk"
  BY <1>2, <1>5 DEF Decodes, Decoder
<1>7. Out(e).bytes = e.dst
  BY <1>3, <1>6 DEF Fails
<1>8. CASE cap < size
  <2>1. f = Fails("kOutputOverflow")
    BY <1>5, <1>6, <1>8
  <2> QED
    BY <1>2, <1>3, <1>4, <1>7, <1>8, <2>1, Zenon
<1>9. CASE ~(cap < size)
  <2>1. f = e
    BY <1>5, <1>6, <1>9
  <2> QED
    BY <1>2, <1>3, <1>7, <1>9, <2>1, Zenon
<1> QED
  BY <1>8, <1>9

---------------------------------------------------------------------------
\* What the runs check of the codec, in a state.

\* What is coded is bytes.
InputIsBytes == input # NoInput => input \in Seq(Byte)

\* The data come back.
LEMMA RoundTripOfInput ==
  ASSUME Inductive, InputIsBytes
  PROVE  CobsRoundTrip
<1> SUFFICES ASSUME input # NoInput PROVE CobsRoundTrip
  BY DEF CobsRoundTrip
<1>1. PICK src, n, cap : src = input /\ n = Len(input) /\ cap = cobs_encoded_max_size(n)
  BY Zenon
<1>2. src \in Seq(Byte) /\ n \in Nat /\ n <= n /\ Len(src) = n
  BY <1>1 DEF InputIsBytes
<1>3. cap \in Nat /\ cap >= cobs_encoded_max_size(Len(src))
  BY <1>1, <1>2, MaxSizeGrows
<1>4. LET encoded == cobs_encode(src, cap)
      IN  /\ encoded.status = "kOk"
          /\ encoded.bytes \in Seq(Byte \ {0})
          /\ cobs_decode(encoded.bytes, n) = [status |-> "kOk", bytes |-> src]
  BY <1>2, <1>3, CobsCodes, Zenon
<1> QED
  BY <1>1, <1>4, Zenon DEF CobsRoundTrip

\* The room that is refused does not do.
LEMMA OverflowOfInput ==
  ASSUME Inductive, InputIsBytes
  PROVE  OverflowExact
<1> SUFFICES ASSUME input # NoInput PROVE OverflowExact
  BY DEF OverflowExact
<1>1. PICK src, n, m : src = input /\ n = Len(src) /\ m = cobs_encoded_max_size(n)
  BY Zenon
<1>2. src \in Seq(Byte) /\ n \in Nat
  BY <1>1 DEF InputIsBytes
<1>3. m \in Nat /\ m >= cobs_encoded_max_size(Len(src))
  BY <1>1, <1>2, MaxSizeGrows
<1>4. \A cap \in 0..Len(cobs_encode(src, m).bytes) :
        cobs_encode(src, cap).status = "kOk" <=> cap = Len(cobs_encode(src, m).bytes)
  BY <1>2, <1>3, EncodeNeeds, Zenon
<1>5. 0..n \subseteq Nat
  BY <1>2
<1>6. cobs_decode(src, n).status = "kOk" =>
        \A cap \in 0..n :
          cobs_decode(src, cap) = IF cap < Len(cobs_decode(src, n).bytes)
                                  THEN Fails("kOutputOverflow") ELSE cobs_decode(src, n)
  BY <1>2, <1>5, DecodeNeeds, Zenon
<1> QED
  BY <1>1, <1>4, <1>6, Zenon DEF OverflowExact

\* A frame is understood.
LEMMA FrameOfInput ==
  ASSUME Inductive, InputIsBytes
  PROVE  FrameRoundTrip
<1> SUFFICES ASSUME input # NoInput, NEW type \in Byte
             PROVE  LET coded == encode_frame(type, input, max_encoded_frame_size(Len(input)))
                    IN  IF Len(input) > kMaxPayloadSize
                        THEN coded.status = "kPayloadTooLarge"
                        ELSE /\ coded.status = "kOk"
                             /\ coded.bytes[Len(coded.bytes)] = 0
                             /\ Len(coded.bytes) - 1 <= kBufferSize
                             /\ finish_frame(Undelimited(Frame(type, input))) =
                                  [error |-> "kNone", frame |-> Frame(type, input)]
  BY Zenon DEF FrameRoundTrip
<1>1. PICK src, coded, bytes :
        /\ src = input /\ coded = encode_frame(type, src, max_encoded_frame_size(Len(src)))
        /\ bytes = Undelimited(Frame(type, src))
  OBVIOUS
<1>2. src \in Seq(Byte) /\ Len(src) \in Nat /\ kMaxPayloadSize \in Nat
  BY <1>1, RadixType DEF InputIsBytes, kMaxPayloadSize
<1>3. ASSUME Len(src) > kMaxPayloadSize PROVE coded.status = "kPayloadTooLarge"
  <2>1. coded = Fails("kPayloadTooLarge")
    <3>1. ~(Len(src) <= kMaxPayloadSize)
      BY <1>2, <1>3
    <3> QED
      BY <1>1, <1>3, <3>1, Zenon DEF encode_frame
  <2> QED
    BY <2>1 DEF Fails
<1>4. ASSUME ~(Len(src) > kMaxPayloadSize)
      PROVE  /\ coded.status = "kOk" /\ coded.bytes[Len(coded.bytes)] = 0
             /\ Len(coded.bytes) - 1 <= kBufferSize
             /\ finish_frame(bytes) = [error |-> "kNone", frame |-> Frame(type, src)]
  <2>1. Len(src) <= kMaxPayloadSize
    BY <1>2, <1>4
  <2>2. /\ coded.status = "kOk" /\ coded.bytes = Append(bytes, 0)
        /\ bytes \in Seq(Byte \ {0}) /\ Len(bytes) <= kBufferSize
        /\ finish_frame(bytes) = [error |-> "kNone", frame |-> Frame(type, src)]
    BY <1>1, <1>2, <2>1, FrameCodes, Zenon
  <2>3. PICK all : all = Append(bytes, 0)
    BY Zenon
  <2>4. Len(bytes) \in Nat /\ Len(all) = Len(bytes) + 1 /\ all[Len(bytes) + 1] = 0
    BY <2>2, <2>3
  <2>5. all[Len(all)] = 0 /\ Len(all) - 1 = Len(bytes)
    BY <2>4
  <2> QED
    BY <2>2, <2>3, <2>5
<1> QED
  BY <1>1, <1>3, <1>4, Zenon

\* A burst is noticed.
LEMMA BurstInInput ==
  ASSUME Inductive, InputIsBytes
  PROVE  BurstCaught
<1> SUFFICES ASSUME input # NoInput, Len(input) <= kMaxPayloadSize, NEW type \in Byte,
                    NEW i \in 1..(Len(Blob(type, input)) - 1), NEW x \in Byte, NEW y \in Byte,
                    [Blob(type, input) EXCEPT ![i] = x, ![i + 1] = y] # Blob(type, input)
             PROVE  finish_frame(cobs_encode([Blob(type, input) EXCEPT ![i] = x, ![i + 1] = y],
                                             kBufferSize).bytes).error # "kNone"
  BY Zenon DEF BurstCaught
<1>1. PICK src, blob, hit : /\ src = input /\ blob = Blob(type, src)
                            /\ hit = [blob EXCEPT ![i] = x, ![i + 1] = y]
  BY Zenon
<1>2. src \in Seq(Byte) /\ Len(src) <= kMaxPayloadSize
  BY <1>1 DEF InputIsBytes
<1>3. blob \in Seq(Byte)
  BY <1>1, <1>2, BlobFields
<1>4. i \in 1..(Len(blob) - 1)
  BY <1>1
<1>5. hit \in Seq(Byte) /\ Burst(blob, hit, i)
  <2>1. hit = Replaced(blob, i, x, y) /\ hit # blob
    BY <1>1, Zenon DEF Replaced
  <2> QED
    BY <1>3, <1>4, <2>1, TwoReplaced, Zenon
<1>6. finish_frame(cobs_encode(hit, kBufferSize).bytes).error # "kNone"
  BY <1>1, <1>2, <1>4, <1>5, BurstRejected, Zenon
<1> QED
  BY <1>1, <1>6, Zenon

\* What the senders put on the line is what the parser expects.
LEMMA FrameMeetsParser ==
  ASSUME Inductive, NEW type \in Byte, NEW payload \in Seq(Byte), Len(payload) <= kMaxPayloadSize
  PROVE  LET f == Frame(type, payload)
         IN  /\ Undelimited(f) \in Seq(1..Full)
             /\ 0 < Len(Undelimited(f)) /\ Len(Undelimited(f)) <= kBufferSize
             /\ finish_frame(Undelimited(f)).error = "kNone"
             /\ finish_frame(Undelimited(f)).frame = f
<1>1. PICK f, bytes : f = Frame(type, payload) /\ bytes = Undelimited(f)
  OBVIOUS
<1>2. /\ bytes \in Seq(Byte \ {0}) /\ 0 < Len(bytes) /\ Len(bytes) <= kBufferSize
      /\ finish_frame(bytes) = [error |-> "kNone", frame |-> f]
  BY <1>1, FrameCodes, Zenon
<1>3. Byte \ {0} = 1..Full
  BY RadixType DEF Byte, Full
<1>4. finish_frame(bytes).error = "kNone" /\ finish_frame(bytes).frame = f
  BY <1>2
<1> QED
  BY <1>1, <1>2, <1>3, <1>4, Zenon

---------------------------------------------------------------------------
\* Induction, and with it the theorems.
INSTANCE WellFoundedInduction

\* A set that holds 0, and with a number the next, holds all: the least number
\* outside would follow one inside.
LEMMA InductionHolds == Inductive
<1> SUFFICES ASSUME NEW T, 0 \in T, \A n \in Nat : n \in T => n + 1 \in T, Nat \ T # {}
             PROVE  FALSE
  BY DEF Inductive
<1>1. PICK n \in Nat \ T : \A m \in Nat \ T : ~(<<m, n>> \in OpToRel(<, Nat))
  BY WFMin, NatLessThanWellFounded, Zenon
<1>2. n \in Nat /\ n # 0 /\ n - 1 \in Nat /\ n = (n - 1) + 1 /\ n - 1 < n
  OBVIOUS
<1>3. n - 1 \notin T
  BY <1>2
<1>4. <<n - 1, n>> \in OpToRel(<, Nat)
  BY <1>2 DEF OpToRel
<1> QED
  BY <1>1, <1>2, <1>3, <1>4, Zenon

\* What is coded is bytes, at every step.
LEMMA InputAlways == CodingSpec => []InputIsBytes
<1>1. CodingInit => InputIsBytes
  <2>1. <<>> \in Seq(Byte)
    OBVIOUS
  <2> QED
    BY <2>1, Zenon DEF CodingInit, InputIsBytes
<1>2. InputIsBytes /\ [Grow]_input => InputIsBytes'
  <2> SUFFICES ASSUME InputIsBytes, [Grow]_input PROVE InputIsBytes'
    OBVIOUS
  <2>1. CASE input' = input
    BY <2>1 DEF InputIsBytes
  <2>2. CASE Grow
    BY <2>2 DEF Grow, InputIsBytes
  <2> QED
    BY <2>1, <2>2
<1> QED
  BY <1>1, <1>2, PTL DEF CodingSpec

\* COBS loses nothing, leaves no zero and keeps the size cobs_encoded_max_size()
\* promises, for every byte width and all data.
THEOREM CobsSound == CodingSpec => []CobsRoundTrip
<1>1. InputIsBytes => CobsRoundTrip
  BY InductionHolds, RoundTripOfInput
<1> QED
  BY <1>1, InputAlways, PTL

\* cobs_encode() and cobs_decode() refuse no room that would do and overrun
\* none, for every byte width and all data.
THEOREM RoomExact == CodingSpec => []OverflowExact
<1>1. InputIsBytes => OverflowExact
  BY InductionHolds, OverflowOfInput
<1> QED
  BY <1>1, InputAlways, PTL

\* encode_frame() and finish_frame() understand each other, for every byte
\* width, polynomial, type and payload.
THEOREM FramesUnderstood == CodingSpec => []FrameRoundTrip
<1>1. InputIsBytes => FrameRoundTrip
  BY InductionHolds, FrameOfInput
<1> QED
  BY <1>1, InputAlways, PTL

\* A burst within two neighbouring bytes never passes the checksum of
\* finish_frame(), for every byte width and every polynomial that ends in 1.
THEOREM BurstsCaught == CodingSpec => []BurstCaught
<1>1. InputIsBytes => BurstCaught
  BY InductionHolds, BurstInInput
<1> QED
  BY <1>1, InputAlways, PTL

\* crc16.hpp: the checksum of data followed by their checksum is zero, which
\* the parser relies on.
THEOREM Residue ==
  ASSUME NEW data \in Seq(Byte)
  PROVE  crc16(data \o <<crc16(data) \div Radix, crc16(data) % Radix>>) = 0
BY InductionHolds, ResidueOf, Zenon

\* What LinkConstants takes for granted of the codec holds of the codec: what
\* the senders put on the line for a frame has no delimiter in it, fits the
\* parser's buffer, and finish_frame() makes that frame of it.
THEOREM CodecMeetsLink ==
  ASSUME NEW type \in Byte, NEW payload \in Seq(Byte), Len(payload) <= kMaxPayloadSize
  PROVE  LET f == Frame(type, payload)
         IN  /\ Undelimited(f) \in Seq(1..Full)
             /\ 0 < Len(Undelimited(f)) /\ Len(Undelimited(f)) <= kBufferSize
             /\ finish_frame(Undelimited(f)).error = "kNone"
             /\ finish_frame(Undelimited(f)).frame = f
BY InductionHolds, FrameMeetsParser, Zenon

=============================================================================
