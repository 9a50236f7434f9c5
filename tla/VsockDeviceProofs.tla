-------------------------- MODULE VsockDeviceProofs -------------------------
(***************************************************************************)
(* Theorems about VsockDevice, for every set of connections, every size of *)
(* the pipes, of the credit and of the rings, and every load.              *)
(***************************************************************************)
EXTENDS VsockDevice, SequenceTheorems, FiniteSetTheorems, WellFoundedInduction, TLAPS

(* Induction on the naturals, as the least element of a set of them.       *)

\* The initial segments below the members of a set are finite, and strict
\* inclusion of finite sets is well founded.
LEMMA LeastNatural ==
  ASSUME NEW T \in SUBSET Nat, T # {}
  PROVE  \E x \in T : \A y \in T : x <= y
<1> DEFINE Below == {0..(x - 1) : x \in T}
           R     == StrictSubsetOrdering(Nat)
<1>1. Below \subseteq FiniteSubsetsOf(Nat) /\ Below # {}
  <2> SUFFICES ASSUME NEW x \in T PROVE IsFiniteSet(0..(x - 1)) /\ 0..(x - 1) \subseteq Nat
    BY DEF FiniteSubsetsOf
  <2> QED
    BY FS_Interval
<1>2. IsWellFoundedOn(R, FiniteSubsetsOf(Nat))
  BY FS_StrictSubsetOrderingWellFounded
<1>3. PICK m \in Below : \A b \in Below : <<b, m>> \notin R
  <2> HIDE DEF Below, R
  <2> QED
    BY <1>1, <1>2, WFMin
<1>4. PICK x \in T : m = 0..(x - 1)
  OBVIOUS
<1>5. ASSUME NEW y \in T, y < x PROVE FALSE
  <2>1. 0..(y - 1) \subseteq 0..(x - 1) /\ y \in 0..(x - 1) /\ y \notin 0..(y - 1)
    BY <1>5
  <2>2. 0..(y - 1) \subseteq Nat /\ 0..(x - 1) \subseteq Nat
    OBVIOUS
  <2>3. <<0..(y - 1), 0..(x - 1)>> \in R
    BY <2>1, <2>2 DEF StrictSubsetOrdering
  <2> QED
    BY <1>3, <1>4, <2>3
<1> QED
  BY <1>5

\* A set of naturals up to n that holds 0 and, with i, i + 1, is all of 0..n.
LEMMA Induction ==
  ASSUME NEW n \in Nat, NEW S, 0 \in S, \A i \in 0..(n - 1) : i \in S => i + 1 \in S
  PROVE  0..n \subseteq S
<1> SUFFICES ASSUME (0..n) \ S # {} PROVE FALSE
  OBVIOUS
<1> DEFINE T == (0..n) \ S
<1>1. PICK x \in T : \A y \in T : x <= y
  <2>1. T \in SUBSET Nat /\ T # {}
    OBVIOUS
  <2> HIDE DEF T
  <2> QED
    BY <2>1, LeastNatural
<1>2. x # 0 /\ x - 1 \in 0..(n - 1) /\ x - 1 \notin (0..n) \ S
  BY <1>1
<1> QED
  BY <1>1, <1>2

-----------------------------------------------------------------------------
(* The bytes carried by a ring: Carried is the function that its recursive *)
(* definition names.                                                       *)

Recursion(f, ring, c, n) ==
  [i \in 0..n |-> IF i = 0 THEN <<>>
                  ELSE IF ring[i].conn = c THEN f[i - 1] \o ring[i].data ELSE f[i - 1]]
Carries(f, ring, c, n) ==
  \A i \in 0..n :
    f[i] = IF i = 0 THEN <<>>
           ELSE IF ring[i].conn = c THEN f[i - 1] \o ring[i].data ELSE f[i - 1]

\* The bytes of one packet for c.
Bytes(p, c) == IF p.conn = c THEN p.data ELSE <<>>

\* Sequences of bytes.
LEMMA BytesConcat ==
  /\ <<>> \in Seq(Nat) /\ Len(<<>>) = 0
  /\ \A s \in Seq(Nat) : Len(s) \in Nat /\ s \o <<>> = s /\ <<>> \o s = s
  /\ \A s, t \in Seq(Nat) : s \o t \in Seq(Nat) /\ Len(s \o t) = Len(s) + Len(t)
  /\ \A s, t, u \in Seq(Nat) : (s \o t) \o u = s \o (t \o u)
<1>1. \A s \in Seq(Nat) : Len(s) \in Nat /\ s \o <<>> = s /\ <<>> \o s = s
  BY LenProperties, ConcatEmptySeq
<1>2. \A s, t \in Seq(Nat) : s \o t \in Seq(Nat) /\ Len(s \o t) = Len(s) + Len(t)
  BY ConcatProperties
<1>3. \A s, t, u \in Seq(Nat) : (s \o t) \o u = s \o (t \o u)
  BY ConcatAssociative
<1> QED
  BY <1>1, <1>2, <1>3, EmptySeq

\* Two functions that satisfy the recursion agree.
LEMMA CarriesUnique ==
  ASSUME NEW f, NEW g, NEW ring, NEW c, NEW n \in Nat,
         Carries(f, ring, c, n), Carries(g, ring, c, n)
  PROVE  \A i \in 0..n : f[i] = g[i]
<1> DEFINE S == {i \in 0..n : f[i] = g[i]}
<1>1. 0 \in S
  BY DEF Carries
<1>2. ASSUME NEW i \in 0..(n - 1), i \in S PROVE i + 1 \in S
  <2>1. i + 1 \in 0..n /\ i + 1 # 0 /\ (i + 1) - 1 = i /\ f[i] = g[i]
    BY <1>2
  <2>2. f[i + 1] = IF ring[i + 1].conn = c THEN f[i] \o ring[i + 1].data ELSE f[i]
    BY <2>1 DEF Carries
  <2>3. g[i + 1] = IF ring[i + 1].conn = c THEN g[i] \o ring[i + 1].data ELSE g[i]
    BY <2>1 DEF Carries
  <2> QED
    BY <2>1, <2>2, <2>3
<1> HIDE DEF S
<1>3. 0..n \subseteq S
  BY <1>1, <1>2, Induction
<1> QED
  BY <1>3 DEF S

\* There is such a function, on 0..n for every n.
LEMMA CarriesExists ==
  ASSUME NEW ring, NEW c, NEW n \in Nat
  PROVE  \E f : f = Recursion(f, ring, c, n)
<1> DEFINE S == {m \in 0..n : \E f : f = Recursion(f, ring, c, m)}
<1>1. 0 \in S
  <2> DEFINE f == [i \in 0..0 |-> <<>>]
  <2>1. f = Recursion(f, ring, c, 0)
    BY DEF Recursion
  <2> HIDE DEF f
  <2> QED
    BY <2>1
<1>2. ASSUME NEW m \in 0..(n - 1), m \in S PROVE m + 1 \in S
  <2>1. PICK f : f = Recursion(f, ring, c, m)
    BY <1>2
  <2> DEFINE Value(h, i) == IF i = 0 THEN <<>>
                        ELSE IF ring[i].conn = c THEN h[i - 1] \o ring[i].data ELSE h[i - 1]
             g == [i \in 0..(m + 1) |-> IF i = m + 1 THEN Value(f, m + 1) ELSE f[i]]
  <2>2. ASSUME NEW i \in 0..(m + 1) PROVE g[i] = Value(g, i)
    <3>1. CASE i = 0
      BY <2>1, <3>1 DEF Recursion
    <3>2. CASE i \in 1..m
      <4>1. i - 1 \in 0..m /\ i - 1 # m + 1 /\ i # m + 1 /\ i \in 0..m /\ i # 0
        BY <3>2
      <4>2. g[i] = f[i] /\ g[i - 1] = f[i - 1]
        BY <4>1
      <4>3. f[i] = Value(f, i)
        BY <2>1, <4>1 DEF Recursion
      <4> QED
        BY <4>1, <4>2, <4>3
    <3>3. CASE i = m + 1
      <4>1. i - 1 \in 0..m /\ i - 1 # m + 1 /\ i # 0 /\ i - 1 \in 0..(m + 1)
        BY <3>3
      <4>2. g[i] = Value(f, i) /\ g[i - 1] = f[i - 1]
        BY <3>3, <4>1
      <4> QED
        BY <4>1, <4>2
    <3> QED
      BY <3>1, <3>2, <3>3
  <2>3. g = Recursion(g, ring, c, m + 1)
    BY <2>2 DEF Recursion
  <2>4. m + 1 \in 0..n
    OBVIOUS
  <2> HIDE DEF g
  <2> QED
    BY <2>3, <2>4
<1> HIDE DEF S
<1>3. n \in S
  BY <1>1, <1>2, Induction
<1> QED
  BY <1>3 DEF S

\* The recursion's value is what Carried says.
LEMMA CarriedIs ==
  ASSUME NEW ring, NEW c, Len(ring) \in Nat
  PROVE  \E f : Carries(f, ring, c, Len(ring)) /\ Carried(ring, c) = f[Len(ring)]
<1> DEFINE n == Len(ring)
           h == CHOOSE f : f = Recursion(f, ring, c, n)
<1>1. \E f : f = Recursion(f, ring, c, n)
  BY CarriesExists
<1>2. h = Recursion(h, ring, c, n)
  BY <1>1
<1>3. Carried(ring, c) = h[n]
  BY DEF Carried, Recursion
<1>4. Carries(h, ring, c, n)
  <2> HIDE DEF h
  <2> QED
    BY <1>2 DEF Carries, Recursion
<1> QED
  BY <1>3, <1>4

\* Whatever satisfies the recursion computes Carried.
LEMMA CarriedBy ==
  ASSUME NEW f, NEW ring, NEW c, Len(ring) \in Nat, Carries(f, ring, c, Len(ring))
  PROVE  Carried(ring, c) = f[Len(ring)]
<1>1. PICK g : Carries(g, ring, c, Len(ring)) /\ Carried(ring, c) = g[Len(ring)]
  BY CarriedIs
<1> QED
  BY <1>1, CarriesUnique
\* A ring with one packet more, and a ring of none.
LEMMA CarriedAppend ==
  ASSUME NEW ring \in Seq(Packets), NEW p \in Packets, NEW c
  PROVE  Carried(Append(ring, p), c)
           = IF p.conn = c THEN Carried(ring, c) \o p.data ELSE Carried(ring, c)
<1> DEFINE n == Len(ring)
           longer == Append(ring, p)
<1>1. /\ n \in Nat /\ Len(longer) = n + 1
      /\ \A i \in 1..n : longer[i] = ring[i]
      /\ longer[n + 1] = p
  BY AppendProperties, LenProperties
<1> HIDE DEF n, longer
<1>2. PICK f : Carries(f, longer, c, n + 1) /\ Carried(longer, c) = f[n + 1]
  BY <1>1, CarriedIs
<1>3. Carries(f, ring, c, n)
  <2> SUFFICES ASSUME NEW i \in 0..n
               PROVE  f[i] = IF i = 0 THEN <<>>
                             ELSE IF ring[i].conn = c THEN f[i - 1] \o ring[i].data ELSE f[i - 1]
    BY DEF Carries
  <2>1. i \in 0..(n + 1) /\ (i # 0 => i \in 1..n)
    BY <1>1
  <2> QED
    BY <1>1, <1>2, <2>1 DEF Carries
<1>4. Carried(ring, c) = f[n]
  BY <1>1, <1>3, CarriedBy DEF n
<1>5. f[n + 1] = IF p.conn = c THEN f[n] \o p.data ELSE f[n]
  <2>1. n + 1 \in 0..(n + 1) /\ n + 1 # 0 /\ (n + 1) - 1 = n
    BY <1>1
  <2> QED
    BY <1>1, <1>2, <2>1 DEF Carries
<1> QED
  BY <1>2, <1>4, <1>5 DEF longer

LEMMA CarriedEmpty == \A c : Carried(<<>>, c) = <<>>
<1> SUFFICES ASSUME NEW c PROVE Carried(<<>>, c) = <<>>
  OBVIOUS
<1>1. Len(<<>>) = 0
  BY EmptySeq
<1>2. PICK f : Carries(f, <<>>, c, Len(<<>>)) /\ Carried(<<>>, c) = f[Len(<<>>)]
  BY <1>1, CarriedIs
<1> QED
  BY <1>1, <1>2 DEF Carries

\* What a ring carries are bytes, at every point of the recursion.
LEMMA CarriedType ==
  ASSUME NEW ring \in Seq(Packets), NEW c
  PROVE  /\ Carried(ring, c) \in Seq(Nat)
         /\ \A f : Carries(f, ring, c, Len(ring)) => \A i \in 0..Len(ring) : f[i] \in Seq(Nat)
<1>1. Len(ring) \in Nat /\ \A i \in 1..Len(ring) : ring[i] \in Packets
  BY LenProperties, ElementOfSeq
<1>2. ASSUME NEW f, Carries(f, ring, c, Len(ring)) PROVE \A i \in 0..Len(ring) : f[i] \in Seq(Nat)
  <2> DEFINE S == {i \in 0..Len(ring) : f[i] \in Seq(Nat)}
  <2>1. 0 \in S
    <3>1. f[0] = <<>> /\ 0 \in 0..Len(ring)
      BY <1>1, <1>2 DEF Carries
    <3>2. <<>> \in Seq(Nat)
      BY EmptySeq
    <3> QED
      BY <3>1, <3>2
  <2>2. ASSUME NEW i \in 0..(Len(ring) - 1), i \in S PROVE i + 1 \in S
    <3>1. i + 1 \in 0..Len(ring) /\ i + 1 \in 1..Len(ring) /\ i + 1 # 0 /\ (i + 1) - 1 = i
      BY <1>1
    <3>2. f[i + 1] = IF ring[i + 1].conn = c THEN f[i] \o ring[i + 1].data ELSE f[i]
      BY <1>2, <3>1 DEF Carries
    <3>3. f[i] \in Seq(Nat) /\ ring[i + 1].data \in Seq(Nat)
      BY <1>1, <2>2, <3>1 DEF Packets
    <3>4. f[i] \o ring[i + 1].data \in Seq(Nat)
      BY <3>3, ConcatProperties
    <3> QED
      BY <3>1, <3>2, <3>3, <3>4
  <2> HIDE DEF S
  <2>3. 0..Len(ring) \subseteq S
    BY <1>1, <2>1, <2>2, Induction
  <2> QED
    BY <2>3 DEF S
<1>3. PICK f : Carries(f, ring, c, Len(ring)) /\ Carried(ring, c) = f[Len(ring)]
  BY <1>1, CarriedIs
<1>4. Len(ring) \in 0..Len(ring)
  BY <1>1
<1> QED
  BY <1>2, <1>3, <1>4

\* The oldest packet's bytes come first.
LEMMA CarriedTail ==
  ASSUME NEW ring \in Seq(Packets), ring # <<>>, NEW c
  PROVE  /\ Carried(ring, c) = Bytes(Head(ring), c) \o Carried(Tail(ring), c)
         /\ Bytes(Head(ring), c) \in Seq(Nat) /\ Carried(Tail(ring), c) \in Seq(Nat)
<1> DEFINE n == Len(ring)
           d == Bytes(Head(ring), c)
           rest == Tail(ring)
<1>1. /\ n \in Nat /\ n > 0 /\ Len(rest) = n - 1 /\ rest \in Seq(Packets)
      /\ \A i \in 1..(n - 1) : rest[i] = ring[i + 1]
      /\ \A i \in 1..n : ring[i] \in Packets
      /\ Head(ring) = ring[1]
  BY HeadTailProperties, LenProperties, ElementOfSeq, EmptySeq
<1>2. d \in Seq(Nat)
  BY <1>1, EmptySeq DEF Bytes, Packets
<1> HIDE DEF n, d, rest
<1>3. PICK g : Carries(g, rest, c, n - 1) /\ Carried(rest, c) = g[n - 1]
  <2>1. Len(rest) \in Nat
    BY <1>1
  <2>2. \E g : Carries(g, rest, c, Len(rest)) /\ Carried(rest, c) = g[Len(rest)]
    BY <2>1, CarriedIs
  <2> QED
    BY <1>1, <2>2
<1>4. \A i \in 0..(n - 1) : g[i] \in Seq(Nat)
  BY <1>1, <1>3, CarriedType
<1> DEFINE h == [i \in 0..n |-> IF i = 0 THEN <<>> ELSE d \o g[i - 1]]
<1>5. Carries(h, ring, c, n)
  <2> SUFFICES ASSUME NEW i \in 0..n
               PROVE  h[i] = IF i = 0 THEN <<>>
                             ELSE IF ring[i].conn = c THEN h[i - 1] \o ring[i].data ELSE h[i - 1]
    BY DEF Carries
  <2>1. CASE i = 0
    BY <2>1
  <2>2. CASE i = 1
    <3>1. g[0] = <<>>
      BY <1>1, <1>3 DEF Carries
    <3>2. h[i] = d /\ h[i - 1] = <<>>
      BY <1>1, <1>2, <2>2, <3>1, ConcatEmptySeq
    <3>3. d = IF ring[1].conn = c THEN ring[1].data ELSE <<>>
      BY <1>1 DEF d, Bytes
    <3>4. ring[1].data \in Seq(Nat)
      BY <1>1 DEF Packets
    <3>5. <<>> \o ring[1].data = ring[1].data
      BY <3>4, ConcatEmptySeq
    <3> QED
      BY <2>2, <3>2, <3>3, <3>5
  <2>3. CASE i \in 2..n
    <3>1. i - 1 \in 0..(n - 1) /\ i - 1 \in 1..(n - 1) /\ (i - 1) - 1 \in 0..(n - 1) /\ i - 1 \in 0..n /\ i - 1 # 0
          /\ (i - 1) + 1 = i /\ i # 0
      BY <1>1, <2>3
    <3>2. h[i] = d \o g[i - 1] /\ h[i - 1] = d \o g[(i - 1) - 1]
      BY <3>1
    <3>3. g[i - 1] = IF ring[i].conn = c THEN g[(i - 1) - 1] \o ring[i].data ELSE g[(i - 1) - 1]
      BY <1>1, <1>3, <3>1 DEF Carries
    <3>4. ring[i].data \in Seq(Nat) /\ g[(i - 1) - 1] \in Seq(Nat)
      BY <1>1, <1>4, <3>1 DEF Packets
    <3>5. (d \o g[(i - 1) - 1]) \o ring[i].data = d \o (g[(i - 1) - 1] \o ring[i].data)
      BY <1>2, <3>4, BytesConcat
    <3> QED
      BY <3>1, <3>2, <3>3, <3>5
  <2> QED
    BY <1>1, <2>1, <2>2, <2>3
<1>6. Carried(ring, c) = h[n]
  <2> HIDE DEF h
  <2> QED
    BY <1>1, <1>5, CarriedBy DEF n
<1>7. h[n] = d \o g[n - 1]
  BY <1>1
<1>8. g[n - 1] \in Seq(Nat)
  BY <1>1, <1>4
<1> QED
  BY <1>2, <1>3, <1>6, <1>7, <1>8 DEF d, rest

\* A ring without packets of c carries none of its bytes.
LEMMA CarriedNone ==
  ASSUME NEW ring \in Seq(Packets), NEW c,
         \A i \in 1..Len(ring) : ring[i].conn = c => ring[i].data = <<>>
  PROVE  Carried(ring, c) = <<>>
<1> DEFINE f == [i \in 0..Len(ring) |-> <<>>]
<1>1. Len(ring) \in Nat
  BY LenProperties
<1>2. <<>> \o <<>> = <<>>
  <2>1. <<>> \in Seq(Nat)
    BY EmptySeq
  <2> QED
    BY <2>1, ConcatEmptySeq
<1>3. Carries(f, ring, c, Len(ring))
  <2> SUFFICES ASSUME NEW i \in 0..Len(ring)
               PROVE  f[i] = IF i = 0 THEN <<>>
                             ELSE IF ring[i].conn = c THEN f[i - 1] \o ring[i].data ELSE f[i - 1]
    BY DEF Carries
  <2>1. i # 0 => i \in 1..Len(ring) /\ i - 1 \in 0..Len(ring)
    BY <1>1
  <2> QED
    BY <1>2, <2>1
<1>4. Carried(ring, c) = f[Len(ring)]
  <2> HIDE DEF f
  <2> QED
    BY <1>1, <1>3, CarriedBy
<1> QED
  BY <1>1, <1>4
-----------------------------------------------------------------------------
(* Rings, bytes and halves of a pipe.                                      *)

\* A ring with one packet more, and with one packet less.
LEMMA RingAppend ==
  ASSUME NEW ring \in Seq(Packets), NEW p \in Packets
  PROVE  /\ Append(ring, p) \in Seq(Packets)
         /\ Len(ring) \in Nat /\ Len(Append(ring, p)) = Len(ring) + 1
         /\ \A i \in 1..(Len(ring) + 1) : Append(ring, p)[i] = IF i = Len(ring) + 1 THEN p ELSE ring[i]
<1>1. Len(ring) \in Nat
  BY LenProperties
<1> QED
  BY <1>1, AppendProperties

LEMMA RingTail ==
  ASSUME NEW ring \in Seq(Packets), ring # <<>>
  PROVE  /\ Tail(ring) \in Seq(Packets)
         /\ Len(ring) \in Nat \ {0} /\ Len(Tail(ring)) = Len(ring) - 1
         /\ Head(ring) \in Packets /\ Head(ring) = ring[1]
         /\ \A i \in 1..(Len(ring) - 1) : Tail(ring)[i] = ring[i + 1]
  BY HeadTailProperties, LenProperties, EmptySeq

LEMMA OfAppend ==
  ASSUME NEW ring \in Seq(Packets), NEW p \in Packets, NEW c
  PROVE  /\ Of(Append(ring, p), c) = Of(ring, c) \cup (IF p.conn = c THEN {Len(ring) + 1} ELSE {})
         /\ \A op : OfOp(Append(ring, p), c, op)
                 = OfOp(ring, c, op) \cup (IF p.conn = c /\ p.op = op THEN {Len(ring) + 1} ELSE {})
<1>1. /\ Len(ring) \in Nat /\ Len(Append(ring, p)) = Len(ring) + 1
      /\ \A i \in 1..(Len(ring) + 1) : Append(ring, p)[i] = IF i = Len(ring) + 1 THEN p ELSE ring[i]
  BY RingAppend
<1>2. \A i : i \in 1..(Len(ring) + 1) <=> i \in 1..Len(ring) \/ i = Len(ring) + 1
  BY <1>1
<1>3. Len(ring) + 1 \notin 1..Len(ring)
  BY <1>1
<1> QED
  BY <1>1, <1>2, <1>3 DEF Of, OfOp

LEMMA OfTail ==
  ASSUME NEW ring \in Seq(Packets), ring # <<>>, NEW c
  PROVE  /\ \A i \in Of(Tail(ring), c) : i \in Nat \ {0} /\ i + 1 \in Of(ring, c) /\ Tail(ring)[i] = ring[i + 1]
         /\ \A op : \A i \in OfOp(Tail(ring), c, op) : i + 1 \in OfOp(ring, c, op)
         /\ \A i \in Of(ring, c) \ {1} : i - 1 \in Of(Tail(ring), c) /\ i \in Nat
         /\ \A op : \A i \in OfOp(ring, c, op) \ {1} : i - 1 \in OfOp(Tail(ring), c, op) /\ i \in Nat
<1>1. /\ Len(ring) \in Nat \ {0} /\ Len(Tail(ring)) = Len(ring) - 1
      /\ \A i \in 1..(Len(ring) - 1) : Tail(ring)[i] = ring[i + 1]
  BY RingTail
<1>2. \A i \in 1..(Len(ring) - 1) : i + 1 \in 1..Len(ring) /\ i \in Nat \ {0}
  BY <1>1
<1>3. \A i \in (1..Len(ring)) \ {1} : i - 1 \in 1..(Len(ring) - 1) /\ (i - 1) + 1 = i /\ i \in Nat
  BY <1>1
<1>4. \A i \in (1..Len(ring)) \ {1} : Tail(ring)[i - 1] = ring[i]
  BY <1>1, <1>3
<1>5. /\ \A i \in Of(Tail(ring), c) : i \in Nat \ {0} /\ i + 1 \in Of(ring, c) /\ Tail(ring)[i] = ring[i + 1]
      /\ \A op : \A i \in OfOp(Tail(ring), c, op) : i + 1 \in OfOp(ring, c, op)
  BY <1>1, <1>2 DEF Of, OfOp
<1> QED
  BY <1>1, <1>3, <1>4, <1>5 DEF Of, OfOp

\* Cutting a sequence of bytes in two.
LEMMA Cut ==
  ASSUME NEW s \in Seq(Nat), NEW n \in 0..Len(s)
  PROVE  /\ SubSeq(s, 1, n) \in Seq(Nat) /\ Len(SubSeq(s, 1, n)) = n
         /\ SubSeq(s, n + 1, Len(s)) \in Seq(Nat) /\ Len(SubSeq(s, n + 1, Len(s))) = Len(s) - n
         /\ s = SubSeq(s, 1, n) \o SubSeq(s, n + 1, Len(s))
<1>1. Len(s) \in Nat /\ \A i \in 1..Len(s) : s[i] \in Nat
  BY LenProperties, ElementOfSeq
<1>2. SubSeq(s, 1, n) \in Seq(Nat) /\ Len(SubSeq(s, 1, n)) = n
  BY <1>1, SubSeqProperties
<1>3. SubSeq(s, n + 1, Len(s)) \in Seq(Nat) /\ Len(SubSeq(s, n + 1, Len(s))) = Len(s) - n
  BY <1>1, SubSeqProperties
<1>4. 1 \in 1..(Len(s) + 1) /\ n \in (1 - 1)..Len(s) /\ Len(s) \in n..Len(s)
  BY <1>1
<1>5. SubSeq(s, 1, n) \o SubSeq(s, n + 1, Len(s)) = SubSeq(s, 1, Len(s))
  BY <1>4, ConcatAdjacentSubSeq
<1>6. SubSeq(s, 1, Len(s)) = s
  BY SubSeqFull
<1> QED
  BY <1>2, <1>3, <1>5, <1>6

\* Reading n bytes from a half, and writing to one what it accepts.
LEMMA DrainHalf ==
  ASSUME NEW h \in HalfType, NEW n \in 1..Len(h.buf)
  PROVE  /\ FrontOf(h, n) \in Seq(Nat)
         /\ Drain(h, n) \in HalfType /\ Drain(h, n).buf \in Seq(Nat)
         /\ Len(Drain(h, n).buf) <= Len(h.buf)
         /\ h.buf = FrontOf(h, n) \o Drain(h, n).buf
         /\ Drain(h, n).reader_closed = h.reader_closed
         /\ Drain(h, n).writer_closed = h.writer_closed
<1>1. h.buf \in Seq(Nat) /\ Len(h.buf) \in Nat
  BY LenProperties DEF HalfType
<1>2. n \in 0..Len(h.buf) /\ n \in Nat /\ Len(h.buf) - n <= Len(h.buf)
  BY <1>1
<1> DEFINE rest == SubSeq(h.buf, n + 1, Len(h.buf))
<1>3. /\ SubSeq(h.buf, 1, n) \in Seq(Nat)
      /\ rest \in Seq(Nat) /\ Len(rest) = Len(h.buf) - n
      /\ h.buf = SubSeq(h.buf, 1, n) \o rest
  BY <1>1, <1>2, Cut
<1>4. Drain(h, n) = [h EXCEPT !.buf = rest]
  BY DEF Drain
<1> HIDE DEF rest
<1>5. /\ Drain(h, n) \in HalfType /\ Drain(h, n).buf = rest
      /\ Drain(h, n).reader_closed = h.reader_closed
      /\ Drain(h, n).writer_closed = h.writer_closed
  BY <1>3, <1>4 DEF HalfType
<1> QED
  BY <1>2, <1>3, <1>5 DEF FrontOf

LEMMA AcceptsHalf ==
  ASSUME NEW h \in HalfType, Len(h.buf) <= Capacity, NEW k \in Nat
  PROVE  /\ Accepts(h, k) \in 0..k
         /\ Len(h.buf) + Accepts(h, k) <= Capacity
<1> DEFINE len == Len(h.buf)
           n   == IF k <= Capacity - len THEN k ELSE Capacity - len
<1>1. len \in Nat /\ len <= Capacity /\ Capacity \in Nat
  BY LenProperties, CapacityAssumption DEF HalfType
<1> HIDE DEF len
<1>2. n \in 0..k /\ len + n <= Capacity
  BY <1>1
<1> QED
  BY <1>2 DEF Accepts, len

LEMMA ExtendHalf ==
  ASSUME NEW h \in HalfType, NEW bytes \in Seq(Nat)
  PROVE  /\ Extend(h, bytes) \in HalfType
         /\ Extend(h, bytes).buf = h.buf \o bytes
         /\ Len(Extend(h, bytes).buf) = Len(h.buf) + Len(bytes)
         /\ Extend(h, bytes).reader_closed = h.reader_closed
         /\ Extend(h, bytes).writer_closed = h.writer_closed
<1>1. h.buf \in Seq(Nat)
  BY DEF HalfType
<1>2. h.buf \o bytes \in Seq(Nat) /\ Len(h.buf \o bytes) = Len(h.buf) + Len(bytes)
  BY <1>1, BytesConcat
<1>3. Extend(h, bytes) = [h EXCEPT !.buf = h.buf \o bytes]
  BY DEF Extend
<1> QED
  BY <1>2, <1>3 DEF HalfType

\* The next k bytes of a stream of n bytes, and a stream as a whole.
LEMMA FreshBytes ==
  ASSUME NEW n \in Nat, NEW k \in Nat
  PROVE  /\ Fresh(n, k) \in Seq(Nat) /\ Len(Fresh(n, k)) = k
         /\ Fresh(0, n) \in Seq(Nat) /\ Fresh(0, n) \o Fresh(n, k) = Fresh(0, n + k)
<1>1. \A m, j \in Nat : Fresh(m, j) \in Seq(Nat) /\ Len(Fresh(m, j)) = j
                         /\ \A i \in 1..j : Fresh(m, j)[i] = m + i
  <2> SUFFICES ASSUME NEW m \in Nat, NEW j \in Nat
               PROVE  Fresh(m, j) \in Seq(Nat) /\ Len(Fresh(m, j)) = j
                         /\ \A i \in 1..j : Fresh(m, j)[i] = m + i
    OBVIOUS
  <2>1. Fresh(m, j) \in [1..j -> Nat] /\ \A i \in 1..j : Fresh(m, j)[i] = m + i
    BY DEF Fresh
  <2>2. Fresh(m, j) \in Seq(Nat)
    BY <2>1, SeqDef
  <2> QED
    BY <2>1, <2>2, LenProperties
<1> DEFINE s == Fresh(0, n)
           t == Fresh(n, k)
           u == Fresh(0, n + k)
<1>2. /\ s \in Seq(Nat) /\ Len(s) = n /\ \A i \in 1..n : s[i] = 0 + i
      /\ t \in Seq(Nat) /\ Len(t) = k /\ \A i \in 1..k : t[i] = n + i
      /\ u \in Seq(Nat) /\ Len(u) = n + k /\ \A i \in 1..(n + k) : u[i] = 0 + i
  <2>1. 0 \in Nat /\ n + k \in Nat
    OBVIOUS
  <2>2. s \in Seq(Nat) /\ Len(s) = n /\ \A i \in 1..n : s[i] = 0 + i
    BY <1>1, <2>1
  <2>3. t \in Seq(Nat) /\ Len(t) = k /\ \A i \in 1..k : t[i] = n + i
    BY <1>1
  <2>4. u \in Seq(Nat) /\ Len(u) = n + k /\ \A i \in 1..(n + k) : u[i] = 0 + i
    BY <1>1, <2>1
  <2> QED
    BY <2>2, <2>3, <2>4
<1> HIDE DEF s, t, u
<1>3. /\ s \o t \in Seq(Nat) /\ Len(s \o t) = n + k
      /\ \A i \in 1..(n + k) : (s \o t)[i] = IF i <= n THEN s[i] ELSE t[i - n]
  BY <1>2, ConcatProperties
<1>4. \A i \in 1..(n + k) : (s \o t)[i] = u[i]
  <2> SUFFICES ASSUME NEW i \in 1..(n + k) PROVE (s \o t)[i] = u[i]
    OBVIOUS
  <2>1. CASE i <= n
    BY <1>2, <1>3, <2>1
  <2>2. CASE ~(i <= n)
    <3>1. i - n \in 1..k /\ n + (i - n) = i
      BY <2>2
    <3> QED
      BY <1>2, <1>3, <2>2, <3>1
  <2> QED
    BY <2>1, <2>2
<1>5. s \o t = u
  BY <1>2, <1>3, <1>4, SeqEqual
<1> QED
  BY <1>1, <1>2, <1>5 DEF s, t, u
-----------------------------------------------------------------------------
(* Type correctness.                                                       *)

ConnRecords == [state : {"none", "established", "shutdown"}, flags : SUBSET Both,
                fwd : 0..(CntMod - 1), pending : Seq(Nat)]
GuestSockets == [st : {"closed", "connecting", "open", "sendshut", "ended", "gone"},
                 tx : Nat, fwd : 0..(CntMod - 1), got : Seq(Nat), asked : BOOLEAN]
HostStreams == [st : {"none", "queued", "accepted", "shut", "dropped"},
                got : Seq(Nat), wrote : Nat, eof : BOOLEAN]

PipesTyped ==
  /\ toHost \in [Conns -> HalfType] /\ \A c \in Conns : Len(toHost[c].buf) <= Capacity
  /\ toDev \in [Conns -> HalfType] /\ \A c \in Conns : Len(toDev[c].buf) <= Capacity
ConnsTyped == conns \in [Conns -> ConnRecords] /\ \A c \in Conns : conns[c].flags # Both
PortTyped == queue \in Seq(Conns) /\ listener \in {"none", "waiting", "stale"}
WorkerTyped ==
  /\ at = Idle \/ \E pc \in {"tx", "service", "read"}, c \in Conns : at = At(pc, c)
  /\ todo \subseteq Conns /\ total \in Nat
RingsTyped ==
  /\ toGuest \in Seq(Packets) /\ toDevice \in Seq(Packets)
  /\ rxFree \in 0..RxBufs /\ rxFree + Len(toGuest) = RxBufs
DeviceTyped ==
  /\ ConnsTyped /\ PipesTyped /\ PortTyped /\ WorkerTyped /\ RingsTyped
  /\ guest \in [Conns -> GuestSockets] /\ host \in [Conns -> HostStreams]
  /\ notified \in BOOLEAN /\ rxKick \in BOOLEAN

LEMMA TypedIsTypeOK == DeviceTyped => TypeOK
<1> SUFFICES ASSUME DeviceTyped PROVE TypeOK
  OBVIOUS
<1>1. ASSUME NEW c \in Conns
      PROVE  /\ conns[c].state \in {"none", "established", "shutdown"}
             /\ conns[c].flags \in SUBSET Both /\ conns[c].flags # Both
             /\ conns[c].fwd \in 0..(CntMod - 1) /\ conns[c].pending \in Seq(Nat)
             /\ toHost[c] \in HalfType /\ Len(toHost[c].buf) <= Capacity
             /\ toDev[c] \in HalfType /\ Len(toDev[c].buf) <= Capacity
             /\ guest[c].st \in {"closed", "connecting", "open", "sendshut", "ended", "gone"}
             /\ host[c].st \in {"none", "queued", "accepted", "shut", "dropped"}
  <2>1. conns[c] \in ConnRecords /\ conns[c].flags # Both /\ guest[c] \in GuestSockets /\ host[c] \in HostStreams
    BY DEF DeviceTyped, ConnsTyped
  <2>2. toHost[c] \in HalfType /\ Len(toHost[c].buf) <= Capacity /\ toDev[c] \in HalfType /\ Len(toDev[c].buf) <= Capacity
    BY DEF DeviceTyped, PipesTyped
  <2> QED
    BY <2>1, <2>2 DEF ConnRecords, GuestSockets, HostStreams
<1>2. at.pc \in {"idle", "tx", "service", "read"} /\ at.conn \in Conns \cup {NoConn}
  BY DEF DeviceTyped, WorkerTyped, At, Idle
<1> QED
  BY <1>1, <1>2 DEF DeviceTyped, PortTyped, WorkerTyped, RingsTyped, TypeOK

\* The constants, and the records that the actions write.
LEMMA Constants ==
  /\ BufAlloc \in Nat \ {0} /\ CntMod \in Nat \ {0} /\ CntMod > BufAlloc
  /\ RxBufs \in Nat \ {0} /\ MaxBytes \in Nat /\ Capacity \in Nat \ {0} /\ NoConn \notin Conns
  BY DeviceAssumption, CapacityAssumption

LEMMA Records ==
  /\ Gone \in ConnRecords /\ Gone.flags # Both /\ Established \in ConnRecords /\ Established.flags # Both
  /\ NewHalf \in HalfType /\ Len(NewHalf.buf) <= Capacity
<1>1. 0 \in 0..(CntMod - 1) /\ {} \in SUBSET Both /\ {} # Both
  BY Constants DEF Both
<1>2. NewHalf.buf = <<>>
  BY DEF NewHalf
<1>3. Len(NewHalf.buf) <= Capacity
  BY <1>2, BytesConcat, Constants
<1> QED
  BY <1>1, <1>3, BytesConcat DEF Gone, Established, ConnRecords, NewHalf, HalfType

LEMMA PacketType ==
  ASSUME NEW c \in Conns, NEW op \in Ops, NEW data \in Seq(Nat), NEW fwd \in 0..(CntMod - 1),
         NEW flags \in SUBSET Both
  PROVE  Packet(c, op, data, fwd, flags) \in Packets
  BY DEF Packet, Packets

\* A packet without data.
LEMMA BarePacket ==
  ASSUME NEW c \in Conns, NEW op \in Ops, NEW flags \in SUBSET Both
  PROVE  Packet(c, op, <<>>, 0, flags) \in Packets
<1>1. <<>> \in Seq(Nat) /\ 0 \in 0..(CntMod - 1)
  BY BytesConcat, Constants
<1> QED
  BY <1>1, PacketType

LEMMA InitTyped == Init => DeviceTyped
<1> SUFFICES ASSUME Init PROVE DeviceTyped
  OBVIOUS
<1>1. ConnsTyped /\ PipesTyped
  BY Records DEF Init, ConnsTyped, PipesTyped
<1>2. PortTyped /\ WorkerTyped
  BY DEF Init, PortTyped, WorkerTyped
<1>3. RingsTyped
  <2>1. <<>> \in Seq(Packets) /\ Len(<<>>) = 0
    BY EmptySeq
  <2>2. rxFree = RxBufs /\ toGuest = <<>> /\ toDevice = <<>>
    BY DEF Init
  <2> QED
    BY <2>1, <2>2, Constants DEF RingsTyped
<1>4. guest \in [Conns -> GuestSockets] /\ host \in [Conns -> HostStreams]
  BY BytesConcat, Constants DEF Init, GuestSockets, HostStreams
<1> QED
  BY <1>1, <1>2, <1>3, <1>4 DEF Init, DeviceTyped

\* What Respond, Remove and TakeTx do, as types.
LEMMA RespondTyped ==
  ASSUME RingsTyped, NEW p \in Packets, Respond(p)
  PROVE  toGuest' \in Seq(Packets) /\ rxFree' \in 0..RxBufs /\ rxFree' + Len(toGuest') = RxBufs
<1>1. Len(Append(toGuest, p)) = Len(toGuest) + 1 /\ Len(toGuest) \in Nat /\ Append(toGuest, p) \in Seq(Packets)
  BY RingAppend DEF RingsTyped
<1>2. CASE rxFree > 0
  <2>1. rxFree' = rxFree - 1 /\ toGuest' = Append(toGuest, p)
    BY <1>2 DEF Respond
  <2> QED
    BY <1>1, <1>2, <2>1, Constants DEF RingsTyped
<1>3. CASE ~(rxFree > 0)
  BY <1>3 DEF Respond, RingsTyped
<1> QED
  BY <1>2, <1>3

LEMMA RemoveTyped ==
  ASSUME ConnsTyped, PipesTyped, NEW cs, Remove(cs)
  PROVE  ConnsTyped' /\ PipesTyped'
<1>1. ConnsTyped'
  <2>1. conns' = [c \in Conns |-> IF c \in cs THEN Gone ELSE conns[c]]
    BY DEF Remove
  <2> QED
    BY <2>1, Records DEF ConnsTyped
<1>2. /\ toHost' \in [Conns -> HalfType] /\ \A c \in Conns : toHost'[c].buf = toHost[c].buf
      /\ toDev' \in [Conns -> HalfType] /\ \A c \in Conns : toDev'[c].buf = toDev[c].buf
  BY DEF Remove, PipesTyped, HalfType
<1> QED
  BY <1>1, <1>2 DEF PipesTyped

LEMMA TakenTyped ==
  ASSUME RingsTyped, NEW op, TakeTx(op)
  PROVE  /\ toDevice # <<>> /\ Head(toDevice) \in Packets /\ Head(toDevice).op = op
         /\ Head(toDevice) = toDevice[1]
         /\ TxConn \in Conns /\ Head(toDevice).conn = TxConn
         /\ toDevice' = Tail(toDevice) /\ toDevice' \in Seq(Packets)
         /\ at = Idle /\ todo = {}
<1>1. Head(toDevice) \in Packets /\ Head(toDevice) = toDevice[1] /\ Tail(toDevice) \in Seq(Packets)
  BY RingTail DEF RingsTyped, TakeTx
<1> QED
  BY <1>1 DEF TakeTx, TxConn, Packets

\* A driver's packet.
LEMMA TransmitTyped ==
  ASSUME RingsTyped, NEW p \in Packets, Transmit(p)
  PROVE  toDevice' \in Seq(Packets) /\ toDevice' = Append(toDevice, p)
  BY RingAppend DEF RingsTyped, Transmit
\* The parts of the state that a step leaves alone keep their types.
LEMMA Kept ==
  ASSUME DeviceTyped
  PROVE  /\ UNCHANGED conns => ConnsTyped'
         /\ UNCHANGED pipes => PipesTyped'
         /\ UNCHANGED port => PortTyped'
         /\ UNCHANGED worker => WorkerTyped'
         /\ UNCHANGED rings => RingsTyped'
         /\ UNCHANGED guest => guest' \in [Conns -> GuestSockets]
         /\ UNCHANGED host => host' \in [Conns -> HostStreams]
         /\ UNCHANGED notified => notified' \in BOOLEAN
         /\ UNCHANGED rxKick => rxKick' \in BOOLEAN
  BY DEF DeviceTyped, ConnsTyped, PipesTyped, PortTyped, WorkerTyped, RingsTyped, pipes, port, worker, rings

LEMMA TxTyped ==
  ASSUME DeviceTyped, Tx PROVE DeviceTyped'
<1>a. RingsTyped /\ ConnsTyped /\ PipesTyped /\ WorkerTyped /\ PortTyped
  BY DEF DeviceTyped
<1>1. CASE TxRequest
  <2> DEFINE p == Packet(TxConn, "RESPONSE", <<>>, 0, {})
  <2>1. TxConn \in Conns /\ toDevice' \in Seq(Packets)
    BY <1>1, <1>a, TakenTyped DEF TxRequest
  <2>2. p \in Packets
    BY <2>1, BarePacket DEF Ops
  <2>3. RingsTyped'
    BY <1>1, <1>a, <2>1, <2>2, RespondTyped DEF TxRequest, RingsTyped
  <2>4. ConnsTyped'
    BY <1>1, <1>a, <2>1, Records DEF TxRequest, ConnsTyped
  <2>5. WorkerTyped'
    BY <1>1, <1>a, <2>1 DEF TxRequest, WorkerTyped
  <2> HIDE DEF p
  <2>6. HandOver(TxConn) /\ UNCHANGED <<rxKick, guest>>
    BY <1>1 DEF TxRequest
  <2>7. PortTyped'
    <3>1. queue' \in {queue, Append(queue, TxConn)} /\ listener' = "none"
      BY <2>6 DEF HandOver
    <3>2. Append(queue, TxConn) \in Seq(Conns)
      BY <1>a, <2>1, AppendProperties DEF PortTyped
    <3> QED
      BY <1>a, <3>1, <3>2 DEF PortTyped
  <2>8. PipesTyped' /\ notified' \in BOOLEAN
    <3>1. CASE listener = "stale"
      <4>1. /\ toHost' = [toHost EXCEPT ![TxConn].reader_closed = TRUE]
            /\ toDev' = [toDev EXCEPT ![TxConn].writer_closed = TRUE]
            /\ notified' = TRUE
        BY <2>6, <3>1 DEF HandOver
      <4>2. /\ toHost' \in [Conns -> HalfType] /\ \A c \in Conns : toHost'[c].buf = toHost[c].buf
            /\ toDev' \in [Conns -> HalfType] /\ \A c \in Conns : toDev'[c].buf = toDev[c].buf
        BY <1>a, <4>1, ZenonT(60) DEF PipesTyped, HalfType
      <4> QED
        BY <1>a, <4>1, <4>2 DEF PipesTyped
    <3>2. CASE listener # "stale"
      <4>1. UNCHANGED <<toHost, toDev, notified>>
        BY <2>6, <3>2 DEF HandOver
      <4> QED
        BY <1>a, <4>1 DEF PipesTyped, DeviceTyped
    <3> QED
      BY <3>1, <3>2
  <2>9. host' \in [Conns -> HostStreams]
    <3>1. /\ host' = [host EXCEPT ![TxConn].st =
               CASE listener = "none"    -> "queued"
                 [] listener = "waiting" -> "accepted"
                 [] listener = "stale"   -> "dropped"]
          /\ host \in [Conns -> HostStreams] /\ listener \in {"none", "waiting", "stale"}
      BY <1>a, <2>6 DEF HandOver, DeviceTyped, PortTyped
    <3> QED
      BY <2>1, <3>1 DEF HostStreams
  <2> QED
    BY <2>3, <2>4, <2>5, <2>6, <2>7, <2>8, <2>9, Kept DEF DeviceTyped
<1>2. CASE TxRw
  <2>1. /\ TxConn \in Conns /\ toDevice' \in Seq(Packets) /\ Head(toDevice) \in Packets
        /\ UNCHANGED <<pipes, port, notified, rxKick, todo, rxFree, toGuest, guest, host>>
    BY <1>2, <1>a, TakenTyped DEF TxRw
  <2>2. RingsTyped'
    BY <1>a, <2>1 DEF RingsTyped
  <2>3. conns[TxConn].pending \o Head(toDevice).data \in Seq(Nat)
    <3>1. conns[TxConn].pending \in Seq(Nat) /\ Head(toDevice).data \in Seq(Nat)
      BY <1>a, <2>1 DEF ConnsTyped, ConnRecords, Packets
    <3> QED
      BY <3>1, BytesConcat
  <2>4. /\ conns' \in {conns, [conns EXCEPT ![TxConn].pending = @ \o Head(toDevice).data]}
        /\ at' \in {at, At("tx", TxConn)} /\ total' = 0
    BY <1>2 DEF TxRw
  <2>5. ConnsTyped'
    BY <1>a, <2>1, <2>3, <2>4 DEF ConnsTyped, ConnRecords
  <2>6. WorkerTyped'
    BY <1>a, <2>1, <2>4 DEF WorkerTyped
  <2> QED
    BY <2>1, <2>2, <2>5, <2>6, Kept DEF DeviceTyped
<1>3. CASE TxRst
  <2>1. /\ toDevice' \in Seq(Packets) /\ Remove({TxConn})
        /\ UNCHANGED <<port, notified, rxKick, worker, rxFree, toGuest, guest, host>>
    BY <1>3, <1>a, TakenTyped DEF TxRst
  <2>2. RingsTyped' /\ ConnsTyped' /\ PipesTyped'
    BY <1>a, <2>1, RemoveTyped DEF RingsTyped
  <2> QED
    BY <2>1, <2>2, Kept DEF DeviceTyped
<1>4. CASE TxShutdown
  <2> DEFINE flags == conns[TxConn].flags \cup Head(toDevice).flags
  <2>1. /\ TxConn \in Conns /\ toDevice' \in Seq(Packets) /\ Head(toDevice) \in Packets
        /\ UNCHANGED <<port, notified, rxKick, worker, rxFree, toGuest, guest, host>>
    BY <1>4, <1>a, TakenTyped DEF TxShutdown
  <2>2. RingsTyped'
    BY <1>a, <2>1 DEF RingsTyped
  <2>3. CASE flags = Both \/ conns[TxConn].state = "none"
    <3>1. Remove({TxConn})
      BY <1>4, <2>3 DEF TxShutdown
    <3>2. ConnsTyped' /\ PipesTyped'
      BY <1>a, <3>1, RemoveTyped
    <3> QED
      BY <2>1, <2>2, <3>2, Kept DEF DeviceTyped
  <2>4. CASE ~(flags = Both \/ conns[TxConn].state = "none")
    <3>1. /\ conns' = [conns EXCEPT ![TxConn].state = "shutdown", ![TxConn].flags = flags]
          /\ UNCHANGED pipes
      BY <1>4, <2>4 DEF TxShutdown
    <3>2. flags \in SUBSET Both /\ flags # Both
      BY <1>a, <2>1, <2>4 DEF ConnsTyped, ConnRecords, Packets
    <3> HIDE DEF flags
    <3>3. ConnsTyped'
      BY <1>a, <2>1, <3>1, <3>2 DEF ConnsTyped, ConnRecords
    <3> QED
      BY <2>1, <2>2, <3>1, <3>3, Kept DEF DeviceTyped
  <2> QED
    BY <2>3, <2>4
<1>5. CASE TxCreditRequest
  <2>1. /\ TxConn \in Conns /\ toDevice' \in Seq(Packets) /\ CreditUpdate(TxConn)
        /\ UNCHANGED <<conns, pipes, port, notified, rxKick, worker, guest, host>>
    BY <1>5, <1>a, TakenTyped DEF TxCreditRequest
  <2>2. RingsTyped'
    <3> DEFINE p == Packet(TxConn, "CREDIT_UPDATE", <<>>, conns[TxConn].fwd, {})
    <3>1. p \in Packets
      BY <1>a, <2>1, PacketType, BytesConcat DEF ConnsTyped, ConnRecords, Ops
    <3> HIDE DEF p
    <3>2. Respond(p) \/ UNCHANGED <<rxFree, toGuest>>
      BY <2>1 DEF CreditUpdate, p
    <3> QED
      BY <1>a, <2>1, <3>1, <3>2, RespondTyped DEF RingsTyped
  <2> QED
    BY <2>1, <2>2, Kept DEF DeviceTyped
<1> QED
  BY <1>1, <1>2, <1>3, <1>4, <1>5 DEF Tx
\* The records of a connection, one by one.
LEMMA ConnFacts ==
  ASSUME DeviceTyped, NEW c \in Conns
  PROVE  /\ conns[c] \in ConnRecords /\ conns[c].state \in {"none", "established", "shutdown"}
         /\ conns[c].flags \in SUBSET Both /\ conns[c].fwd \in 0..(CntMod - 1)
         /\ conns[c].pending \in Seq(Nat) /\ Len(conns[c].pending) \in Nat
         /\ toHost[c] \in HalfType /\ toHost[c].buf \in Seq(Nat) /\ Len(toHost[c].buf) <= Capacity
         /\ toDev[c] \in HalfType /\ toDev[c].buf \in Seq(Nat) /\ Len(toDev[c].buf) <= Capacity
         /\ guest[c] \in GuestSockets /\ guest[c].tx \in Nat /\ guest[c].fwd \in 0..(CntMod - 1)
         /\ guest[c].got \in Seq(Nat)
         /\ host[c] \in HostStreams /\ host[c].wrote \in Nat /\ host[c].got \in Seq(Nat)
<1>1. conns[c] \in ConnRecords /\ guest[c] \in GuestSockets /\ host[c] \in HostStreams
  BY DEF DeviceTyped, ConnsTyped
<1>2. /\ toHost[c] \in HalfType /\ Len(toHost[c].buf) <= Capacity
      /\ toDev[c] \in HalfType /\ Len(toDev[c].buf) <= Capacity
  BY DEF DeviceTyped, PipesTyped
<1>3. toHost[c].buf \in Seq(Nat) /\ toDev[c].buf \in Seq(Nat)
  BY <1>2 DEF HalfType
<1>4. conns[c].pending \in Seq(Nat) /\ Len(conns[c].pending) \in Nat
  BY <1>1, BytesConcat DEF ConnRecords
<1> QED
  BY <1>1, <1>2, <1>3, <1>4 DEF ConnRecords, GuestSockets, HostStreams

\* A turn of the flush: n bytes leave pending for the pipe.
LEMMA Flushes ==
  ASSUME DeviceTyped, NEW c \in Conns, Flush(c)
  PROVE  \E n \in 0..Len(conns[c].pending), front \in Seq(Nat), rest \in Seq(Nat) :
           /\ conns[c].pending = front \o rest
           /\ Len(front) = n /\ Len(rest) = Len(conns[c].pending) - n
           /\ Extend(toHost[c], front) \in HalfType
           /\ Extend(toHost[c], front).buf = toHost[c].buf \o front
           /\ Len(Extend(toHost[c], front).buf) <= Capacity
           /\ Extend(toHost[c], front).reader_closed = toHost[c].reader_closed
           /\ toHost' = [toHost EXCEPT ![c] = Extend(toHost[c], front)]
           /\ conns' = [conns EXCEPT ![c].pending = rest]
           /\ total' = total + n
<1> DEFINE s == conns[c].pending
           n == Accepts(toHost[c], Len(s))
           front == SubSeq(s, 1, n)
           rest  == SubSeq(s, n + 1, Len(s))
<1>1. s \in Seq(Nat) /\ Len(s) \in Nat /\ toHost[c] \in HalfType /\ Len(toHost[c].buf) <= Capacity
  BY ConnFacts
<1>2. n \in 0..Len(s) /\ Len(toHost[c].buf) + n <= Capacity
  BY <1>1, AcceptsHalf
<1>3. /\ toHost' = [toHost EXCEPT ![c] = Extend(toHost[c], front)]
      /\ conns' = [conns EXCEPT ![c].pending = rest]
      /\ total' = total + n
  BY DEF Flush
<1> HIDE DEF n
<1>4. /\ front \in Seq(Nat) /\ rest \in Seq(Nat) /\ s = front \o rest
      /\ Len(front) = n /\ Len(rest) = Len(s) - n
  BY <1>1, <1>2, Cut
<1> HIDE DEF front, rest
<1>5. /\ Extend(toHost[c], front) \in HalfType
      /\ Extend(toHost[c], front).buf = toHost[c].buf \o front
      /\ Len(Extend(toHost[c], front).buf) <= Capacity
      /\ Extend(toHost[c], front).reader_closed = toHost[c].reader_closed
  BY <1>1, <1>2, <1>4, ExtendHalf
<1> QED
  BY <1>2, <1>3, <1>4, <1>5

\* The counters stay below the modulus.
LEMMA ForwardedType ==
  ASSUME DeviceTyped, NEW c \in Conns PROVE Forwarded(c) \in 0..(CntMod - 1)
<1>1. \A m \in Nat \ {0}, a \in Nat : a % m \in 0..(m - 1)
  OBVIOUS
<1>2. conns[c].fwd \in 0..(CntMod - 1) /\ conns[c].fwd + total \in Nat
  BY ConnFacts, Constants DEF DeviceTyped, WorkerTyped
<1> QED
  BY <1>1, <1>2, Constants DEF Forwarded

LEMMA CreditUpdateTyped ==
  ASSUME DeviceTyped, NEW c \in Conns, CreditUpdate(c), UNCHANGED toDevice
  PROVE  RingsTyped'
<1> DEFINE p == Packet(c, "CREDIT_UPDATE", <<>>, conns[c].fwd, {})
<1>1. p \in Packets
  BY ConnFacts, PacketType, BytesConcat DEF Ops
<1> HIDE DEF p
<1>2. Respond(p) \/ UNCHANGED <<rxFree, toGuest>>
  BY DEF CreditUpdate, p
<1> QED
  BY <1>1, <1>2, RespondTyped DEF DeviceTyped, RingsTyped

LEMMA WorkerStepTyped ==
  ASSUME DeviceTyped, NEW c \in Conns,
         \/ Event \/ Service(c) \/ Flush(c) \/ TxFlushed(c) \/ ServiceFlushed(c)
         \/ (\E n \in 1..Capacity : TransferRx(c, n)) \/ TransferEof(c) \/ TransferStops(c)
  PROVE  DeviceTyped'
<1>a. RingsTyped /\ ConnsTyped /\ PipesTyped /\ WorkerTyped /\ PortTyped
  BY DEF DeviceTyped
<1>1. CASE Event
  <2>1. Keys \subseteq Conns
    BY DEF Keys
  <2>2. /\ UNCHANGED <<conns, pipes, port, at, total, rings, guest, host>> /\ todo' = Keys
        /\ notified' \in {notified, FALSE} /\ rxKick' \in {rxKick, FALSE}
    BY <1>1 DEF Event
  <2>3. WorkerTyped'
    BY <1>a, <2>1, <2>2 DEF WorkerTyped
  <2> QED
    BY <2>2, <2>3, Kept DEF DeviceTyped
<1>2. CASE Service(c)
  <2>1. /\ UNCHANGED <<conns, pipes, port, notified, rxKick, rings, guest, host>>
        /\ todo' = todo \ {c} /\ at' = At("service", c) /\ total' = 0
    BY <1>2 DEF Service
  <2>2. WorkerTyped'
    BY <1>a, <2>1 DEF WorkerTyped
  <2> QED
    BY <2>1, <2>2, Kept DEF DeviceTyped
<1>3. CASE Flush(c)
  <2>1. UNCHANGED <<toDev, port, notified, rxKick, at, todo, rings, guest, host>>
    BY <1>3 DEF Flush
  <2>2. PICK n \in 0..Len(conns[c].pending), front \in Seq(Nat), rest \in Seq(Nat) :
           /\ Extend(toHost[c], front) \in HalfType
           /\ Len(Extend(toHost[c], front).buf) <= Capacity
           /\ toHost' = [toHost EXCEPT ![c] = Extend(toHost[c], front)]
           /\ conns' = [conns EXCEPT ![c].pending = rest]
           /\ total' = total + n
    BY <1>3, Flushes
  <2>3. ConnsTyped'
    BY <1>a, <2>2 DEF ConnsTyped, ConnRecords
  <2>4. PipesTyped'
    BY <1>a, <2>1, <2>2 DEF PipesTyped
  <2>5. WorkerTyped'
    <3>1. n \in Nat
      BY ConnFacts
    <3>2. total' \in Nat
      BY <1>a, <2>2, <3>1 DEF WorkerTyped
    <3> QED
      BY <1>a, <2>1, <3>2 DEF WorkerTyped
  <2> QED
    BY <2>1, <2>3, <2>4, <2>5, Kept DEF DeviceTyped
<1>4. CASE TxFlushed(c)
  <2> DEFINE p == Packet(c, "CREDIT_UPDATE", <<>>, Forwarded(c), {})
  <2>1. /\ UNCHANGED <<pipes, port, notified, rxKick, todo, total, toDevice, guest, host>>
        /\ at' = Idle /\ conns' = [conns EXCEPT ![c].fwd = Forwarded(c)] /\ Respond(p)
    BY <1>4 DEF TxFlushed
  <2>2. p \in Packets
    BY ForwardedType, PacketType, BytesConcat DEF Ops
  <2> HIDE DEF p
  <2>3. RingsTyped'
    BY <1>a, <2>1, <2>2, RespondTyped DEF RingsTyped
  <2>4. ConnsTyped'
    BY <1>a, <2>1, ForwardedType DEF ConnsTyped, ConnRecords
  <2>5. WorkerTyped'
    BY <1>a, <2>1 DEF WorkerTyped
  <2> QED
    BY <2>1, <2>3, <2>4, <2>5, Kept DEF DeviceTyped
<1>5. CASE ServiceFlushed(c)
  <2>1. /\ UNCHANGED <<conns, pipes, port, notified, rxKick, todo, total, toDevice, guest, host>>
        /\ at' \in {Idle, At("read", c)}
        /\ CreditUpdate(c) \/ UNCHANGED <<rxFree, toGuest>>
    BY <1>5 DEF ServiceFlushed
  <2>2. RingsTyped'
    BY <1>a, <2>1, CreditUpdateTyped DEF RingsTyped
  <2>3. WorkerTyped'
    BY <1>a, <2>1 DEF WorkerTyped
  <2> QED
    BY <2>1, <2>2, <2>3, Kept DEF DeviceTyped
<1>6. ASSUME NEW n \in 1..Capacity, TransferRx(c, n) PROVE DeviceTyped'
  <2> DEFINE p == Packet(c, "RW", FrontOf(toDev[c], n), conns[c].fwd, {})
  <2>1. /\ UNCHANGED <<conns, toHost, port, notified, rxKick, worker, toDevice, guest, host>>
        /\ toDev' = [toDev EXCEPT ![c] = Drain(toDev[c], n)] /\ Respond(p)
        /\ n \in 1..Len(toDev[c].buf)
    BY <1>6 DEF TransferRx
  <2>2. /\ FrontOf(toDev[c], n) \in Seq(Nat) /\ Drain(toDev[c], n) \in HalfType
        /\ Len(Drain(toDev[c], n).buf) <= Len(toDev[c].buf)
    BY <2>1, ConnFacts, DrainHalf
  <2>3. p \in Packets
    BY <2>2, ConnFacts, PacketType DEF Ops
  <2> HIDE DEF p
  <2>4. RingsTyped'
    BY <1>a, <2>1, <2>3, RespondTyped DEF RingsTyped
  <2>5. Len(Drain(toDev[c], n).buf) <= Capacity
    <3>1. Len(Drain(toDev[c], n).buf) \in Nat /\ Len(toDev[c].buf) \in Nat /\ Len(toDev[c].buf) <= Capacity
      BY <2>2, ConnFacts, BytesConcat DEF HalfType
    <3> QED
      BY <2>2, <3>1, Constants
  <2>6. PipesTyped'
    BY <1>a, <2>1, <2>2, <2>5 DEF PipesTyped
  <2> QED
    BY <2>1, <2>4, <2>6, Kept DEF DeviceTyped
<1>7. CASE TransferEof(c)
  <2> DEFINE p == Packet(c, "SHUTDOWN", <<>>, 0, Both)
  <2>1. /\ UNCHANGED <<port, notified, rxKick, todo, total, toDevice, guest, host>>
        /\ at' = Idle /\ Remove({c}) /\ Respond(p)
    BY <1>7 DEF TransferEof
  <2>2. p \in Packets
    BY BarePacket DEF Ops
  <2> HIDE DEF p
  <2>3. RingsTyped' /\ ConnsTyped' /\ PipesTyped'
    BY <1>a, <2>1, <2>2, RespondTyped, RemoveTyped DEF RingsTyped
  <2>4. WorkerTyped'
    BY <1>a, <2>1 DEF WorkerTyped
  <2> QED
    BY <2>1, <2>3, <2>4, Kept DEF DeviceTyped
<1>8. CASE TransferStops(c)
  <2>1. /\ UNCHANGED <<conns, pipes, port, notified, rxKick, todo, total, rings, guest, host>>
        /\ at' = Idle
    BY <1>8 DEF TransferStops
  <2>2. WorkerTyped'
    BY <1>a, <2>1 DEF WorkerTyped
  <2> QED
    BY <2>1, <2>2, Kept DEF DeviceTyped
<1> QED
  BY <1>1, <1>2, <1>3, <1>4, <1>5, <1>6, <1>7, <1>8
\* What the guest's driver takes from the ring.
LEMMA ReceivedTyped ==
  ASSUME DeviceTyped, GuestRecv
  PROVE  /\ toGuest # <<>> /\ Head(toGuest) \in Packets /\ Head(toGuest) = toGuest[1]
         /\ Head(toGuest).conn \in Conns
         /\ toGuest' = Tail(toGuest) /\ toGuest' \in Seq(Packets)
         /\ rxFree' \in 0..RxBufs /\ rxFree' + Len(toGuest') = RxBufs
<1>1. toGuest # <<>> /\ toGuest' = Tail(toGuest) /\ rxFree' = rxFree + 1
  BY DEF GuestRecv
<1>2. /\ Head(toGuest) \in Packets /\ Head(toGuest) = toGuest[1] /\ Tail(toGuest) \in Seq(Packets)
      /\ Len(toGuest) \in Nat \ {0} /\ Len(Tail(toGuest)) = Len(toGuest) - 1
  BY <1>1, RingTail DEF DeviceTyped, RingsTyped
<1>3. rxFree \in Nat /\ rxFree + Len(toGuest) = RxBufs
  BY DEF DeviceTyped, RingsTyped
<1>4. rxFree' \in 0..RxBufs /\ rxFree' + Len(toGuest') = RxBufs
  <2> DEFINE n == Len(toGuest)
  <2>1. n \in Nat \ {0} /\ Len(toGuest') = n - 1 /\ rxFree + n = RxBufs
    BY <1>1, <1>2, <1>3
  <2> HIDE DEF n
  <2> QED
    BY <1>1, <1>3, <2>1
<1> QED
  BY <1>1, <1>2, <1>4 DEF Packets

LEMMA GuestTyped ==
  ASSUME DeviceTyped, Guest PROVE DeviceTyped'
<1>a. RingsTyped /\ ConnsTyped /\ PipesTyped /\ WorkerTyped /\ PortTyped
  BY DEF DeviceTyped
<1>b. GuestUnchanged => UNCHANGED <<conns, pipes, port, notified, worker, host>>
  BY DEF GuestUnchanged
<1>1. CASE GuestRecv
  <2> DEFINE p == Head(toGuest)
             c == p.conn
             q == Packet(c, "RST", <<>>, 0, {})
  <2>1. /\ p \in Packets /\ c \in Conns /\ toGuest' \in Seq(Packets)
        /\ rxFree' \in 0..RxBufs /\ rxFree' + Len(toGuest') = RxBufs
    BY <1>1, ReceivedTyped
  <2>2. q \in Packets
    BY <2>1, BarePacket DEF Ops
  <2>3. /\ guest' = guest \/ guest' = [guest EXCEPT ![c] =
                    [st  |-> CASE p.op = "RESPONSE" -> "open"
                               [] p.op = "SHUTDOWN" -> "ended"
                               [] OTHER -> guest[c].st,
                     tx  |-> guest[c].tx,
                     fwd |-> p.fwd,
                     got |-> guest[c].got \o p.data,
                     asked |-> guest[c].asked]]
        /\ Transmit(q) \/ UNCHANGED toDevice
        /\ rxKick' = TRUE /\ GuestUnchanged
    BY <1>1 DEF GuestRecv
  <2> HIDE DEF p, q
  <2>4. RingsTyped'
    BY <1>a, <2>1, <2>2, <2>3, TransmitTyped DEF RingsTyped
  <2>5. guest' \in [Conns -> GuestSockets]
    <3>1. guest \in [Conns -> GuestSockets] /\ guest[c] \in GuestSockets
      BY <2>1 DEF DeviceTyped
    <3>2. guest[c].got \o p.data \in Seq(Nat) /\ p.fwd \in 0..(CntMod - 1)
      BY <2>1, <3>1, BytesConcat DEF GuestSockets, Packets
    <3> HIDE DEF c
    <3>3. /\ guest[c].st \in {"closed", "connecting", "open", "sendshut", "ended", "gone"}
          /\ guest[c].tx \in Nat /\ guest[c].asked \in BOOLEAN
      BY <3>1 DEF GuestSockets
    <3> DEFINE r == [st  |-> CASE p.op = "RESPONSE" -> "open"
                               [] p.op = "SHUTDOWN" -> "ended"
                               [] OTHER -> guest[c].st,
                     tx  |-> guest[c].tx,
                     fwd |-> p.fwd,
                     got |-> guest[c].got \o p.data,
                     asked |-> guest[c].asked]
    <3>4. r \in GuestSockets
      BY <3>2, <3>3 DEF GuestSockets
    <3>5. guest' = guest \/ guest' = [guest EXCEPT ![c] = r]
      BY <2>3
    <3> HIDE DEF r
    <3> QED
      BY <3>1, <3>4, <3>5
  <2> QED
    BY <1>b, <2>3, <2>4, <2>5, Kept DEF DeviceTyped
<1>2. CASE Reset
  <2>1. /\ Remove(Conns) /\ rxFree' = RxBufs /\ toGuest' = <<>> /\ toDevice' = <<>> /\ rxKick' = FALSE
        /\ guest' = [c \in Conns |->
             IF guest[c].st = "closed" THEN guest[c] ELSE [guest[c] EXCEPT !.st = "gone"]]
        /\ UNCHANGED <<port, notified, worker, host>>
    BY <1>2 DEF Reset
  <2>2. ConnsTyped' /\ PipesTyped'
    BY <1>a, <2>1, RemoveTyped
  <2>3. RingsTyped'
    <3>1. <<>> \in Seq(Packets) /\ Len(<<>>) = 0
      BY EmptySeq
    <3> QED
      BY <2>1, <3>1, Constants DEF RingsTyped
  <2>4. guest' \in [Conns -> GuestSockets]
    BY <2>1 DEF DeviceTyped, GuestSockets
  <2> QED
    BY <2>1, <2>2, <2>3, <2>4, Kept DEF DeviceTyped
<1>3. ASSUME NEW c \in Conns, GuestGivesUp(c) PROVE DeviceTyped'
  <2>1. guest' = [guest EXCEPT ![c].st = "gone"] /\ GuestUnchanged /\ UNCHANGED <<rxKick, rings>>
    BY <1>3 DEF GuestGivesUp
  <2>2. guest' \in [Conns -> GuestSockets]
    BY <2>1 DEF DeviceTyped, GuestSockets
  <2> QED
    BY <1>b, <2>1, <2>2, Kept DEF DeviceTyped
<1>4. ASSUME NEW c \in Conns, GuestConnect(c) PROVE DeviceTyped'
  <2> DEFINE p == Packet(c, "REQUEST", <<>>, 0, {})
  <2>1. /\ guest' = [guest EXCEPT ![c].st = "connecting"] /\ Transmit(p)
        /\ GuestUnchanged /\ UNCHANGED <<rxKick, rxFree, toGuest>>
    BY <1>4 DEF GuestConnect
  <2>2. p \in Packets
    BY BarePacket DEF Ops
  <2> HIDE DEF p
  <2>3. RingsTyped'
    BY <1>a, <2>1, <2>2, TransmitTyped DEF RingsTyped
  <2>4. guest' \in [Conns -> GuestSockets]
    BY <2>1 DEF DeviceTyped, GuestSockets
  <2> QED
    BY <1>b, <2>1, <2>3, <2>4, Kept DEF DeviceTyped
<1>5. ASSUME NEW c \in Conns, NEW k \in 1..BufAlloc, GuestSend(c, k) PROVE DeviceTyped'
  <2> DEFINE p == Packet(c, "RW", Fresh(guest[c].tx, k), 0, {})
  <2>1. /\ guest' = [guest EXCEPT ![c].tx = @ + k] /\ Transmit(p)
        /\ GuestUnchanged /\ UNCHANGED <<rxKick, rxFree, toGuest>>
    BY <1>5 DEF GuestSend
  <2>2. p \in Packets
    <3>1. Fresh(guest[c].tx, k) \in Seq(Nat) /\ 0 \in 0..(CntMod - 1)
      <4>1. guest[c].tx \in Nat /\ k \in Nat
        BY ConnFacts
      <4>2. Fresh(guest[c].tx, k) \in Seq(Nat)
        BY <4>1, FreshBytes
      <4> QED
        BY <4>2, Constants
    <3> QED
      BY <3>1, PacketType DEF Ops
  <2> HIDE DEF p
  <2>3. RingsTyped'
    BY <1>a, <2>1, <2>2, TransmitTyped DEF RingsTyped
  <2>4. guest' \in [Conns -> GuestSockets]
    <3>1. guest[c].tx + k \in Nat
      <4>1. guest[c].tx \in Nat /\ k \in Nat
        BY ConnFacts
      <4> QED
        BY <4>1
    <3> QED
      BY <2>1, <3>1 DEF DeviceTyped, GuestSockets
  <2> QED
    BY <1>b, <2>1, <2>3, <2>4, Kept DEF DeviceTyped
<1>6. ASSUME NEW c \in Conns, NEW flags \in {{"send"}, Both}, GuestShutdown(c, flags) PROVE DeviceTyped'
  <2> DEFINE p == Packet(c, "SHUTDOWN", <<>>, 0, flags)
  <2>1. /\ guest' = [guest EXCEPT ![c].st = IF flags = Both THEN "gone" ELSE "sendshut"] /\ Transmit(p)
        /\ GuestUnchanged /\ UNCHANGED <<rxKick, rxFree, toGuest>>
    BY <1>6 DEF GuestShutdown
  <2>2. p \in Packets
    <3>1. flags \in SUBSET Both
      BY DEF Both
    <3> QED
      BY <3>1, BarePacket DEF Ops
  <2> HIDE DEF p
  <2>3. RingsTyped'
    BY <1>a, <2>1, <2>2, TransmitTyped DEF RingsTyped
  <2>4. guest' \in [Conns -> GuestSockets]
    BY <2>1, ZenonT(60) DEF DeviceTyped, GuestSockets
  <2> QED
    BY <1>b, <2>1, <2>3, <2>4, Kept DEF DeviceTyped
<1>7. ASSUME NEW c \in Conns, GuestCreditRequest(c) PROVE DeviceTyped'
  <2> DEFINE p == Packet(c, "CREDIT_REQUEST", <<>>, 0, {})
  <2>1. /\ guest' = [guest EXCEPT ![c].asked = TRUE] /\ Transmit(p)
        /\ GuestUnchanged /\ UNCHANGED <<rxKick, rxFree, toGuest>>
    BY <1>7 DEF GuestCreditRequest
  <2>2. p \in Packets
    BY BarePacket DEF Ops
  <2> HIDE DEF p
  <2>3. RingsTyped'
    BY <1>a, <2>1, <2>2, TransmitTyped DEF RingsTyped
  <2>4. guest' \in [Conns -> GuestSockets]
    BY <2>1 DEF DeviceTyped, GuestSockets
  <2> QED
    BY <1>b, <2>1, <2>3, <2>4, Kept DEF DeviceTyped
<1> QED
  BY <1>1, <1>2, <1>3, <1>4, <1>5, <1>6, <1>7 DEF Guest

\* What the host's write puts into the pipe.
LEMMA Writes ==
  ASSUME DeviceTyped, NEW c \in Conns, NEW k \in 1..MaxBytes, HostWrite(c, k)
  PROVE  \E n \in Nat :
           /\ toDev' = [toDev EXCEPT ![c] = Extend(toDev[c], Fresh(host[c].wrote, n))]
           /\ host' = [host EXCEPT ![c].wrote = @ + n]
           /\ Extend(toDev[c], Fresh(host[c].wrote, n)) \in HalfType
           /\ Extend(toDev[c], Fresh(host[c].wrote, n)).buf = toDev[c].buf \o Fresh(host[c].wrote, n)
           /\ Len(Extend(toDev[c], Fresh(host[c].wrote, n)).buf) <= Capacity
<1> DEFINE n == Accepts(toDev[c], k)
           bytes == Fresh(host[c].wrote, n)
<1>1. /\ toDev' = [toDev EXCEPT ![c] = Extend(toDev[c], bytes)]
      /\ host' = [host EXCEPT ![c].wrote = @ + n]
  BY DEF HostWrite
<1>2. /\ toDev[c] \in HalfType /\ Len(toDev[c].buf) <= Capacity /\ host[c].wrote \in Nat
      /\ toDev[c].buf \in Seq(Nat) /\ k \in Nat
  BY ConnFacts
<1>a. n \in 0..k /\ Len(toDev[c].buf) + n <= Capacity
  BY <1>2, AcceptsHalf
<1> HIDE DEF n
<1>3. n \in Nat /\ Len(toDev[c].buf) + n <= Capacity
  BY <1>2, <1>a
<1>4. bytes \in Seq(Nat) /\ Len(bytes) = n
  BY <1>2, <1>3, FreshBytes
<1>5. /\ Extend(toDev[c], bytes) \in HalfType
      /\ Extend(toDev[c], bytes).buf = toDev[c].buf \o bytes
      /\ Len(Extend(toDev[c], bytes).buf) <= Capacity
  BY <1>2, <1>3, <1>4, ExtendHalf
<1> QED
  BY <1>1, <1>3, <1>5

\* What the host's read takes from it.
LEMMA Reads ==
  ASSUME DeviceTyped, NEW c \in Conns, NEW n, HostRead(c, n)
  PROVE  /\ toHost' = [toHost EXCEPT ![c] = Drain(toHost[c], n)]
         /\ host' = [host EXCEPT ![c].got = @ \o FrontOf(toHost[c], n)]
         /\ FrontOf(toHost[c], n) \in Seq(Nat) /\ host[c].got \o FrontOf(toHost[c], n) \in Seq(Nat)
         /\ Drain(toHost[c], n) \in HalfType /\ Drain(toHost[c], n).buf \in Seq(Nat)
         /\ Drain(toHost[c], n).reader_closed = toHost[c].reader_closed
         /\ Len(Drain(toHost[c], n).buf) <= Capacity
         /\ toHost[c].buf = FrontOf(toHost[c], n) \o Drain(toHost[c], n).buf
<1>1. /\ toHost' = [toHost EXCEPT ![c] = Drain(toHost[c], n)]
      /\ host' = [host EXCEPT ![c].got = @ \o FrontOf(toHost[c], n)]
      /\ n \in 1..Len(toHost[c].buf)
  BY DEF HostRead
<1>2. /\ toHost[c] \in HalfType /\ toHost[c].buf \in Seq(Nat) /\ Len(toHost[c].buf) <= Capacity
      /\ host[c].got \in Seq(Nat)
  BY ConnFacts
<1>3. /\ FrontOf(toHost[c], n) \in Seq(Nat)
      /\ Drain(toHost[c], n) \in HalfType /\ Drain(toHost[c], n).buf \in Seq(Nat)
      /\ Drain(toHost[c], n).reader_closed = toHost[c].reader_closed
      /\ Len(Drain(toHost[c], n).buf) <= Len(toHost[c].buf)
      /\ toHost[c].buf = FrontOf(toHost[c], n) \o Drain(toHost[c], n).buf
  BY <1>1, <1>2, DrainHalf
<1>4. Len(Drain(toHost[c], n).buf) <= Capacity
  <2> DEFINE a == Len(Drain(toHost[c], n).buf)
             b == Len(toHost[c].buf)
  <2>1. a \in Nat /\ b \in Nat /\ a <= b /\ b <= Capacity
    BY <1>2, <1>3, BytesConcat
  <2> HIDE DEF a, b
  <2>2. a <= Capacity
    BY <2>1, Constants
  <2> QED
    BY <2>2 DEF a
<1>5. host[c].got \o FrontOf(toHost[c], n) \in Seq(Nat)
  BY <1>2, <1>3, BytesConcat
<1> QED
  BY <1>1, <1>3, <1>4, <1>5

LEMMA HostTyped ==
  ASSUME DeviceTyped, Host PROVE DeviceTyped'
<1>a. RingsTyped /\ ConnsTyped /\ PipesTyped /\ WorkerTyped /\ PortTyped
  BY DEF DeviceTyped
<1>b. HostUnchanged => UNCHANGED <<conns, rxKick, worker, rings, guest>>
  BY DEF HostUnchanged
<1>1. CASE Accept
  <2>1. HostUnchanged /\ UNCHANGED <<pipes, notified>>
    BY <1>1 DEF Accept
  <2>2. CASE queue # <<>>
    <3>1. host' = [host EXCEPT ![Head(queue)].st = "accepted"] /\ queue' = Tail(queue) /\ UNCHANGED listener
      BY <1>1, <2>2 DEF Accept
    <3>2. Tail(queue) \in Seq(Conns) /\ Head(queue) \in Conns
      BY <1>a, <2>2, HeadTailProperties DEF PortTyped
    <3>3. PortTyped' /\ host' \in [Conns -> HostStreams]
      BY <1>a, <3>1, <3>2 DEF PortTyped, DeviceTyped, HostStreams
    <3> QED
      BY <1>b, <2>1, <3>3, Kept DEF DeviceTyped
  <2>3. CASE queue = <<>>
    <3>1. listener' = "waiting" /\ UNCHANGED <<queue, host>>
      BY <1>1, <2>3 DEF Accept
    <3>2. PortTyped'
      BY <1>a, <3>1 DEF PortTyped
    <3> QED
      BY <1>b, <2>1, <3>1, <3>2, Kept DEF DeviceTyped
  <2> QED
    BY <2>2, <2>3
<1>2. CASE AcceptTimesOut
  <2>1. listener' = "stale" /\ HostUnchanged /\ UNCHANGED <<pipes, notified, queue, host>>
    BY <1>2 DEF AcceptTimesOut
  <2>2. PortTyped'
    BY <1>a, <2>1 DEF PortTyped
  <2> QED
    BY <1>b, <2>1, <2>2, Kept DEF DeviceTyped
<1>3. ASSUME NEW c \in Conns, NEW n \in 1..Capacity, HostRead(c, n) PROVE DeviceTyped'
  <2>1. notified' = TRUE /\ HostUnchanged /\ UNCHANGED <<toDev, port>>
    BY <1>3 DEF HostRead
  <2>2. /\ toHost' = [toHost EXCEPT ![c] = Drain(toHost[c], n)]
        /\ host' = [host EXCEPT ![c].got = @ \o FrontOf(toHost[c], n)]
        /\ host[c].got \o FrontOf(toHost[c], n) \in Seq(Nat)
        /\ Drain(toHost[c], n) \in HalfType /\ Len(Drain(toHost[c], n).buf) <= Capacity
    BY <1>3, Reads
  <2>3. PipesTyped' /\ host' \in [Conns -> HostStreams]
    BY <1>a, <2>1, <2>2 DEF PipesTyped, HostStreams, DeviceTyped
  <2> QED
    BY <1>b, <2>1, <2>3, Kept DEF DeviceTyped
<1>4. ASSUME NEW c \in Conns, HostReadEof(c) PROVE DeviceTyped'
  <2>1. host' = [host EXCEPT ![c].eof = TRUE] /\ HostUnchanged /\ UNCHANGED <<pipes, notified, port>>
    BY <1>4 DEF HostReadEof
  <2>2. host' \in [Conns -> HostStreams]
    BY <2>1 DEF HostStreams, DeviceTyped
  <2> QED
    BY <1>b, <2>1, <2>2, Kept DEF DeviceTyped
<1>5. ASSUME NEW c \in Conns, NEW k \in 1..MaxBytes, HostWrite(c, k) PROVE DeviceTyped'
  <2>1. notified' = TRUE /\ HostUnchanged /\ UNCHANGED <<toHost, port>>
    BY <1>5 DEF HostWrite
  <2>2. PICK n \in Nat :
           /\ toDev' = [toDev EXCEPT ![c] = Extend(toDev[c], Fresh(host[c].wrote, n))]
           /\ host' = [host EXCEPT ![c].wrote = @ + n]
           /\ Extend(toDev[c], Fresh(host[c].wrote, n)) \in HalfType
           /\ Len(Extend(toDev[c], Fresh(host[c].wrote, n)).buf) <= Capacity
    BY <1>5, Writes
  <2> DEFINE h == Extend(toDev[c], Fresh(host[c].wrote, n))
  <2>3. toDev' = [toDev EXCEPT ![c] = h] /\ h \in HalfType /\ Len(h.buf) <= Capacity
    BY <2>2
  <2>4. host[c].wrote + n \in Nat /\ host' = [host EXCEPT ![c].wrote = host[c].wrote + n]
    <3>1. host[c].wrote \in Nat
      BY ConnFacts
    <3> QED
      BY <2>2, <3>1
  <2> HIDE DEF h
  <2>5. PipesTyped'
    BY <1>a, <2>1, <2>3 DEF PipesTyped
  <2>6. host' \in [Conns -> HostStreams]
    BY <2>4 DEF HostStreams, DeviceTyped
  <2> QED
    BY <1>b, <2>1, <2>5, <2>6, Kept DEF DeviceTyped
<1>6. ASSUME NEW c \in Conns, HostShutdown(c) PROVE DeviceTyped'
  <2>1. /\ host' = [host EXCEPT ![c].st = "shut"] /\ toDev' = [toDev EXCEPT ![c].writer_closed = TRUE]
        /\ notified' = TRUE /\ HostUnchanged /\ UNCHANGED <<toHost, port>>
    BY <1>6 DEF HostShutdown
  <2>2. toDev' \in [Conns -> HalfType] /\ \A d \in Conns : toDev'[d].buf = toDev[d].buf
    BY <1>a, <2>1 DEF PipesTyped, HalfType
  <2>3. PipesTyped' /\ host' \in [Conns -> HostStreams]
    BY <1>a, <2>1, <2>2 DEF PipesTyped, HostStreams, DeviceTyped
  <2> QED
    BY <1>b, <2>1, <2>3, Kept DEF DeviceTyped
<1>7. ASSUME NEW c \in Conns, HostDrop(c) PROVE DeviceTyped'
  <2>1. /\ host' = [host EXCEPT ![c].st = "dropped"]
        /\ toHost' = [toHost EXCEPT ![c].reader_closed = TRUE]
        /\ toDev' = [toDev EXCEPT ![c].writer_closed = TRUE]
        /\ notified' = TRUE /\ HostUnchanged /\ UNCHANGED port
    BY <1>7 DEF HostDrop
  <2>2. /\ toHost' \in [Conns -> HalfType] /\ \A d \in Conns : toHost'[d].buf = toHost[d].buf
        /\ toDev' \in [Conns -> HalfType] /\ \A d \in Conns : toDev'[d].buf = toDev[d].buf
    BY <1>a, <2>1, ZenonT(60) DEF PipesTyped, HalfType
  <2>3. PipesTyped' /\ host' \in [Conns -> HostStreams]
    BY <1>a, <2>1, <2>2, ZenonT(60) DEF PipesTyped, HostStreams, DeviceTyped
  <2> QED
    BY <1>b, <2>1, <2>3, Kept DEF DeviceTyped
<1> QED
  BY <1>1, <1>2, <1>3, <1>4, <1>5, <1>6, <1>7 DEF Host, HostReads

LEMMA NextTyped == DeviceTyped /\ [Next]_allVars => DeviceTyped'
<1> SUFFICES ASSUME DeviceTyped, [Next]_allVars PROVE DeviceTyped'
  OBVIOUS
<1>1. CASE Worker
  <2>1. CASE Event
    <3>1. CASE Conns = {}
      <4>1. /\ UNCHANGED <<conns, pipes, port, at, total, rings, guest, host>> /\ todo' = Keys /\ Keys \subseteq Conns
            /\ notified' \in {notified, FALSE} /\ rxKick' \in {rxKick, FALSE}
        BY <2>1 DEF Event, Keys
      <4>2. WorkerTyped'
        BY <4>1 DEF DeviceTyped, WorkerTyped
      <4> QED
        BY <4>1, <4>2, Kept DEF DeviceTyped
    <3>2. CASE Conns # {}
      BY <2>1, <3>2, WorkerStepTyped
    <3> QED
      BY <3>1, <3>2
  <2> QED
    BY <1>1, <2>1, TxTyped, WorkerStepTyped DEF Worker
<1>2. CASE UNCHANGED allVars
  BY <1>2, Kept DEF allVars, vars, DeviceTyped
<1> QED
  BY <1>1, <1>2, GuestTyped, HostTyped DEF Next, Step

LEMMA DeviceTypes == SafeSpec => []DeviceTyped
BY InitTyped, NextTyped, PTL DEF SafeSpec

\* Type correctness: in particular the buffers of the guest are all accounted
\* for, in the RX ring or in its used part, and no pipe exceeds its capacity.
THEOREM DeviceTypeCorrect == SafeSpec => []TypeOK
BY DeviceTypes, TypedIsTypeOK, PTL
-----------------------------------------------------------------------------
(* What a step of each of the three leaves alone.                          *)

LEMMA HostFrame ==
  ASSUME Host
  PROVE  /\ UNCHANGED <<conns, rxKick, at, todo, total, rxFree, toGuest, toDevice, guest>>
         /\ notified' = TRUE \/ UNCHANGED <<toHost, toDev, notified>>
<1> USE DEF HostUnchanged, pipes, worker, rings
<1>1. CASE Accept
  BY <1>1 DEF Accept
<1>2. CASE AcceptTimesOut
  BY <1>2 DEF AcceptTimesOut
<1>3. ASSUME NEW c \in Conns, HostReads(c) PROVE HostUnchanged /\ (notified' = TRUE \/ UNCHANGED <<pipes, notified>>)
  BY <1>3 DEF HostReads, HostRead, HostReadEof
<1>4. ASSUME NEW c \in Conns, NEW k \in 1..MaxBytes, HostWrite(c, k) PROVE HostUnchanged /\ notified' = TRUE
  BY <1>4 DEF HostWrite
<1>5. ASSUME NEW c \in Conns, HostShutdown(c) \/ HostDrop(c) PROVE HostUnchanged /\ notified' = TRUE
  BY <1>5 DEF HostShutdown, HostDrop
<1> QED
  BY <1>1, <1>2, <1>3, <1>4, <1>5 DEF Host

LEMMA GuestFrame ==
  ASSUME Guest
  PROVE  \/ Reset
         \/ /\ UNCHANGED <<conns, toHost, toDev, queue, listener, notified, at, todo, total, host>>
            /\ rxKick' = TRUE \/ UNCHANGED <<rxKick, rxFree, toGuest>>
<1> USE DEF GuestUnchanged, pipes, port, worker, rings
<1>1. CASE GuestRecv
  BY <1>1 DEF GuestRecv
<1>2. ASSUME NEW c \in Conns, GuestConnect(c) \/ GuestGivesUp(c) \/ GuestCreditRequest(c)
      PROVE  GuestUnchanged /\ UNCHANGED <<rxKick, rxFree, toGuest>>
  BY <1>2 DEF GuestConnect, GuestGivesUp, GuestCreditRequest
<1>3. ASSUME NEW c \in Conns, NEW k \in 1..BufAlloc, GuestSend(c, k)
      PROVE  GuestUnchanged /\ UNCHANGED <<rxKick, rxFree, toGuest>>
  BY <1>3 DEF GuestSend
<1>4. ASSUME NEW c \in Conns, NEW flags \in {{"send"}, Both}, GuestShutdown(c, flags)
      PROVE  GuestUnchanged /\ UNCHANGED <<rxKick, rxFree, toGuest>>
  BY <1>4 DEF GuestShutdown
<1> QED
  BY <1>1, <1>2, <1>3, <1>4 DEF Guest

\* Where the worker is, at most once.
LEMMA Places ==
  \A pc, qc, c, d : Idle # At("tx", c) /\ Idle # At("service", c) /\ Idle # At("read", c)
                      /\ (At(pc, c) = At(qc, d) => pc = qc /\ c = d)
  BY DEF Idle, At

\* What remove_conn leaves of each connection.
LEMMA Removes ==
  ASSUME DeviceTyped, NEW cs, Remove(cs), NEW c \in Conns
  PROVE  /\ conns'[c] = IF c \in cs THEN Gone ELSE conns[c]
         /\ toHost'[c].buf = toHost[c].buf /\ toDev'[c].buf = toDev[c].buf
         /\ c \notin cs => toHost'[c] = toHost[c] /\ toDev'[c] = toDev[c]
<1>1. toHost[c] \in HalfType /\ toDev[c] \in HalfType
  BY ConnFacts
<1> QED
  BY <1>1 DEF Remove, HalfType

-----------------------------------------------------------------------------
(* A connection that was removed left nothing behind.                      *)

LEMMA GoneNext == DeviceTyped /\ GoneIsGone /\ [Next]_allVars => GoneIsGone'
<1> SUFFICES ASSUME DeviceTyped, GoneIsGone, [Next]_allVars, NEW c \in Conns
             PROVE  /\ conns'[c].state = "none" => conns'[c] = Gone
                    /\ at' = At("tx", c) => conns'[c].state = "established"
  BY DEF GoneIsGone, Alive
<1>a. /\ conns[c].state = "none" => conns[c] = Gone
      /\ at = At("tx", c) => conns[c].state = "established"
  BY DEF GoneIsGone, Alive
<1>b. conns \in [Conns -> ConnRecords]
  BY DEF DeviceTyped, ConnsTyped
<1>c. Gone.state = "none" /\ Established.state = "established"
  BY DEF Gone, Established
<1>1. CASE UNCHANGED <<conns, at>>
  BY <1>1, <1>a
<1>2. ASSUME NEW cs, Remove(cs), at' = Idle
      PROVE  (conns'[c].state = "none" => conns'[c] = Gone) /\ at' # At("tx", c)
  BY <1>2, <1>a, Removes, Places
<1>3. CASE Tx
  <2>1. CASE TxRequest
    BY <2>1, <1>a, <1>b, <1>c, Places DEF TxRequest
  <2>2. CASE TxRw
    <3>1. CASE conns[TxConn].state = "established"
      <4>1. conns' = [conns EXCEPT ![TxConn].pending = @ \o Head(toDevice).data] /\ at' = At("tx", TxConn)
        BY <2>2, <3>1 DEF TxRw
      <4>2. conns'[c].state = conns[c].state /\ (c # TxConn => conns'[c] = conns[c])
        BY <4>1, <1>b DEF ConnRecords
      <4> QED
        BY <3>1, <4>1, <4>2, <1>a, Places, ZenonT(60)
    <3>2. CASE conns[TxConn].state # "established"
      BY <2>2, <3>2, <1>1 DEF TxRw
    <3> QED
      BY <3>1, <3>2
  <2>3. CASE TxRst
    BY <2>3, <1>2 DEF TxRst, TakeTx, worker
  <2>4. CASE TxShutdown
    <3> DEFINE flags == conns[TxConn].flags \cup Head(toDevice).flags
    <3>1. at' = Idle
      BY <2>4 DEF TxShutdown, TakeTx, worker
    <3>2. CASE flags = Both \/ conns[TxConn].state = "none"
      BY <2>4, <3>1, <3>2, <1>2 DEF TxShutdown
    <3>3. CASE ~(flags = Both \/ conns[TxConn].state = "none")
      <4>1. conns' = [conns EXCEPT ![TxConn].state = "shutdown", ![TxConn].flags = flags]
        BY <2>4, <3>3 DEF TxShutdown
      <4>2. conns'[c].state \in {conns[c].state, "shutdown"} /\ (conns'[c].state # "shutdown" => conns'[c] = conns[c])
        BY <4>1, <1>b DEF ConnRecords
      <4> QED
        BY <3>1, <4>2, <1>a, Places
    <3> QED
      BY <3>2, <3>3
  <2>5. CASE TxCreditRequest
    BY <2>5, <1>1 DEF TxCreditRequest, worker
  <2> QED
    BY <1>3, <2>1, <2>2, <2>3, <2>4, <2>5 DEF Tx
<1>4. CASE Event
  BY <1>4, <1>1 DEF Event
<1>5. ASSUME NEW d \in Conns, Service(d)
      PROVE  conns' = conns /\ at' = At("service", d)
  BY <1>5 DEF Service
<1>6. ASSUME NEW d \in Conns, Flush(d)
      PROVE  /\ conns'[c].state = "none" => conns'[c] = Gone
             /\ at' = At("tx", c) => conns'[c].state = "established"
  <2>1. PICK rest : conns' = [conns EXCEPT ![d].pending = rest]
    BY <1>6 DEF Flush
  <2>2. conns[d].pending # <<>> /\ at' = at
    BY <1>6 DEF Flush
  <2>3. conns[d].state # "none"
    BY <2>2 DEF GoneIsGone, Gone
  <2>4. conns'[c].state = conns[c].state /\ (c # d => conns'[c] = conns[c])
    BY <2>1, <1>b DEF ConnRecords
  <2> QED
    BY <2>2, <2>3, <2>4, <1>a
<1>7. ASSUME NEW d \in Conns, TxFlushed(d)
      PROVE  (conns'[c].state = "none" => conns'[c] = Gone) /\ at' = Idle
  <2>1. conns' = [conns EXCEPT ![d].fwd = Forwarded(d)] /\ at' = Idle /\ at = At("tx", d)
    BY <1>7 DEF TxFlushed
  <2>2. conns[d].state = "established"
    BY <2>1 DEF GoneIsGone, Alive
  <2>3. conns'[c].state = conns[c].state /\ (c # d => conns'[c] = conns[c])
    BY <2>1, <1>b DEF ConnRecords
  <2> QED
    BY <2>1, <2>2, <2>3, <1>a
<1>8. ASSUME NEW d \in Conns, ServiceFlushed(d)
      PROVE  conns' = conns /\ at' \in {Idle, At("read", d)}
  BY <1>8 DEF ServiceFlushed
<1>9. ASSUME NEW d \in Conns, (\E n \in 1..Capacity : TransferRx(d, n)) \/ TransferStops(d)
      PROVE  conns' = conns /\ at' \in {at, Idle}
  BY <1>9 DEF TransferRx, TransferStops, worker
<1>10. ASSUME NEW d \in Conns, TransferEof(d)
       PROVE  (conns'[c].state = "none" => conns'[c] = Gone) /\ at' # At("tx", c)
  BY <1>10, <1>2 DEF TransferEof
<1>11. CASE Worker
  BY <1>11, <1>3, <1>4, <1>5, <1>6, <1>7, <1>8, <1>9, <1>10, <1>a, Places DEF Worker
<1>12. CASE Guest
  <2>1. CASE Reset
    BY <2>1, <1>2 DEF Reset, worker
  <2> QED
    BY <1>12, <2>1, <1>1, GuestFrame
<1>13. CASE Host
  BY <1>13, <1>1, HostFrame
<1>14. CASE UNCHANGED allVars
  BY <1>14, <1>1 DEF allVars, vars, worker
<1> QED
  BY <1>11, <1>12, <1>13, <1>14 DEF Next, Step

LEMMA GoneInit == Init => GoneIsGone
  BY Places DEF Init, GoneIsGone

LEMMA GoneInvariant == SafeSpec => []GoneIsGone
BY DeviceTypes, GoneInit, GoneNext, PTL DEF SafeSpec
-----------------------------------------------------------------------------
(* The worker never sleeps over work.                                      *)

\* Sending packets does not give a connection work to do.
LEMMA RespondTakes ==
  ASSUME DeviceTyped,
         \/ \E p : Respond(p)
         \/ \E c : CreditUpdate(c)
         \/ UNCHANGED <<rxFree, toGuest>>
  PROVE  rxFree' > 0 => rxFree > 0
  BY DEF Respond, CreditUpdate, DeviceTyped, RingsTyped

LEMMA NoNewWork ==
  ASSUME NEW c \in Conns,
         rxFree' > 0 => rxFree > 0,
         conns'[c] = conns[c], toHost'[c] = toHost[c], toDev'[c] = toDev[c]
  PROVE  (Unflushed(c)' => Unflushed(c)) /\ (Unread(c)' => Unread(c))
<1>1. IsFull(toHost'[c]) <=> IsFull(toHost[c])
  BY DEF IsFull
<1>2. IsReadable(toDev'[c]) <=> IsReadable(toDev[c])
  BY DEF IsReadable, IsEmpty
<1> QED
  BY <1>1, <1>2 DEF Unflushed, Unread, Alive, IsFull, IsReadable, IsEmpty

LEMMA GoneHasNoWork ==
  ASSUME NEW c \in Conns, conns[c] = Gone PROVE ~Unflushed(c) /\ ~Unread(c)
  BY DEF Gone, Unflushed, Unread, Alive

LEMMA WorkNext == DeviceTyped /\ GoneIsGone /\ WorkIsSeen /\ [Next]_allVars => WorkIsSeen'
<1> SUFFICES ASSUME DeviceTyped, GoneIsGone, WorkIsSeen, [Next]_allVars,
                    ~notified', ~rxKick', NEW c \in Conns, c \notin todo'
             PROVE  /\ Unflushed(c)' => at' \in {At("tx", c), At("service", c)}
                    /\ Unread(c)' => at' \in {At("service", c), At("read", c)}
  BY DEF WorkIsSeen
<1> DEFINE Seen == /\ Unflushed(c) => at \in {At("tx", c), At("service", c)}
                   /\ Unread(c) => at \in {At("service", c), At("read", c)}
           Goal == /\ Unflushed(c)' => at' \in {At("tx", c), At("service", c)}
                   /\ Unread(c)' => at' \in {At("service", c), At("read", c)}
<1>a. ~notified /\ ~rxKick /\ c \notin todo => Seen
  BY DEF WorkIsSeen
<1>b. conns \in [Conns -> ConnRecords] /\ rxFree \in Nat
  BY DEF DeviceTyped, ConnsTyped, RingsTyped
<1>c. conns'[c] = Gone => ~Unflushed(c)' /\ ~Unread(c)'
  BY DEF Gone, Unflushed, Unread, Alive
<1>d. Seen /\ at = Idle => ~Unflushed(c) /\ ~Unread(c)
  BY Places
<1> SUFFICES Goal
  OBVIOUS
<1> HIDE DEF Goal
<1>1. CASE UNCHANGED <<conns, toHost, toDev, rxFree, notified, rxKick, todo, at>>
  <2>1. (Unflushed(c)' <=> Unflushed(c)) /\ (Unread(c)' <=> Unread(c))
    BY <1>1 DEF Unflushed, Unread, Alive, IsFull, IsReadable, IsEmpty
  <2> QED
    BY <1>1, <1>a, <2>1 DEF Goal
<1>2. ASSUME NEW cs, Remove(cs), (~notified /\ ~rxKick /\ c \notin todo) \/ cs = Conns,
             rxFree' > 0 => rxFree > 0, at = Idle \/ \E d \in cs : at = At("read", d)
      PROVE  Goal
  <2>1. CASE c \in cs
    BY <1>2, <2>1, <1>c, Removes DEF Goal
  <2>2. CASE c \notin cs
    <3>1. ~notified /\ ~rxKick /\ c \notin todo
      BY <1>2, <2>2
    <3>2. (Unflushed(c)' => Unflushed(c)) /\ (Unread(c)' => Unread(c))
      BY <1>2, <2>2, Removes, NoNewWork
    <3>3. ~Unflushed(c) /\ ~Unread(c)
      BY <1>2, <2>2, <3>1, <1>a, Places
    <3> QED
      BY <3>2, <3>3 DEF Goal
  <2> QED
    BY <2>1, <2>2
<1>3. CASE Tx
  <2>1. at = Idle /\ todo = {}
    BY <1>3 DEF Tx, TxRequest, TxRw, TxRst, TxShutdown, TxCreditRequest, TakeTx
  <2>2. rxKick' = rxKick
    BY <1>3 DEF Tx, TxRequest, TxRw, TxRst, TxShutdown, TxCreditRequest
  <2>3. (notified' = notified /\ UNCHANGED <<toHost, toDev>>) \/ TxRst \/ TxShutdown
    <3>1. CASE TxRequest
      <4>1. HandOver(TxConn)
        BY <3>1 DEF TxRequest
      <4> QED
        BY <4>1 DEF HandOver
    <3> QED
      BY <1>3, <3>1 DEF Tx, TxRw, TxCreditRequest, pipes
  <2>4. notified' = notified
    BY <2>3 DEF TxRst, TxShutdown
  <2>5. ~Unflushed(c) /\ ~Unread(c)
    BY <2>1, <2>2, <2>4, <1>a, <1>d
  <2>6. CASE TxRequest
    <3>1. /\ \E p : Respond(p)
          /\ conns' = [conns EXCEPT ![TxConn] = Established] /\ at' = At("read", TxConn)
      BY <2>6 DEF TxRequest
    <3>2. rxFree' > 0 => rxFree > 0
      BY <3>1, RespondTakes
    <3>3. UNCHANGED <<toHost, toDev>>
      BY <2>6, <2>3 DEF TxRequest, TxRst, TxShutdown, TakeTx
    <3>4. CASE c = TxConn
      <4>1. ~Unflushed(c)'
        BY <3>1, <3>4, <1>b DEF Unflushed, Established, Gone
      <4> QED
        BY <3>1, <3>4, <4>1 DEF Goal
    <3>5. CASE c # TxConn
      BY <3>1, <3>2, <3>3, <3>5, <2>5, <1>b, NoNewWork DEF Goal
    <3> QED
      BY <3>4, <3>5
  <2>7. CASE TxRw
    <3>1. UNCHANGED <<toHost, toDev, rxFree>>
      BY <2>7 DEF TxRw, pipes
    <3>2. CASE conns[TxConn].state = "established"
      <4>1. conns' = [conns EXCEPT ![TxConn].pending = @ \o Head(toDevice).data] /\ at' = At("tx", TxConn)
        BY <2>7, <3>2 DEF TxRw
      <4>2. CASE c = TxConn
        <5>1. conns'[c].state = conns[c].state
          BY <4>1, <1>b DEF ConnRecords
        <5>2. ~Unread(c)'
          BY <3>1, <5>1, <2>5 DEF Unread, Alive
        <5> QED
          BY <4>1, <4>2, <5>2 DEF Goal
      <4>3. CASE c # TxConn
        BY <3>1, <4>1, <4>3, <2>5, <1>b, NoNewWork DEF Goal
      <4> QED
        BY <4>2, <4>3
    <3>3. CASE conns[TxConn].state # "established"
      <4>1. conns' = conns
        BY <2>7, <3>3 DEF TxRw
      <4> QED
        BY <3>1, <4>1, <2>5, NoNewWork DEF Goal
    <3> QED
      BY <3>2, <3>3
  <2>8. CASE TxRst
    <3>1. Remove({TxConn}) /\ rxFree' = rxFree
      BY <2>8 DEF TxRst
    <3> QED
      BY <3>1, <2>1, <2>2, <2>4, <1>2
  <2>9. CASE TxShutdown
    <3> DEFINE flags == conns[TxConn].flags \cup Head(toDevice).flags
    <3>1. rxFree' = rxFree
      BY <2>9 DEF TxShutdown
    <3>2. CASE flags = Both \/ conns[TxConn].state = "none"
      <4>1. Remove({TxConn})
        BY <2>9, <3>2 DEF TxShutdown
      <4> QED
        BY <3>1, <4>1, <2>1, <2>2, <2>4, <1>2
    <3>3. CASE ~(flags = Both \/ conns[TxConn].state = "none")
      <4>1. conns' = [conns EXCEPT ![TxConn].state = "shutdown", ![TxConn].flags = flags] /\ UNCHANGED <<toHost, toDev>>
        BY <2>9, <3>3 DEF TxShutdown, pipes
      <4>2. conns'[c].pending = conns[c].pending /\ (conns'[c].state = "established" => conns[c].state = "established")
        BY <4>1, <1>b DEF ConnRecords
      <4>3. ~Unflushed(c)' /\ ~Unread(c)'
        BY <3>1, <4>1, <4>2, <2>5 DEF Unflushed, Unread, Alive
      <4> QED
        BY <4>3 DEF Goal
    <3> QED
      BY <3>2, <3>3
  <2>10. CASE TxCreditRequest
    <3>1. UNCHANGED <<conns, toHost, toDev>> /\ CreditUpdate(TxConn)
      BY <2>10 DEF TxCreditRequest, pipes
    <3>2. rxFree' > 0 => rxFree > 0
      BY <3>1, RespondTakes
    <3> QED
      BY <3>1, <3>2, <2>5, NoNewWork DEF Goal
  <2> QED
    BY <1>3, <2>6, <2>7, <2>8, <2>9, <2>10 DEF Tx
<1>4. CASE Event
  <2>1. todo' = Keys /\ UNCHANGED <<conns, toHost, toDev, rxFree>>
    BY <1>4 DEF Event, pipes, rings
  <2>2. conns'[c] = Gone
    BY <2>1 DEF Keys, GoneIsGone
  <2> QED
    BY <2>2, <1>c DEF Goal
<1>5. ASSUME NEW d \in Conns, Service(d) PROVE Goal
  <2>1. /\ at = Idle /\ todo' = todo \ {d} /\ at' = At("service", d)
        /\ UNCHANGED <<conns, toHost, toDev, notified, rxKick, rxFree>>
    BY <1>5 DEF Service, pipes, rings
  <2>2. CASE c = d
    BY <2>1, <2>2 DEF Goal
  <2>3. CASE c # d
    <3>1. ~Unflushed(c) /\ ~Unread(c)
      BY <2>1, <2>3, <1>a, <1>d
    <3> QED
      BY <2>1, <3>1, NoNewWork DEF Goal
  <2> QED
    BY <2>2, <2>3
<1>6. ASSUME NEW d \in Conns, Flush(d) PROVE Goal
  <2>1. /\ at \in {At("tx", d), At("service", d)} /\ UNCHANGED <<toDev, rxFree, notified, rxKick, at, todo>>
        /\ \E r : conns' = [conns EXCEPT ![d].pending = r]
        /\ \E h : toHost' = [toHost EXCEPT ![d] = h]
    BY <1>6 DEF Flush, rings
  <2>2. Seen
    BY <2>1, <1>a
  <2>3. toHost \in [Conns -> HalfType]
    BY DEF DeviceTyped, PipesTyped
  <2>4. CASE c = d
    <3>1. conns'[c].state = conns[c].state
      BY <2>1, <1>b DEF ConnRecords
    <3>2. Unread(c)' <=> Unread(c)
      BY <2>1, <3>1 DEF Unread, Alive, IsReadable, IsEmpty
    <3> QED
      BY <2>1, <2>2, <2>4, <3>2 DEF Goal
  <2>5. CASE c # d
    <3>1. conns'[c] = conns[c] /\ toHost'[c] = toHost[c] /\ toDev'[c] = toDev[c]
      BY <2>1, <2>3, <2>5, <1>b
    <3> QED
      BY <2>1, <2>2, <3>1, NoNewWork DEF Goal
  <2> QED
    BY <2>4, <2>5
<1>7. ASSUME NEW d \in Conns, TxFlushed(d) PROVE Goal
  <2>1. /\ at = At("tx", d) /\ FlushEnds(d) /\ \E p : Respond(p)
        /\ conns' = [conns EXCEPT ![d].fwd = Forwarded(d)]
        /\ UNCHANGED <<toHost, toDev, notified, rxKick, todo>>
    BY <1>7 DEF TxFlushed, pipes
  <2>2. Seen /\ (rxFree' > 0 => rxFree > 0)
    BY <2>1, <1>a, RespondTakes
  <2>3. conns'[c].state = conns[c].state /\ conns'[c].pending = conns[c].pending
    BY <2>1, <1>b DEF ConnRecords
  <2>4. ~Unread(c)'
    <3>1. Unread(c)' => Unread(c)
      BY <2>1, <2>2, <2>3 DEF Unread, Alive, IsReadable, IsEmpty
    <3> QED
      BY <2>1, <2>2, <3>1, Places
  <2>5. ~Unflushed(c)'
    <3>1. Unflushed(c)' => Unflushed(c)
      BY <2>1, <2>3 DEF Unflushed, IsFull
    <3>2. ~Unflushed(d)
      BY <2>1 DEF FlushEnds, Unflushed
    <3> QED
      BY <2>1, <2>2, <3>1, <3>2, Places
  <2> QED
    BY <2>4, <2>5 DEF Goal
<1>8. ASSUME NEW d \in Conns, ServiceFlushed(d) PROVE Goal
  <2>1. /\ at = At("service", d) /\ FlushEnds(d) /\ (CreditUpdate(d) \/ UNCHANGED <<rxFree, toGuest>>)
        /\ at' = (IF IsReadable(toDev[d]) THEN At("read", d) ELSE Idle)
        /\ UNCHANGED <<conns, toHost, toDev, notified, rxKick, todo>>
    BY <1>8 DEF ServiceFlushed, pipes
  <2>2. Seen /\ (rxFree' > 0 => rxFree > 0)
    BY <2>1, <1>a, RespondTakes
  <2>3. (Unflushed(c)' => Unflushed(c)) /\ (Unread(c)' => Unread(c))
    BY <2>1, <2>2, NoNewWork
  <2>4. ~Unflushed(d)
    BY <2>1 DEF FlushEnds, Unflushed
  <2>5. CASE c = d
    BY <2>1, <2>3, <2>4, <2>5 DEF Goal, Unread
  <2>6. CASE c # d
    BY <2>1, <2>2, <2>3, <2>6, Places DEF Goal
  <2> QED
    BY <2>5, <2>6
<1>9. ASSUME NEW d \in Conns, NEW n \in 1..Capacity, TransferRx(d, n) PROVE Goal
  <2>1. /\ at = At("read", d) /\ (\E p : Respond(p))
        /\ toDev' = [toDev EXCEPT ![d] = Drain(@, n)]
        /\ UNCHANGED <<conns, toHost, notified, rxKick, at, todo>>
    BY <1>9 DEF TransferRx, Reading, worker
  <2>2. Seen /\ (rxFree' > 0 => rxFree > 0)
    BY <2>1, <1>a, RespondTakes
  <2>3. Unflushed(c)' <=> Unflushed(c)
    BY <2>1 DEF Unflushed, IsFull
  <2>4. CASE c = d
    BY <2>1, <2>2, <2>3, <2>4, Places DEF Goal
  <2>5. CASE c # d
    <3>1. toDev'[c] = toDev[c]
      BY <2>1, <2>5 DEF DeviceTyped, PipesTyped
    <3> QED
      BY <2>1, <2>2, <3>1, NoNewWork DEF Goal
  <2> QED
    BY <2>4, <2>5
<1>10. ASSUME NEW d \in Conns, TransferEof(d) PROVE Goal
  <2>1. at = At("read", d) /\ Remove({d}) /\ (\E p : Respond(p)) /\ UNCHANGED <<notified, rxKick, todo>>
    BY <1>10 DEF TransferEof, Reading
  <2>2. rxFree' > 0 => rxFree > 0
    BY <2>1, RespondTakes
  <2> QED
    BY <2>1, <2>2, <1>2
<1>11. ASSUME NEW d \in Conns, TransferStops(d) PROVE Goal
  <2>1. /\ at = At("read", d) /\ (conns[d].state # "established" \/ rxFree = 0 \/ ~IsReadable(toDev[d]))
        /\ UNCHANGED <<conns, toHost, toDev, notified, rxKick, todo, rxFree>>
    BY <1>11 DEF TransferStops, Reading, pipes, rings
  <2>2. Seen
    BY <2>1, <1>a
  <2>3. (Unflushed(c)' => Unflushed(c)) /\ (Unread(c)' => Unread(c))
    BY <2>1, NoNewWork
  <2>4. ~Unread(d)
    BY <2>1 DEF Unread, Alive
  <2> QED
    BY <2>1, <2>2, <2>3, <2>4, Places DEF Goal
<1>12. CASE Worker
  BY <1>12, <1>3, <1>4, <1>5, <1>6, <1>7, <1>8, <1>9, <1>10, <1>11 DEF Worker
<1>13. CASE Guest
  <2>1. CASE Reset
    <3>1. Remove(Conns)
      BY <2>1 DEF Reset
    <3>2. conns'[c] = Gone
      BY <3>1, Removes
    <3> QED
      BY <3>2, <1>c DEF Goal
  <2> QED
    BY <1>13, <2>1, <1>1, GuestFrame
<1>14. CASE Host
  BY <1>14, <1>1, HostFrame
<1>15. CASE UNCHANGED allVars
  BY <1>15, <1>1 DEF allVars, vars, worker, pipes, rings
<1> QED
  BY <1>12, <1>13, <1>14, <1>15 DEF Next, Step

LEMMA WorkInit == Init => WorkIsSeen
<1> SUFFICES ASSUME Init, NEW c \in Conns PROVE ~Unflushed(c) /\ ~Unread(c)
  BY DEF WorkIsSeen
<1>1. conns[c] = Gone
  BY DEF Init
<1> QED
  BY <1>1, GoneHasNoWork

LEMMA WorkInvariant == SafeSpec => []WorkIsSeen
BY DeviceTypes, GoneInvariant, WorkInit, WorkNext, PTL DEF SafeSpec

\* The worker goes to sleep only when there is nothing it could do
\* (service_connections and transfer_rx_data, vsock_device.rs:473-560): a wakeup
\* that is already consumed is never the last one a connection needed.
THEOREM NoStalledWorkCorrect == SafeSpec => []NoStalledWork
<1>1. DeviceTyped /\ WorkIsSeen => NoStalledWork
  <2> SUFFICES ASSUME DeviceTyped, WorkIsSeen, at = Idle, todo = {}, ~notified, ~rxKick, NEW c \in Conns
               PROVE  /\ conns[c].pending # <<>> => toHost[c].reader_closed \/ IsFull(toHost[c])
                      /\ Alive(c) /\ IsReadable(toDev[c]) => rxFree = 0
    BY DEF NoStalledWork
  <2>1. ~Unflushed(c) /\ ~Unread(c)
    BY Places DEF WorkIsSeen
  <2>2. rxFree \in Nat
    BY DEF DeviceTyped, RingsTyped
  <2> QED
    BY <2>1, <2>2 DEF Unflushed, Unread
<1> QED
  BY <1>1, DeviceTypes, WorkInvariant, PTL
-----------------------------------------------------------------------------
(* The accept queue, and a connection's first packets.                     *)

OpensOf(c) ==
  /\ host[c].st = "none" => Untouched(c)
  /\ guest[c].st = "closed" \/ OfOp(toDevice, c, "REQUEST") # {} => host[c].st = "none"
  /\ guest[c].st = "closed" => Of(toDevice, c) = {}
  /\ guest[c].st = "connecting" => Unused(c)
  /\ \A i, j \in OfOp(toDevice, c, "REQUEST") : i = j

\* The TX ring of a connection gets no new REQUEST.
Fewer(c) ==
  /\ OfOp(toDevice, c, "REQUEST")' # {} => OfOp(toDevice, c, "REQUEST") # {}
  /\ Of(toDevice, c) = {} => Of(toDevice, c)' = {}
  /\ Of(toDevice, c) = OfOp(toDevice, c, "REQUEST") => Of(toDevice, c)' = OfOp(toDevice, c, "REQUEST")'
  /\ (\A i, j \in OfOp(toDevice, c, "REQUEST") : i = j)
       => \A i, j \in OfOp(toDevice, c, "REQUEST")' : i = j

LEMMA SameRing ==
  ASSUME UNCHANGED toDevice, NEW c PROVE Fewer(c)
<1>1. Of(toDevice, c)' = Of(toDevice, c) /\ OfOp(toDevice, c, "REQUEST")' = OfOp(toDevice, c, "REQUEST")
  BY DEF Of, OfOp
<1> QED
  BY <1>1 DEF Fewer

LEMMA NoRing ==
  ASSUME toDevice' = <<>>, NEW c
  PROVE  Of(toDevice, c)' = {} /\ OfOp(toDevice, c, "REQUEST")' = {} /\ Fewer(c)
<1>1. Len(<<>>) = 0
  BY EmptySeq
<1>2. Of(toDevice, c)' = {} /\ OfOp(toDevice, c, "REQUEST")' = {}
  BY <1>1 DEF Of, OfOp
<1> QED
  BY <1>2 DEF Fewer

\* Taking the oldest packet.
LEMMA TakenRing ==
  ASSUME DeviceTyped, NEW op, TakeTx(op), NEW c
  PROVE  /\ Fewer(c)
         /\ 1 \in OfOp(toDevice, TxConn, op)
         /\ (\A i, j \in OfOp(toDevice, c, "REQUEST") : i = j) /\ op = "REQUEST" /\ c = TxConn
              => OfOp(toDevice, c, "REQUEST")' = {}
<1>1. /\ toDevice \in Seq(Packets) /\ toDevice # <<>> /\ toDevice' = Tail(toDevice)
      /\ Head(toDevice).op = op /\ Head(toDevice) = toDevice[1] /\ Head(toDevice).conn = TxConn
  BY TakenTyped DEF DeviceTyped, RingsTyped
<1> DEFINE s == Of(toDevice, c)
           r == OfOp(toDevice, c, "REQUEST")
           t == Of(toDevice, c)'
           q == OfOp(toDevice, c, "REQUEST")'
<1>2. t = Of(Tail(toDevice), c) /\ q = OfOp(Tail(toDevice), c, "REQUEST")
  BY <1>1 DEF Of, OfOp
<1>3. /\ \A i \in t : i \in Nat \ {0} /\ i + 1 \in s
      /\ \A i \in q : i \in t /\ i + 1 \in r
      /\ \A i \in r \ {1} : i - 1 \in q /\ i \in Nat
  <2>1. /\ \A i \in t : i \in Nat \ {0} /\ i + 1 \in s
        /\ \A i \in q : i + 1 \in r
        /\ \A i \in r \ {1} : i - 1 \in q /\ i \in Nat
    BY <1>1, <1>2, OfTail
  <2>2. q \subseteq t
    BY DEF OfOp
  <2> QED
    BY <2>1, <2>2
<1>4. 1 \in OfOp(toDevice, TxConn, op)
  <2>1. 1 \in 1..Len(toDevice)
    <3> DEFINE n == Len(toDevice)
    <3>1. n \in Nat \ {0}
      BY <1>1, RingTail
    <3> HIDE DEF n
    <3>2. 1 \in 1..n
      BY <3>1
    <3> QED
      BY <3>2 DEF n
  <2> QED
    BY <1>1, <2>1 DEF OfOp, Of
<1>5. r \subseteq s /\ q \subseteq t
  BY DEF OfOp
<1>6. s = r => t = q
  <2> SUFFICES ASSUME s = r, NEW i \in t PROVE i \in q
    BY <1>5
  <2>1. i + 1 \in r \ {1} /\ (i + 1) - 1 = i
    BY <1>3
  <2> HIDE DEF r, q, s, t
  <2> QED
    BY <1>3, <2>1
<1> HIDE DEF r, q, s, t
<1>7. (\A i, j \in r : i = j) => \A i, j \in q : i = j
  <2> SUFFICES ASSUME \A i, j \in r : i = j, NEW i \in q, NEW j \in q PROVE i = j
    OBVIOUS
  <2>1. i + 1 = j + 1 /\ i \in Nat /\ j \in Nat
    BY <1>3
  <2> QED
    BY <2>1
<1>8. Fewer(c)
  BY <1>3, <1>6, <1>7 DEF Fewer, r, q, s, t
<1>9. (\A i, j \in r : i = j) /\ 1 \in r => q = {}
  <2> SUFFICES ASSUME \A i, j \in r : i = j, 1 \in r, NEW i \in q PROVE FALSE
    OBVIOUS
  <2>1. i + 1 = 1 /\ i \in Nat \ {0}
    BY <1>3
  <2> QED
    BY <2>1
<1> QED
  BY <1>4, <1>8, <1>9 DEF r, q

\* A packet that is no REQUEST joins the ring.
LEMMA LongerRing ==
  ASSUME DeviceTyped, NEW p \in Packets, Transmit(p), NEW c
  PROVE  /\ p.conn # c => Fewer(c)
         /\ p.op # "REQUEST" => OfOp(toDevice, c, "REQUEST")' = OfOp(toDevice, c, "REQUEST")
         /\ OfOp(toDevice, c, "REQUEST")' \subseteq OfOp(toDevice, c, "REQUEST") \cup {Len(toDevice) + 1}
         /\ Of(toDevice, c)' \subseteq Of(toDevice, c) \cup {Len(toDevice) + 1}
         /\ p.conn = c /\ p.op = "REQUEST" => Len(toDevice) + 1 \in OfOp(toDevice, c, "REQUEST")'
         /\ OfOp(toDevice, c, "REQUEST") \subseteq OfOp(toDevice, c, "REQUEST")'
<1>1. toDevice' = Append(toDevice, p) /\ toDevice \in Seq(Packets)
  BY DEF Transmit, DeviceTyped, RingsTyped
<1>2. /\ Of(toDevice, c)' = Of(toDevice, c) \cup (IF p.conn = c THEN {Len(toDevice) + 1} ELSE {})
      /\ OfOp(toDevice, c, "REQUEST")'
           = OfOp(toDevice, c, "REQUEST") \cup (IF p.conn = c /\ p.op = "REQUEST" THEN {Len(toDevice) + 1} ELSE {})
  <2>1. Of(toDevice, c)' = Of(Append(toDevice, p), c) /\ OfOp(toDevice, c, "REQUEST")' = OfOp(Append(toDevice, p), c, "REQUEST")
    BY <1>1 DEF Of, OfOp
  <2> QED
    BY <1>1, <2>1, OfAppend
<1> QED
  BY <1>2 DEF Fewer

\* The RX ring.
LEMMA RespondOf ==
  ASSUME DeviceTyped, NEW p \in Packets, Respond(p) \/ UNCHANGED <<rxFree, toGuest>>, NEW c
  PROVE  /\ Of(toGuest, c)' \subseteq Of(toGuest, c) \cup {Len(toGuest) + 1}
         /\ p.conn # c => Of(toGuest, c)' = Of(toGuest, c)
         /\ OfOp(toGuest, c, "RESPONSE") \subseteq OfOp(toGuest, c, "RESPONSE")'
         /\ p.op # "RESPONSE" => OfOp(toGuest, c, "RESPONSE")' = OfOp(toGuest, c, "RESPONSE")
         /\ toGuest' = toGuest \/ toGuest' = Append(toGuest, p)
<1>1. CASE toGuest' = toGuest
  BY <1>1 DEF Of, OfOp
<1>2. CASE toGuest' = Append(toGuest, p)
  <2>1. Of(toGuest, c)' = Of(Append(toGuest, p), c) /\ OfOp(toGuest, c, "RESPONSE")' = OfOp(Append(toGuest, p), c, "RESPONSE")
    BY <1>2 DEF Of, OfOp
  <2>2. /\ Of(toGuest, c)' = Of(toGuest, c) \cup (IF p.conn = c THEN {Len(toGuest) + 1} ELSE {})
        /\ OfOp(toGuest, c, "RESPONSE")'
             = OfOp(toGuest, c, "RESPONSE") \cup (IF p.conn = c /\ p.op = "RESPONSE" THEN {Len(toGuest) + 1} ELSE {})
    BY <2>1, OfAppend DEF DeviceTyped, RingsTyped
  <2> QED
    BY <1>2, <2>2
<1> QED
  BY <1>1, <1>2 DEF Respond

\* A step that adds nothing of c.
DeviceLeaves(c) ==
  host[c].st = "none" =>
    conns'[c] = Gone /\ toHost'[c].buf = <<>> /\ toDev'[c].buf = <<>> /\ Of(toGuest, c)' = {}
OwnersLeave(c) ==
  /\ host'[c].st = host[c].st
  /\ host[c].st = "none" => host'[c].got = host[c].got /\ host'[c].wrote = host[c].wrote
  /\ \/ guest'[c].st = guest[c].st
     \/ guest[c].st = "connecting" /\ guest'[c].st = "gone"
     \/ guest[c].st \notin {"closed", "connecting", "gone"} /\ guest'[c].st \notin {"closed", "connecting"}
  /\ guest[c].st \in {"closed", "connecting", "gone"} =>
       guest'[c].tx = guest[c].tx /\ guest'[c].fwd = guest[c].fwd /\ guest'[c].got = guest[c].got

LEMMA OpensFrame ==
  ASSUME NEW c \in Conns, OpensOf(c), Fewer(c), DeviceLeaves(c), OwnersLeave(c)
  PROVE  OpensOf(c)'
<1> USE DEF DeviceLeaves, OwnersLeave
<1>1. host'[c].st = "none" => Untouched(c)'
  <2> SUFFICES ASSUME host[c].st = "none" PROVE Untouched(c)'
    OBVIOUS
  <2>1. Untouched(c)
    BY DEF OpensOf
  <2>4. toHost[c].buf = <<>> /\ host[c].got = <<>> /\ toDev[c].buf = <<>> /\ host[c].wrote = 0
    BY <2>1 DEF Untouched
  <2>2. guest'[c].st \in {"closed", "connecting", "gone"} /\ Unused(c)'
    BY <2>1 DEF Untouched, Unused
  <2>3. Of(toDevice, c)' = OfOp(toDevice, c, "REQUEST")'
    BY <2>1 DEF Untouched, Fewer
  <2> QED
    BY <2>2, <2>3, <2>4 DEF Untouched
<1>2. guest'[c].st = "closed" \/ OfOp(toDevice, c, "REQUEST")' # {} => host'[c].st = "none"
  BY DEF OpensOf, Fewer
<1>3. guest'[c].st = "closed" => Of(toDevice, c)' = {}
  BY DEF OpensOf, Fewer
<1>4. guest'[c].st = "connecting" => Unused(c)'
  BY DEF OpensOf, Unused
<1>5. \A i, j \in OfOp(toDevice, c, "REQUEST")' : i = j
  BY DEF OpensOf, Fewer
<1> QED
  BY <1>1, <1>2, <1>3, <1>4, <1>5 DEF OpensOf
\* A connection the device already knows.
LEMMA OpensLater ==
  ASSUME NEW c \in Conns, OpensOf(c), host[c].st # "none", host'[c].st # "none",
         guest'[c].st # "closed", OfOp(toDevice, c, "REQUEST")' = {},
         guest'[c].st = "connecting" => Unused(c)'
  PROVE  OpensOf(c)'
  BY DEF OpensOf

LEMMA GoneIsNone ==
  ASSUME NEW c \in Conns, conns[c] = Gone
  PROVE  conns[c].state = "none" /\ conns[c].pending = <<>>
  BY DEF Gone

LEMMA OpensTx ==
  ASSUME DeviceTyped, NEW c \in Conns, OpensOf(c), Tx PROVE OpensOf(c)'
<1>a. conns \in [Conns -> ConnRecords] /\ host \in [Conns -> HostStreams]
      /\ toHost \in [Conns -> HalfType] /\ toDev \in [Conns -> HalfType]
  BY DEF DeviceTyped, ConnsTyped, PipesTyped
<1>b. host[c].st = "none" =>
        /\ conns[c] = Gone /\ toHost[c].buf = <<>> /\ host[c].got = <<>>
        /\ toDev[c].buf = <<>> /\ host[c].wrote = 0 /\ Of(toGuest, c) = {}
        /\ conns[c].state = "none"
  BY GoneIsNone DEF OpensOf, Untouched
<1>c. host'[c] = host[c] /\ guest'[c] = guest[c] => OwnersLeave(c)
  BY DEF OwnersLeave
<1>d. toGuest' = toGuest => Of(toGuest, c)' = Of(toGuest, c)
  BY DEF Of
<1>1. CASE TxRequest
  <2> DEFINE p == Packet(TxConn, "RESPONSE", <<>>, 0, {})
  <2>1. /\ TakeTx("REQUEST") /\ Respond(p) /\ HandOver(TxConn) /\ guest' = guest
        /\ conns' = [conns EXCEPT ![TxConn] = Established]
    BY <1>1 DEF TxRequest
  <2>2. TxConn \in Conns
    BY <2>1, TakenTyped DEF DeviceTyped
  <2>3. p \in Packets /\ p.conn = TxConn
    BY <2>2, BarePacket DEF Ops, Packet
  <2> HIDE DEF p
  <2>4. Fewer(c) /\ 1 \in OfOp(toDevice, TxConn, "REQUEST")
    BY <2>1, TakenRing
  <2>5. CASE c = TxConn
    <3>1. OfOp(toDevice, c, "REQUEST")' = {}
      BY <2>1, <2>5, TakenRing DEF OpensOf
    <3>2. host[c].st = "none" /\ guest[c].st # "closed"
      BY <2>4, <2>5 DEF OpensOf, OfOp
    <3>3. host'[c].st # "none"
      <4>1. /\ host' = [host EXCEPT ![TxConn].st =
                 CASE listener = "none"    -> "queued"
                   [] listener = "waiting" -> "accepted"
                   [] listener = "stale"   -> "dropped"]
            /\ listener \in {"none", "waiting", "stale"}
        BY <2>1 DEF HandOver, DeviceTyped, PortTyped
      <4> QED
        BY <4>1, <2>2, <2>5, <1>a DEF HostStreams
    <3>4. guest'[c].st = "connecting" => Unused(c)'
      BY <2>1 DEF OpensOf, Unused
    <3> QED
      BY <2>1, <3>1, <3>2, <3>3, <3>4 DEF OpensOf
  <2>6. CASE c # TxConn
    <3>1. host'[c] = host[c] /\ conns'[c] = conns[c]
      BY <2>1, <2>6, <1>a DEF HandOver
    <3>2. toHost'[c].buf = toHost[c].buf /\ toDev'[c].buf = toDev[c].buf
      BY <2>1, <2>6, <1>a DEF HandOver
    <3>3. Of(toGuest, c)' = Of(toGuest, c)
      BY <2>1, <2>3, <2>6, RespondOf
    <3>4. DeviceLeaves(c)
      BY <3>1, <3>2, <3>3, <1>b DEF DeviceLeaves
    <3> QED
      BY <2>1, <2>4, <3>1, <3>4, <1>c, OpensFrame
  <2> QED
    BY <2>5, <2>6
<1>2. CASE TxRw
  <2>1. /\ TakeTx("RW") /\ UNCHANGED <<toHost, toDev, toGuest, guest, host>>
        /\ \/ conns' = conns
           \/ conns[TxConn].state = "established" /\ \E r : conns' = [conns EXCEPT ![TxConn].pending = r]
    BY <1>2 DEF TxRw, pipes
  <2>2. Fewer(c) /\ Of(toGuest, c)' = Of(toGuest, c)
    BY <2>1, TakenRing DEF Of
  <2>3. host[c].st = "none" => conns'[c] = conns[c]
    BY <2>1, <1>a, <1>b
  <2>4. DeviceLeaves(c)
    BY <2>1, <2>2, <2>3, <1>b DEF DeviceLeaves
  <2> QED
    BY <2>1, <2>2, <2>4, <1>c, OpensFrame
<1>3. CASE TxRst
  <2>1. TakeTx("RST") /\ Remove({TxConn}) /\ UNCHANGED <<toGuest, guest, host>>
    BY <1>3 DEF TxRst
  <2>2. Fewer(c) /\ Of(toGuest, c)' = Of(toGuest, c)
    BY <2>1, TakenRing DEF Of
  <2>3. DeviceLeaves(c)
    BY <2>1, <2>2, <1>b, Removes DEF DeviceLeaves
  <2> QED
    BY <2>1, <2>2, <2>3, <1>c, OpensFrame
<1>4. CASE TxShutdown
  <2>1. /\ TakeTx("SHUTDOWN") /\ UNCHANGED <<toGuest, guest, host>>
        /\ \/ Remove({TxConn})
           \/ /\ conns[TxConn].state # "none" /\ UNCHANGED pipes
              /\ \E f : conns' = [conns EXCEPT ![TxConn].state = "shutdown", ![TxConn].flags = f]
    BY <1>4 DEF TxShutdown
  <2>2. Fewer(c) /\ Of(toGuest, c)' = Of(toGuest, c)
    BY <2>1, TakenRing DEF Of
  <2>3. CASE Remove({TxConn})
    <3>1. DeviceLeaves(c)
      BY <2>2, <2>3, <1>b, Removes DEF DeviceLeaves
    <3> QED
      BY <2>1, <2>2, <3>1, <1>c, OpensFrame
  <2>4. CASE ~Remove({TxConn})
    <3>1. host[c].st = "none" => conns'[c] = conns[c]
      BY <2>1, <2>4, <1>a, <1>b
    <3>2. UNCHANGED <<toHost, toDev>>
      BY <2>1, <2>4 DEF pipes
    <3>3. DeviceLeaves(c)
      BY <2>2, <3>1, <3>2, <1>b DEF DeviceLeaves
    <3> QED
      BY <2>1, <2>2, <3>3, <1>c, OpensFrame
  <2> QED
    BY <2>3, <2>4
<1>5. CASE TxCreditRequest
  <2> DEFINE p == Packet(TxConn, "CREDIT_UPDATE", <<>>, conns[TxConn].fwd, {})
  <2>1. /\ TakeTx("CREDIT_REQUEST") /\ UNCHANGED <<conns, toHost, toDev, guest, host>>
        /\ (conns[TxConn].state = "established" /\ Respond(p)) \/ UNCHANGED <<rxFree, toGuest>>
    BY <1>5 DEF TxCreditRequest, CreditUpdate, pipes
  <2>2. TxConn \in Conns
    BY <2>1, TakenTyped DEF DeviceTyped
  <2>3. p \in Packets /\ p.conn = TxConn
    BY <2>2, PacketType, BytesConcat, ConnFacts DEF Ops, Packet
  <2> HIDE DEF p
  <2>4. host[c].st = "none" => Of(toGuest, c)' = Of(toGuest, c)
    <3>1. CASE UNCHANGED toGuest
      BY <3>1 DEF Of
    <3>2. CASE conns[TxConn].state = "established" /\ Respond(p)
      BY <3>2, <2>3, <1>b, RespondOf
    <3> QED
      BY <2>1, <3>1, <3>2
  <2>5. Fewer(c)
    BY <2>1, TakenRing
  <2>6. DeviceLeaves(c)
    BY <2>1, <2>4, <1>b DEF DeviceLeaves
  <2> QED
    BY <2>1, <2>5, <2>6, <1>c, OpensFrame
<1> QED
  BY <1>1, <1>2, <1>3, <1>4, <1>5 DEF Tx

LEMMA OpensWorker ==
  ASSUME DeviceTyped, GoneIsGone, NEW c \in Conns, OpensOf(c), NEW d \in Conns,
         \/ Event \/ Service(d) \/ Flush(d) \/ TxFlushed(d) \/ ServiceFlushed(d)
         \/ (\E n \in 1..Capacity : TransferRx(d, n)) \/ TransferEof(d) \/ TransferStops(d)
  PROVE  OpensOf(c)'
<1>a. conns \in [Conns -> ConnRecords] /\ toHost \in [Conns -> HalfType] /\ toDev \in [Conns -> HalfType]
  BY DEF DeviceTyped, ConnsTyped, PipesTyped
<1>b. host[c].st = "none" =>
        /\ conns[c] = Gone /\ toHost[c].buf = <<>> /\ host[c].got = <<>>
        /\ toDev[c].buf = <<>> /\ host[c].wrote = 0 /\ Of(toGuest, c) = {}
        /\ conns[c].state = "none" /\ conns[c].pending = <<>>
  BY GoneIsNone DEF OpensOf, Untouched
<1>c. ASSUME UNCHANGED <<toDevice, guest, host>>,
             host[c].st = "none" =>
               /\ conns'[c] = Gone /\ toHost'[c].buf = toHost[c].buf /\ toDev'[c].buf = toDev[c].buf
               /\ Of(toGuest, c)' = Of(toGuest, c)
      PROVE  OpensOf(c)'
  <2>1. DeviceLeaves(c)
    BY <1>c, <1>b DEF DeviceLeaves
  <2>2. OwnersLeave(c)
    BY <1>c DEF OwnersLeave
  <2>3. Fewer(c)
    BY <1>c, SameRing
  <2> QED
    BY <2>1, <2>2, <2>3, OpensFrame
<1>d. toGuest' = toGuest => Of(toGuest, c)' = Of(toGuest, c)
  BY DEF Of
<1>e. ASSUME NEW p \in Packets, p.conn = d, Respond(p) \/ UNCHANGED <<rxFree, toGuest>>, conns[d].state = "established",
             host[c].st = "none"
      PROVE  c # d /\ Of(toGuest, c)' = Of(toGuest, c)
  BY <1>e, <1>b, RespondOf
<1>1. CASE Event \/ Service(d) \/ TransferStops(d)
  <2>1. UNCHANGED <<conns, toHost, toDev, toGuest, toDevice, guest, host>>
    BY <1>1 DEF Event, Service, TransferStops, pipes, rings
  <2> QED
    BY <2>1, <1>b, <1>c, <1>d
<1>2. CASE Flush(d)
  <2>1. /\ UNCHANGED <<toDev, toGuest, toDevice, guest, host>> /\ conns[d].pending # <<>>
        /\ \E r : conns' = [conns EXCEPT ![d].pending = r]
        /\ \E h : toHost' = [toHost EXCEPT ![d] = h]
    BY <1>2 DEF Flush, rings
  <2> QED
    BY <2>1, <1>a, <1>b, <1>c, <1>d
<1>3. CASE TxFlushed(d)
  <2> DEFINE p == Packet(d, "CREDIT_UPDATE", <<>>, Forwarded(d), {})
  <2>1. /\ UNCHANGED <<toHost, toDev, toDevice, guest, host>> /\ at = At("tx", d)
        /\ conns' = [conns EXCEPT ![d].fwd = Forwarded(d)] /\ Respond(p)
    BY <1>3 DEF TxFlushed, pipes
  <2>2. conns[d].state = "established"
    BY <2>1 DEF GoneIsGone, Alive
  <2>3. p \in Packets /\ p.conn = d
    BY ForwardedType, PacketType, BytesConcat DEF Ops, Packet
  <2> HIDE DEF p
  <2>4. host[c].st = "none" => c # d /\ Of(toGuest, c)' = Of(toGuest, c)
    BY <2>1, <2>2, <2>3, <1>e
  <2> QED
    BY <2>1, <2>4, <1>a, <1>b, <1>c
<1>4. CASE ServiceFlushed(d)
  <2> DEFINE p == Packet(d, "CREDIT_UPDATE", <<>>, conns[d].fwd, {})
  <2>1. /\ UNCHANGED <<conns, toHost, toDev, toDevice, guest, host>>
        /\ (conns[d].state = "established" /\ Respond(p)) \/ UNCHANGED <<rxFree, toGuest>>
    BY <1>4 DEF ServiceFlushed, CreditUpdate, pipes
  <2>2. p \in Packets /\ p.conn = d
    BY ConnFacts, PacketType, BytesConcat DEF Ops, Packet
  <2> HIDE DEF p
  <2>3. host[c].st = "none" => Of(toGuest, c)' = Of(toGuest, c)
    BY <2>1, <2>2, <1>d, <1>e
  <2> QED
    BY <2>1, <2>3, <1>b, <1>c
<1>5. ASSUME NEW n \in 1..Capacity, TransferRx(d, n) PROVE OpensOf(c)'
  <2> DEFINE p == Packet(d, "RW", FrontOf(toDev[d], n), conns[d].fwd, {})
  <2>1. /\ UNCHANGED <<conns, toHost, toDevice, guest, host>> /\ conns[d].state = "established"
        /\ toDev' = [toDev EXCEPT ![d] = Drain(toDev[d], n)] /\ Respond(p) /\ n \in 1..Len(toDev[d].buf)
    BY <1>5 DEF TransferRx, Reading
  <2>2. FrontOf(toDev[d], n) \in Seq(Nat)
    BY <2>1, ConnFacts, DrainHalf
  <2>3. p \in Packets /\ p.conn = d
    BY <2>2, ConnFacts, PacketType DEF Ops, Packet
  <2> HIDE DEF p
  <2>4. host[c].st = "none" => c # d /\ Of(toGuest, c)' = Of(toGuest, c)
    BY <2>1, <2>3, <1>e
  <2> QED
    BY <2>1, <2>4, <1>a, <1>b, <1>c
<1>6. CASE TransferEof(d)
  <2> DEFINE p == Packet(d, "SHUTDOWN", <<>>, 0, Both)
  <2>1. UNCHANGED <<toDevice, guest, host>> /\ conns[d].state = "established" /\ Respond(p) /\ Remove({d})
    BY <1>6 DEF TransferEof, Reading
  <2>2. p \in Packets /\ p.conn = d
    BY BarePacket DEF Ops, Packet
  <2> HIDE DEF p
  <2>3. host[c].st = "none" => c # d /\ Of(toGuest, c)' = Of(toGuest, c)
    BY <2>1, <2>2, <1>e
  <2> QED
    BY <2>1, <2>3, <1>b, <1>c, Removes
<1> QED
  BY <1>1, <1>2, <1>3, <1>4, <1>5, <1>6

\* What a driver's write puts into the TX ring.
LEMMA SentIsPacket ==
  ASSUME DeviceTyped, NEW c \in Conns, NEW k \in 1..BufAlloc
  PROVE  Packet(c, "RW", Fresh(guest[c].tx, k), 0, {}) \in Packets
<1>1. guest[c].tx \in Nat /\ k \in Nat
  BY ConnFacts
<1>2. Fresh(guest[c].tx, k) \in Seq(Nat)
  BY <1>1, FreshBytes
<1>3. 0 \in 0..(CntMod - 1)
  BY Constants
<1> QED
  BY <1>2, <1>3, PacketType DEF Ops

LEMMA OpensGuest ==
  ASSUME DeviceTyped, NEW c \in Conns, OpensOf(c), Guest PROVE OpensOf(c)'
<1>a. /\ guest \in [Conns -> GuestSockets] /\ host[c] \in HostStreams
      /\ toGuest \in Seq(Packets) /\ toDevice \in Seq(Packets) /\ Len(toDevice) \in Nat
  BY LenProperties DEF DeviceTyped, RingsTyped
<1>b. host[c].st = "none" =>
        /\ conns[c] = Gone /\ toHost[c].buf = <<>> /\ toDev[c].buf = <<>>
        /\ Of(toGuest, c) = {} /\ guest[c].st \in {"closed", "connecting", "gone"}
  BY DEF OpensOf, Untouched
<1>c. toGuest' = toGuest => Of(toGuest, c)' = Of(toGuest, c)
  BY DEF Of
<1>d. ASSUME GuestUnchanged, UNCHANGED toGuest, Fewer(c), guest'[c] = guest[c] PROVE OpensOf(c)'
  <2>1. DeviceLeaves(c)
    BY <1>b, <1>c, <1>d DEF DeviceLeaves, GuestUnchanged, pipes
  <2>2. OwnersLeave(c)
    BY <1>d DEF OwnersLeave, GuestUnchanged
  <2> QED
    BY <1>d, <2>1, <2>2, OpensFrame
\* A driver's packet on a connection that is open.
<1>e. ASSUME NEW d \in Conns, NEW p \in Packets, p.conn = d, p.op # "REQUEST", Transmit(p),
             guest[d].st \in {"open", "sendshut"}, GuestUnchanged, UNCHANGED toGuest,
             \E r : guest' = [guest EXCEPT ![d] = r] /\ r.st \notin {"closed", "connecting"}
      PROVE  OpensOf(c)'
  <2>1. CASE c # d
    BY <1>a, <1>d, <1>e, <2>1, LongerRing
  <2>2. CASE c = d
    <3>1. host[c].st # "none" /\ OfOp(toDevice, c, "REQUEST") = {}
      BY <1>b, <1>e, <2>2 DEF OpensOf
    <3>2. OfOp(toDevice, c, "REQUEST")' = {}
      BY <1>e, <3>1, LongerRing
    <3>3. host' = host /\ guest'[c].st \notin {"closed", "connecting"}
      BY <1>a, <1>e, <2>2 DEF GuestUnchanged
    <3> QED
      BY <3>1, <3>2, <3>3, OpensLater
  <2> QED
    BY <2>1, <2>2
<1>1. CASE GuestRecv
  <2> DEFINE p == Head(toGuest)
             d == p.conn
             q == Packet(d, "RST", <<>>, 0, {})
  <2>1. p \in Packets /\ d \in Conns /\ p = toGuest[1] /\ toGuest # <<>> /\ toGuest' = Tail(toGuest)
    BY <1>1, ReceivedTyped
  <2>2. q \in Packets /\ q.conn = d /\ q.op = "RST"
    BY <2>1, BarePacket DEF Ops, Packet
  <2>3. /\ GuestUnchanged /\ (Transmit(q) \/ UNCHANGED toDevice)
        /\ \/ guest' = guest
           \/ /\ guest[d].st \in {"open", "sendshut"} \/ (guest[d].st = "connecting" /\ p.op = "RESPONSE")
              /\ \E r : /\ guest' = [guest EXCEPT ![d] = r]
                        /\ r.st = CASE p.op = "RESPONSE" -> "open"
                               [] p.op = "SHUTDOWN" -> "ended"
                               [] OTHER -> guest[d].st
    <3> DEFINE r == [st  |-> CASE p.op = "RESPONSE" -> "open"
                               [] p.op = "SHUTDOWN" -> "ended"
                               [] OTHER -> guest[d].st,
                     tx  |-> guest[d].tx,
                     fwd |-> p.fwd,
                     got |-> guest[d].got \o p.data,
                     asked |-> guest[d].asked]
               live == guest[d].st \in {"open", "sendshut"} \/ (guest[d].st = "connecting" /\ p.op = "RESPONSE")
    <3>1. /\ GuestUnchanged /\ (Transmit(q) \/ UNCHANGED toDevice)
          /\ guest' = IF ~live THEN guest ELSE [guest EXCEPT ![d] = r]
      BY <1>1 DEF GuestRecv
    <3>2. r.st = CASE p.op = "RESPONSE" -> "open"
                               [] p.op = "SHUTDOWN" -> "ended"
                               [] OTHER -> guest[d].st
      OBVIOUS
    <3> HIDE DEF r
    <3> QED
      BY <3>1, <3>2
  <2>a. UNCHANGED <<conns, toHost, toDev, host>>
    <3>1. GuestUnchanged
      BY <1>1 DEF GuestRecv
    <3> QED
      BY <3>1 DEF GuestUnchanged, pipes
  <2>4. 1 \in Of(toGuest, d)
    <3> DEFINE n == Len(toGuest)
    <3>1. n \in Nat \ {0}
      BY <2>1, <1>a, RingTail
    <3> HIDE DEF n
    <3>2. 1 \in 1..n
      BY <3>1
    <3> QED
      BY <2>1, <3>2 DEF n, Of
  <2> HIDE DEF q
  <2>5. CASE host[c].st = "none"
    <3>1. c # d /\ Of(toGuest, c) = {}
      BY <1>b, <2>4, <2>5
    <3>2. Of(toGuest, c)' = {}
      <4>1. Of(toGuest, c)' = Of(Tail(toGuest), c)
        BY <2>1 DEF Of
      <4>2. \A i \in Of(Tail(toGuest), c) : i + 1 \in Of(toGuest, c)
        BY <1>a, <2>1, OfTail
      <4> QED
        BY <3>1, <4>1, <4>2
    <3>3. Fewer(c)
      BY <2>2, <2>3, <3>1, LongerRing, SameRing
    <3>4. guest'[c] = guest[c]
      BY <1>a, <2>3, <3>1
    <3>5. DeviceLeaves(c) /\ OwnersLeave(c)
      BY <1>b, <2>a, <3>2, <3>4 DEF DeviceLeaves, OwnersLeave
    <3> QED
      BY <3>3, <3>5, OpensFrame
  <2>6. CASE host[c].st # "none"
    <3>1. guest[c].st # "closed" /\ OfOp(toDevice, c, "REQUEST") = {} /\ (guest[c].st = "connecting" => Unused(c))
      BY <2>6 DEF OpensOf
    <3>2. OfOp(toDevice, c, "REQUEST")' = {}
      <4>1. CASE Transmit(q)
        BY <2>2, <3>1, <4>1, LongerRing
      <4>2. CASE UNCHANGED toDevice
        BY <3>1, <4>2 DEF OfOp, Of
      <4> QED
        BY <2>3, <4>1, <4>2
    <3>3. guest'[c].st # "closed" /\ (guest'[c].st = "connecting" => guest'[c] = guest[c])
      BY <1>a, <2>1, <2>3, <3>1
    <3>4. guest'[c].st = "connecting" => Unused(c)'
      BY <3>1, <3>3 DEF Unused
    <3> QED
      BY <2>6, <2>a, <3>2, <3>3, <3>4, OpensLater
  <2> QED
    BY <2>5, <2>6
<1>2. CASE Reset
  <2>1. /\ Remove(Conns) /\ toGuest' = <<>> /\ toDevice' = <<>> /\ UNCHANGED host
        /\ guest' = [x \in Conns |->
             IF guest[x].st = "closed" THEN guest[x] ELSE [guest[x] EXCEPT !.st = "gone"]]
    BY <1>2 DEF Reset
  <2>2. Fewer(c)
    BY <2>1, NoRing
  <2>3. Of(toGuest, c)' = {}
    BY <2>1, EmptySeq DEF Of
  <2>4. DeviceLeaves(c)
    BY <1>b, <2>1, <2>3, Removes DEF DeviceLeaves
  <2>5. OwnersLeave(c)
    <3>1. /\ guest'[c].st = IF guest[c].st = "closed" THEN "closed" ELSE "gone"
          /\ guest'[c].tx = guest[c].tx /\ guest'[c].fwd = guest[c].fwd /\ guest'[c].got = guest[c].got
      BY <2>1, <1>a DEF GuestSockets
    <3> QED
      BY <2>1, <3>1 DEF OwnersLeave
  <2> QED
    BY <2>2, <2>4, <2>5, OpensFrame
<1>3. ASSUME NEW d \in Conns, GuestGivesUp(d) PROVE OpensOf(c)'
  <2>1. /\ guest' = [guest EXCEPT ![d].st = "gone"] /\ GuestUnchanged /\ UNCHANGED <<toGuest, toDevice>>
        /\ guest[d].st = "connecting"
    BY <1>3 DEF GuestGivesUp, rings
  <2>2. CASE c # d
    BY <1>a, <1>d, <2>1, <2>2, SameRing
  <2>3. CASE c = d
    <3>1. OwnersLeave(c)
      BY <1>a, <2>1, <2>3 DEF OwnersLeave, GuestUnchanged, GuestSockets
    <3>2. DeviceLeaves(c)
      BY <1>b, <1>c, <2>1 DEF DeviceLeaves, GuestUnchanged, pipes
    <3> QED
      BY <2>1, <3>1, <3>2, SameRing, OpensFrame
  <2> QED
    BY <2>2, <2>3
<1>4. ASSUME NEW d \in Conns, GuestConnect(d) PROVE OpensOf(c)'
  <2> DEFINE p == Packet(d, "REQUEST", <<>>, 0, {})
  <2>1. /\ guest' = [guest EXCEPT ![d].st = "connecting"] /\ Transmit(p) /\ guest[d].st = "closed"
        /\ GuestUnchanged /\ UNCHANGED toGuest
    BY <1>4 DEF GuestConnect
  <2>2. p \in Packets /\ p.conn = d /\ p.op = "REQUEST"
    BY BarePacket DEF Ops, Packet
  <2> HIDE DEF p
  <2>3. CASE c # d
    BY <1>a, <1>d, <2>1, <2>2, <2>3, LongerRing
  <2>4. CASE c = d
    <3> DEFINE n == Len(toDevice) + 1
    <3>1. host[c].st = "none" /\ Untouched(c) /\ Of(toDevice, c) = {}
      BY <2>1, <2>4 DEF OpensOf
    <3>2. OfOp(toDevice, c, "REQUEST")' = {n} /\ Of(toDevice, c)' = {n}
      <4>1. Of(toDevice, c)' \subseteq {n} /\ n \in OfOp(toDevice, c, "REQUEST")'
        BY <2>1, <2>2, <2>4, <3>1, LongerRing
      <4>2. OfOp(toDevice, c, "REQUEST")' \subseteq Of(toDevice, c)'
        BY DEF OfOp
      <4> QED
        BY <4>1, <4>2
    <3> HIDE DEF n
    <3>3. /\ guest'[c].st = "connecting"
          /\ guest'[c].tx = guest[c].tx /\ guest'[c].fwd = guest[c].fwd /\ guest'[c].got = guest[c].got
      BY <1>a, <2>1, <2>4 DEF GuestSockets
    <3>4. Unused(c)'
      BY <3>1, <3>3 DEF Untouched, Unused
    <3>5. UNCHANGED <<conns, toHost, toDev, host, toGuest>> /\ Of(toGuest, c)' = Of(toGuest, c)
      BY <1>c, <2>1 DEF GuestUnchanged, pipes
    <3>6. Untouched(c)'
      BY <3>1, <3>2, <3>3, <3>4, <3>5 DEF Untouched
    <3> QED
      BY <3>1, <3>2, <3>3, <3>4, <3>5, <3>6 DEF OpensOf
  <2> QED
    BY <2>3, <2>4
<1>5. ASSUME NEW d \in Conns, NEW k \in 1..BufAlloc, GuestSend(d, k) PROVE OpensOf(c)'
  <2> DEFINE p == Packet(d, "RW", Fresh(guest[d].tx, k), 0, {})
             r == [guest[d] EXCEPT !.tx = @ + k]
  <2>1. /\ guest' = [guest EXCEPT ![d] = r] /\ Transmit(p) /\ guest[d].st = "open"
        /\ GuestUnchanged /\ UNCHANGED toGuest
    BY <1>5 DEF GuestSend
  <2>2. p.conn = d /\ p.op = "RW" /\ p \in Packets
    BY SentIsPacket DEF Packet
  <2>3. r.st = "open"
    BY <2>1, <1>a DEF GuestSockets
  <2> HIDE DEF p, r
  <2> QED
    BY <1>e, <2>1, <2>2, <2>3
<1>6. ASSUME NEW d \in Conns, NEW flags \in {{"send"}, Both}, GuestShutdown(d, flags) PROVE OpensOf(c)'
  <2> DEFINE p == Packet(d, "SHUTDOWN", <<>>, 0, flags)
             r == [guest[d] EXCEPT !.st = IF flags = Both THEN "gone" ELSE "sendshut"]
  <2>1. /\ guest' = [guest EXCEPT ![d] = r] /\ Transmit(p) /\ guest[d].st \in {"open", "sendshut"}
        /\ GuestUnchanged /\ UNCHANGED toGuest
    BY <1>6 DEF GuestShutdown
  <2>2. p \in Packets /\ p.conn = d /\ p.op = "SHUTDOWN"
    <3>1. flags \in SUBSET Both
      BY DEF Both
    <3> QED
      BY <3>1, BarePacket DEF Ops, Packet
  <2>3. r.st \in {"gone", "sendshut"}
    BY <1>a DEF GuestSockets
  <2> HIDE DEF p, r
  <2> QED
    BY <1>e, <2>1, <2>2, <2>3
<1>7. ASSUME NEW d \in Conns, GuestCreditRequest(d) PROVE OpensOf(c)'
  <2> DEFINE p == Packet(d, "CREDIT_REQUEST", <<>>, 0, {})
             r == [guest[d] EXCEPT !.asked = TRUE]
  <2>1. /\ guest' = [guest EXCEPT ![d] = r] /\ Transmit(p) /\ guest[d].st = "open"
        /\ GuestUnchanged /\ UNCHANGED toGuest
    BY <1>7 DEF GuestCreditRequest
  <2>2. p \in Packets /\ p.conn = d /\ p.op = "CREDIT_REQUEST"
    BY BarePacket DEF Ops, Packet
  <2>3. r.st = "open"
    BY <2>1, <1>a DEF GuestSockets
  <2> HIDE DEF p, r
  <2> QED
    BY <1>e, <2>1, <2>2, <2>3
<1> QED
  BY <1>1, <1>2, <1>3, <1>4, <1>5, <1>6, <1>7 DEF Guest

\* The host's tasks work on streams they were given.
LEMMA HostKeeps ==
  ASSUME DeviceTyped, NoStrandedConnection, Host, NEW c \in Conns
  PROVE  /\ UNCHANGED <<conns, toGuest, toDevice, guest>>
         /\ host[c].st = "none" =>
              host'[c] = host[c] /\ toHost'[c] = toHost[c] /\ toDev'[c] = toDev[c]
         /\ host[c].st # "none" => host'[c].st # "none"
<1>a. /\ host \in [Conns -> HostStreams] /\ toHost \in [Conns -> HalfType] /\ toDev \in [Conns -> HalfType]
      /\ queue \in Seq(Conns)
  BY DEF DeviceTyped, PipesTyped, PortTyped
<1>b. UNCHANGED <<conns, toGuest, toDevice, guest>>
  BY HostFrame
<1>c. ASSUME NEW d \in Conns, host[d].st # "none",
             \E r, h, g : /\ host' = [host EXCEPT ![d] = r] /\ r.st # "none"
                          /\ toHost' = [toHost EXCEPT ![d] = h] /\ toDev' = [toDev EXCEPT ![d] = g]
      PROVE  /\ host[c].st = "none" =>
                  host'[c] = host[c] /\ toHost'[c] = toHost[c] /\ toDev'[c] = toDev[c]
             /\ host[c].st # "none" => host'[c].st # "none"
  BY <1>a, <1>c
<1>d. \A d \in Conns : toHost = [toHost EXCEPT ![d] = toHost[d]] /\ toDev = [toDev EXCEPT ![d] = toDev[d]]
  BY <1>a
<1>1. CASE Accept
  <2>1. CASE queue # <<>>
    <3> DEFINE d == Head(queue)
               r == [host[d] EXCEPT !.st = "accepted"]
    <3>1. host' = [host EXCEPT ![d] = r] /\ UNCHANGED <<toHost, toDev>>
      BY <1>1, <2>1 DEF Accept, pipes
    <3>2. d \in Conns /\ host[d].st = "queued"
      <4>1. Len(queue) \in Nat /\ Len(queue) # 0 /\ d \in Conns /\ d = queue[1]
        BY <1>a, <2>1, HeadTailProperties, EmptySeq, LenProperties
      <4>2. 1 \in 1..Len(queue)
        BY <4>1
      <4> QED
        BY <4>1, <4>2 DEF NoStrandedConnection
    <3>3. r.st = "accepted"
      BY <3>2, <1>a DEF HostStreams
    <3> HIDE DEF r, d
    <3> QED
      BY <1>b, <1>c, <1>d, <3>1, <3>2, <3>3
  <2>2. CASE queue = <<>>
    BY <1>1, <1>b, <2>2 DEF Accept, pipes
  <2> QED
    BY <2>1, <2>2
<1>2. CASE AcceptTimesOut
  BY <1>2, <1>b DEF AcceptTimesOut, pipes
<1>3. ASSUME NEW d \in Conns, NEW n, HostRead(d, n) PROVE Accepted(d) /\ \E r, h, g :
             /\ host' = [host EXCEPT ![d] = r] /\ r.st # "none"
             /\ toHost' = [toHost EXCEPT ![d] = h] /\ toDev' = [toDev EXCEPT ![d] = g]
  <2> DEFINE r == [host[d] EXCEPT !.got = @ \o FrontOf(toHost[d], n)]
  <2>1. /\ host' = [host EXCEPT ![d] = r] /\ Accepted(d)
        /\ toHost' = [toHost EXCEPT ![d] = Drain(toHost[d], n)] /\ toDev' = toDev
    BY <1>3 DEF HostRead
  <2>2. r.st # "none"
    BY <2>1, <1>a DEF HostStreams, Accepted
  <2>3. toHost = [toHost EXCEPT ![d] = toHost[d]] /\ toDev = [toDev EXCEPT ![d] = toDev[d]]
    BY <1>d
  <2> HIDE DEF r
  <2> QED
    BY <2>1, <2>2, <2>3
<1>4. ASSUME NEW d \in Conns, HostReadEof(d) PROVE Accepted(d) /\ \E r, h, g :
             /\ host' = [host EXCEPT ![d] = r] /\ r.st # "none"
             /\ toHost' = [toHost EXCEPT ![d] = h] /\ toDev' = [toDev EXCEPT ![d] = g]
  <2> DEFINE r == [host[d] EXCEPT !.eof = TRUE]
  <2>1. host' = [host EXCEPT ![d] = r] /\ Accepted(d) /\ toHost' = toHost /\ toDev' = toDev
    BY <1>4 DEF HostReadEof, pipes
  <2>2. r.st # "none"
    BY <2>1, <1>a DEF HostStreams, Accepted
  <2>3. toHost = [toHost EXCEPT ![d] = toHost[d]] /\ toDev = [toDev EXCEPT ![d] = toDev[d]]
    BY <1>d
  <2> HIDE DEF r
  <2> QED
    BY <2>1, <2>2, <2>3
<1>5. ASSUME NEW d \in Conns, NEW k \in 1..MaxBytes, HostWrite(d, k) PROVE Accepted(d) /\ \E r, h, g :
             /\ host' = [host EXCEPT ![d] = r] /\ r.st # "none"
             /\ toHost' = [toHost EXCEPT ![d] = h] /\ toDev' = [toDev EXCEPT ![d] = g]
  <2> DEFINE n == Accepts(toDev[d], k)
             r == [host[d] EXCEPT !.wrote = @ + n]
  <2>1. /\ host' = [host EXCEPT ![d] = r] /\ Accepted(d) /\ toHost' = toHost
        /\ toDev' = [toDev EXCEPT ![d] = Extend(toDev[d], Fresh(host[d].wrote, n))]
    BY <1>5 DEF HostWrite, Accepted
  <2>2. r.st # "none"
    BY <2>1, <1>a DEF HostStreams, Accepted
  <2>3. toHost = [toHost EXCEPT ![d] = toHost[d]] /\ toDev = [toDev EXCEPT ![d] = toDev[d]]
    BY <1>d
  <2> HIDE DEF r
  <2> QED
    BY <2>1, <2>2, <2>3
<1>6. ASSUME NEW d \in Conns, HostShutdown(d) PROVE Accepted(d) /\ \E r, h, g :
             /\ host' = [host EXCEPT ![d] = r] /\ r.st # "none"
             /\ toHost' = [toHost EXCEPT ![d] = h] /\ toDev' = [toDev EXCEPT ![d] = g]
  <2> DEFINE r == [host[d] EXCEPT !.st = "shut"]
  <2>1. /\ host' = [host EXCEPT ![d] = r] /\ Accepted(d) /\ toHost' = toHost
        /\ toDev' = [toDev EXCEPT ![d] = [toDev[d] EXCEPT !.writer_closed = TRUE]]
    BY <1>6 DEF HostShutdown, Accepted
  <2>2. r.st # "none"
    BY <2>1, <1>a DEF HostStreams
  <2>3. toHost = [toHost EXCEPT ![d] = toHost[d]] /\ toDev = [toDev EXCEPT ![d] = toDev[d]]
    BY <1>d
  <2> HIDE DEF r
  <2> QED
    BY <2>1, <2>2, <2>3
<1>7. ASSUME NEW d \in Conns, HostDrop(d) PROVE Accepted(d) /\ \E r, h, g :
             /\ host' = [host EXCEPT ![d] = r] /\ r.st # "none"
             /\ toHost' = [toHost EXCEPT ![d] = h] /\ toDev' = [toDev EXCEPT ![d] = g]
  <2> DEFINE r == [host[d] EXCEPT !.st = "dropped"]
  <2>1. /\ host' = [host EXCEPT ![d] = r] /\ Accepted(d)
        /\ toHost' = [toHost EXCEPT ![d] = [toHost[d] EXCEPT !.reader_closed = TRUE]]
        /\ toDev' = [toDev EXCEPT ![d] = [toDev[d] EXCEPT !.writer_closed = TRUE]]
    BY <1>7 DEF HostDrop
  <2>2. r.st # "none"
    BY <2>1, <1>a DEF HostStreams
  <2> HIDE DEF r
  <2> QED
    BY <2>1, <2>2
<1>8. \A d \in Conns : Accepted(d) => host[d].st # "none"
  BY DEF Accepted
<1>9. CASE \E d \in Conns : HostReads(d) \/ (\E k \in 1..MaxBytes : HostWrite(d, k)) \/ HostShutdown(d) \/ HostDrop(d)
  <2>1. PICK d \in Conns : HostReads(d) \/ (\E k \in 1..MaxBytes : HostWrite(d, k)) \/ HostShutdown(d) \/ HostDrop(d)
    BY <1>9
  <2>2. Accepted(d) /\ \E r, h, g :
             /\ host' = [host EXCEPT ![d] = r] /\ r.st # "none"
             /\ toHost' = [toHost EXCEPT ![d] = h] /\ toDev' = [toDev EXCEPT ![d] = g]
    BY <2>1, <1>3, <1>4, <1>5, <1>6, <1>7 DEF HostReads
  <2> QED
    BY <1>b, <1>c, <1>8, <2>2
<1> QED
  BY <1>1, <1>2, <1>9 DEF Host

LEMMA OpensHost ==
  ASSUME DeviceTyped, NoStrandedConnection, NEW c \in Conns, OpensOf(c), Host PROVE OpensOf(c)'
<1>a. /\ UNCHANGED <<conns, toGuest, toDevice, guest>>
      /\ host[c].st = "none" =>
           host'[c] = host[c] /\ toHost'[c] = toHost[c] /\ toDev'[c] = toDev[c]
      /\ host[c].st # "none" => host'[c].st # "none"
  BY HostKeeps
<1>1. CASE host[c].st = "none"
  <2>1. Of(toGuest, c)' = Of(toGuest, c)
    BY <1>a DEF Of
  <2>2. DeviceLeaves(c) /\ OwnersLeave(c)
    BY <1>1, <1>a, <2>1 DEF DeviceLeaves, OwnersLeave, OpensOf, Untouched
  <2> QED
    BY <1>a, <2>2, SameRing, OpensFrame
<1>2. CASE host[c].st # "none"
  <2>1. OfOp(toDevice, c, "REQUEST")' = OfOp(toDevice, c, "REQUEST") /\ (Unused(c) => Unused(c)')
    BY <1>a DEF OfOp, Of, Unused
  <2> QED
    BY <1>2, <1>a, <2>1, OpensLater DEF OpensOf
<1> QED
  BY <1>1, <1>2

LEMMA OpensNext ==
  DeviceTyped /\ GoneIsGone /\ NoStrandedConnection /\ OpensOnce /\ [Next]_allVars => OpensOnce'
<1> SUFFICES ASSUME DeviceTyped, GoneIsGone, NoStrandedConnection, OpensOnce, [Next]_allVars, NEW c \in Conns
             PROVE  OpensOf(c)'
  BY DEF OpensOnce, OpensOf
<1>a. OpensOf(c)
  BY DEF OpensOnce, OpensOf
<1>1. CASE Worker
  BY <1>1, <1>a, OpensTx, OpensWorker DEF Worker
<1>2. CASE Guest
  BY <1>2, <1>a, OpensGuest
<1>3. CASE Host
  BY <1>3, <1>a, OpensHost
<1>4. CASE UNCHANGED allVars
  <2>1. UNCHANGED <<conns, toHost, toDev, toGuest, toDevice, guest, host>>
    BY <1>4 DEF allVars, vars, pipes, rings
  <2>2. Of(toGuest, c)' = Of(toGuest, c)
    BY <2>1 DEF Of
  <2>3. DeviceLeaves(c) /\ OwnersLeave(c)
    BY <1>a, <2>1, <2>2 DEF DeviceLeaves, OwnersLeave, OpensOf, Untouched
  <2> QED
    BY <1>a, <2>1, <2>3, SameRing, OpensFrame
<1> QED
  BY <1>1, <1>2, <1>3, <1>4 DEF Next, Step

LEMMA OpensInit == Init => OpensOnce
<1> SUFFICES ASSUME Init, NEW c \in Conns PROVE OpensOf(c)
  BY DEF OpensOnce, OpensOf
<1>1. /\ conns[c] = Gone /\ toHost[c].buf = <<>> /\ toDev[c].buf = <<>>
      /\ host[c].st = "none" /\ host[c].got = <<>> /\ host[c].wrote = 0
      /\ guest[c].st = "closed" /\ guest[c].tx = 0 /\ guest[c].fwd = 0 /\ guest[c].got = <<>>
      /\ toGuest = <<>> /\ toDevice = <<>>
  BY DEF Init, NewHalf
<1>2. Of(toGuest, c) = {} /\ Of(toDevice, c) = {} /\ OfOp(toDevice, c, "REQUEST") = {}
  BY <1>1, EmptySeq DEF Of, OfOp
<1> QED
  BY <1>1, <1>2 DEF OpensOf, Untouched, Unused

\* Only a REQUEST reaches the port.
LEMMA WorkerFrame ==
  ASSUME Worker PROVE TxRequest \/ UNCHANGED <<queue, listener, host>>
<1> USE DEF port
<1>1. CASE Tx
  BY <1>1 DEF Tx, TxRw, TxRst, TxShutdown, TxCreditRequest
<1>2. CASE Event
  BY <1>2 DEF Event
<1>3. ASSUME NEW d \in Conns, Service(d) \/ Flush(d) \/ TxFlushed(d) \/ ServiceFlushed(d) \/ TransferStops(d)
      PROVE  UNCHANGED <<queue, listener, host>>
  BY <1>3 DEF Service, Flush, TxFlushed, ServiceFlushed, TransferStops
<1>4. ASSUME NEW d \in Conns, (\E n \in 1..Capacity : TransferRx(d, n)) \/ TransferEof(d)
      PROVE  UNCHANGED <<queue, listener, host>>
  BY <1>4 DEF TransferRx, TransferEof
<1> QED
  BY <1>1, <1>2, <1>3, <1>4 DEF Worker

\* What the host's tasks do to the port, on streams they were given.
LEMMA HostPort ==
  ASSUME DeviceTyped, Host
  PROVE  \/ Accept \/ AcceptTimesOut
         \/ /\ UNCHANGED <<queue, listener>>
            /\ \A c \in Conns : host'[c].st = "queued" <=> host[c].st = "queued"
<1>a. host \in [Conns -> HostStreams]
  BY DEF DeviceTyped
<1>1. ASSUME NEW d \in Conns, HostReads(d)
      PROVE  UNCHANGED <<queue, listener>> /\ \A c \in Conns : host'[c].st = host[c].st
  <2>1. CASE HostReadEof(d)
    BY <2>1, <1>a DEF HostReadEof, port, HostStreams
  <2>2. ASSUME NEW n, HostRead(d, n) PROVE UNCHANGED <<queue, listener>> /\ \A c \in Conns : host'[c].st = host[c].st
    BY <2>2, <1>a DEF HostRead, port, HostStreams
  <2> QED
    BY <1>1, <2>1, <2>2 DEF HostReads
<1>2. ASSUME NEW d \in Conns, NEW k, HostWrite(d, k)
      PROVE  UNCHANGED <<queue, listener>> /\ \A c \in Conns : host'[c].st = host[c].st
  <2>1. UNCHANGED <<queue, listener>> /\ \E n : host' = [host EXCEPT ![d].wrote = n]
    BY <1>2 DEF HostWrite, port
  <2> QED
    BY <2>1, <1>a DEF HostStreams
<1>3. ASSUME NEW d \in Conns, HostShutdown(d) \/ HostDrop(d)
      PROVE  UNCHANGED <<queue, listener>> /\ \A c \in Conns : host'[c].st = "queued" <=> host[c].st = "queued"
  <2>1. /\ UNCHANGED <<queue, listener>> /\ host[d].st # "queued"
        /\ \E s \in {"shut", "dropped"} : host' = [host EXCEPT ![d].st = s]
    BY <1>3 DEF HostShutdown, HostDrop, Accepted, port
  <2> QED
    BY <2>1, <1>a DEF HostStreams
<1> QED
  BY <1>1, <1>2, <1>3 DEF Host

LEMMA PortNext ==
  DeviceTyped /\ OpensOnce /\ NoStrandedConnection /\ QueuedOnce /\ [Next]_allVars
    => NoStrandedConnection' /\ QueuedOnce'
<1> SUFFICES ASSUME DeviceTyped, OpensOnce, NoStrandedConnection, QueuedOnce, [Next]_allVars
             PROVE  NoStrandedConnection' /\ QueuedOnce'
  OBVIOUS
<1>a. /\ host \in [Conns -> HostStreams] /\ queue \in Seq(Conns) /\ listener \in {"none", "waiting", "stale"}
      /\ Len(queue) \in Nat /\ \A i \in 1..Len(queue) : queue[i] \in Conns
  BY LenProperties, ElementOfSeq DEF DeviceTyped, PortTyped
<1>b. /\ listener = "waiting" => queue = <<>>
      /\ \A c \in Conns : host[c].st = "queued" <=> \E i \in 1..Len(queue) : queue[i] = c
      /\ \A i, j \in 1..Len(queue) : queue[i] = queue[j] => i = j
  BY DEF NoStrandedConnection, QueuedOnce
<1>c. ASSUME UNCHANGED <<queue, listener>>, \A c \in Conns : host'[c].st = "queued" <=> host[c].st = "queued"
      PROVE  NoStrandedConnection' /\ QueuedOnce'
  BY <1>b, <1>c DEF NoStrandedConnection, QueuedOnce
<1>1. CASE TxRequest
  <2> DEFINE d == TxConn
             n == Len(queue)
  <2>1. TakeTx("REQUEST") /\ HandOver(d)
    BY <1>1 DEF TxRequest
  <2>2. d \in Conns /\ 1 \in OfOp(toDevice, d, "REQUEST")
    <3>1. RingsTyped
      BY DEF DeviceTyped
    <3> QED
      BY <2>1, <3>1, TakenTyped, TakenRing
  <2>3. host[d].st = "none"
    BY <2>2 DEF OpensOnce
  <2> HIDE DEF d
  <2>4. /\ listener' = "none" /\ queue' = IF listener = "none" THEN Append(queue, d) ELSE queue
        /\ host' = [host EXCEPT ![d].st =
             CASE listener = "none"    -> "queued"
               [] listener = "waiting" -> "accepted"
               [] listener = "stale"   -> "dropped"]
    BY <2>1 DEF HandOver
  <2>5. CASE listener = "none"
    <3> DEFINE q == Append(queue, d)
    <3>1. /\ Len(q) = n + 1 /\ \A i \in 1..(n + 1) : q[i] = IF i = n + 1 THEN d ELSE queue[i]
      BY <1>a, <2>2, AppendProperties
    <3>2. queue' = q
      BY <2>4, <2>5
    <3>3. \A c \in Conns : host'[c].st = IF c = d THEN "queued" ELSE host[c].st
      BY <1>a, <2>2, <2>4, <2>5 DEF HostStreams
    <3> HIDE DEF n, q
    <3>4. n \in Nat /\ \A i : i \in 1..(n + 1) <=> i \in 1..n \/ i = n + 1
      BY <1>a DEF n
    <3>5. n + 1 \notin 1..n
      BY <3>4
    <3>6. /\ \A c \in Conns : host[c].st = "queued" <=> \E i \in 1..n : queue[i] = c
          /\ \A i, j \in 1..n : queue[i] = queue[j] => i = j
          /\ \A i \in 1..n : queue[i] # d
      BY <1>b, <2>2, <2>3 DEF n
    <3>7. \A c \in Conns : host'[c].st = "queued" <=> \E i \in 1..(n + 1) : q[i] = c
      <4> SUFFICES ASSUME NEW c \in Conns PROVE host'[c].st = "queued" <=> \E i \in 1..(n + 1) : q[i] = c
        OBVIOUS
      <4>1. CASE c = d
        BY <3>1, <3>3, <3>4, <4>1
      <4>2. CASE c # d
        BY <3>1, <3>3, <3>4, <3>5, <3>6, <4>2
      <4> QED
        BY <4>1, <4>2
    <3>8. \A i, j \in 1..(n + 1) : q[i] = q[j] => i = j
      BY <3>1, <3>4, <3>5, <3>6
    <3>9. listener' = "none" /\ queue' = q /\ Len(queue') = n + 1
      BY <2>4, <3>1, <3>2
    <3>10. NoStrandedConnection'
      BY <3>7, <3>9 DEF NoStrandedConnection
    <3> QED
      BY <3>8, <3>9, <3>10 DEF QueuedOnce
  <2>6. CASE listener # "none"
    <3>1. \A c \in Conns : host'[c].st = "queued" <=> host[c].st = "queued"
      BY <1>a, <2>2, <2>3, <2>4, <2>6 DEF HostStreams
    <3>2. queue' = queue /\ listener' = "none"
      BY <2>4, <2>6
    <3> QED
      BY <1>b, <3>1, <3>2 DEF NoStrandedConnection, QueuedOnce
  <2> QED
    BY <2>5, <2>6
<1>2. CASE Accept
  <2>1. CASE queue # <<>>
    <3> DEFINE d == Head(queue)
               n == Len(queue)
               q == Tail(queue)
    <3>1. /\ host' = [host EXCEPT ![d].st = "accepted"] /\ queue' = q /\ listener' = listener
          /\ listener # "waiting"
      BY <1>2, <2>1 DEF Accept
    <3>2. /\ n \in Nat \ {0} /\ d \in Conns /\ d = queue[1]
          /\ Len(q) = n - 1 /\ \A i \in 1..(n - 1) : q[i] = queue[i + 1]
      BY <1>a, <2>1, HeadTailProperties, EmptySeq
    <3>3. \A c \in Conns : host'[c].st = IF c = d THEN "accepted" ELSE host[c].st
      BY <1>a, <3>1, <3>2 DEF HostStreams
    <3>4. /\ \A c \in Conns : host[c].st = "queued" <=> \E i \in 1..n : queue[i] = c
          /\ \A i, j \in 1..n : queue[i] = queue[j] => i = j
      BY <1>b
    <3> HIDE DEF d, n, q
    <3>5. /\ \A i \in 1..(n - 1) : i + 1 \in 1..n /\ i + 1 # 1
          /\ \A i \in (1..n) \ {1} : i - 1 \in 1..(n - 1) /\ (i - 1) + 1 = i
          /\ 1 \in 1..n
      BY <3>2
    <3>6. \A c \in Conns : host'[c].st = "queued" <=> \E i \in 1..(n - 1) : q[i] = c
      <4> SUFFICES ASSUME NEW c \in Conns PROVE host'[c].st = "queued" <=> \E i \in 1..(n - 1) : q[i] = c
        OBVIOUS
      <4>1. CASE c = d
        <5>1. \A i \in 1..(n - 1) : q[i] # d
          BY <3>2, <3>4, <3>5
        <5> QED
          BY <3>3, <4>1, <5>1
      <4>2. CASE c # d
        <5>1. ASSUME NEW i \in 1..n, queue[i] = c PROVE \E j \in 1..(n - 1) : q[j] = c
          <6>1. i # 1
            BY <3>2, <4>2, <5>1
          <6>2. i - 1 \in 1..(n - 1) /\ q[i - 1] = queue[i]
            BY <3>2, <3>5, <6>1
          <6> QED
            BY <5>1, <6>2
        <5>2. ASSUME NEW j \in 1..(n - 1), q[j] = c PROVE \E i \in 1..n : queue[i] = c
          BY <3>2, <3>5, <5>2
        <5> QED
          BY <3>3, <3>4, <4>2, <5>1, <5>2
      <4> QED
        BY <4>1, <4>2
    <3>7. \A i, j \in 1..(n - 1) : q[i] = q[j] => i = j
      <4> SUFFICES ASSUME NEW i \in 1..(n - 1), NEW j \in 1..(n - 1), q[i] = q[j] PROVE i = j
        OBVIOUS
      <4>1. i + 1 = j + 1
        BY <3>2, <3>4, <3>5
      <4> QED
        BY <4>1, <3>2
    <3> QED
      BY <3>1, <3>2, <3>6, <3>7 DEF NoStrandedConnection, QueuedOnce
  <2>2. CASE queue = <<>>
    <3>1. queue' = <<>> /\ queue' = queue /\ host' = host
      BY <1>2, <2>2 DEF Accept
    <3> QED
      BY <1>b, <3>1 DEF NoStrandedConnection, QueuedOnce
  <2> QED
    BY <2>1, <2>2
<1>3. CASE AcceptTimesOut
  <2>1. queue' = queue /\ host' = host /\ listener' = "stale"
    BY <1>3 DEF AcceptTimesOut
  <2> QED
    BY <1>b, <2>1 DEF NoStrandedConnection, QueuedOnce
<1>4. CASE Worker
  BY <1>1, <1>4, <1>c, WorkerFrame
<1>5. CASE Guest
  <2>1. UNCHANGED <<queue, listener, host>>
    BY <1>5, GuestFrame DEF Reset, port
  <2> QED
    BY <2>1, <1>c
<1>6. CASE Host
  BY <1>2, <1>3, <1>6, <1>c, HostPort
<1>7. CASE UNCHANGED allVars
  <2>1. UNCHANGED <<queue, listener, host>>
    BY <1>7 DEF allVars, vars, port
  <2> QED
    BY <2>1, <1>c
<1> QED
  BY <1>4, <1>5, <1>6, <1>7 DEF Next, Step

LEMMA PortInit == Init => NoStrandedConnection /\ QueuedOnce
<1> SUFFICES ASSUME Init PROVE NoStrandedConnection /\ QueuedOnce
  OBVIOUS
<1>1. queue = <<>> /\ Len(queue) = 0 /\ listener = "none" /\ \A c \in Conns : host[c].st = "none"
  BY EmptySeq DEF Init
<1> QED
  BY <1>1 DEF NoStrandedConnection, QueuedOnce

\* Each of the two needs the other: a REQUEST finds its connection outside the
\* queue, and the stream that Accept takes is one that nobody has touched.
LEMMA PortInvariant == SafeSpec => [](OpensOnce /\ NoStrandedConnection /\ QueuedOnce)
<1>1. Init => OpensOnce /\ NoStrandedConnection /\ QueuedOnce
  BY OpensInit, PortInit
<1>2. DeviceTyped /\ GoneIsGone /\ (OpensOnce /\ NoStrandedConnection /\ QueuedOnce) /\ [Next]_allVars
        => (OpensOnce /\ NoStrandedConnection /\ QueuedOnce)'
  BY OpensNext, PortNext
<1> QED
  BY <1>1, <1>2, DeviceTypes, GoneInvariant, PTL DEF SafeSpec

\* VsockDevice!NoStrandedConnection, for every set of connections: an accept
\* never waits in the port's slot while a connection of the port is queued, and
\* a connection is in the queue exactly once from its REQUEST to its accept.
THEOREM NoStrandedConnectionCorrect == SafeSpec => []NoStrandedConnection
  BY PortInvariant, PTL

-----------------------------------------------------------------------------
(* What a step does to the rings.                                          *)

LEMMA DeviceRing ==
  ASSUME DeviceTyped, [Next]_allVars
  PROVE  \/ toDevice' = toDevice \/ toDevice' = <<>>
         \/ toDevice # <<>> /\ toDevice' = Tail(toDevice)
         \/ \E p \in Packets : toDevice' = Append(toDevice, p) /\ (p.op # "RW" => p.data = <<>>)
<1> USE DEF rings
<1>a. ASSUME NEW p \in Packets, Transmit(p), p.op = "RW" \/ p.data = <<>>
      PROVE  \E q \in Packets : toDevice' = Append(toDevice, q) /\ (q.op # "RW" => q.data = <<>>)
  BY <1>a DEF Transmit
<1>1. CASE Tx
  <2>1. \E op : TakeTx(op)
    BY <1>1 DEF Tx, TxRequest, TxRw, TxRst, TxShutdown, TxCreditRequest
  <2> QED
    BY <2>1 DEF TakeTx
<1>2. CASE Event
  BY <1>2 DEF Event
<1>3. ASSUME NEW d \in Conns, Service(d) \/ Flush(d) \/ TxFlushed(d) \/ ServiceFlushed(d) \/ TransferStops(d)
      PROVE  toDevice' = toDevice
  BY <1>3 DEF Service, Flush, TxFlushed, ServiceFlushed, TransferStops
<1>4. ASSUME NEW d \in Conns, (\E n \in 1..Capacity : TransferRx(d, n)) \/ TransferEof(d)
      PROVE  toDevice' = toDevice
  BY <1>4 DEF TransferRx, TransferEof
<1>5. CASE Worker
  BY <1>1, <1>2, <1>3, <1>4, <1>5 DEF Worker
<1>6. CASE Host
  BY <1>6, HostFrame
<1>7. CASE GuestRecv
  <2> DEFINE q == Packet(Head(toGuest).conn, "RST", <<>>, 0, {})
  <2>1. Head(toGuest).conn \in Conns
    BY <1>7, ReceivedTyped
  <2>2. q \in Packets /\ q.data = <<>>
    BY <2>1, BarePacket DEF Ops, Packet
  <2>3. Transmit(q) \/ UNCHANGED toDevice
    BY <1>7 DEF GuestRecv
  <2> HIDE DEF q
  <2> QED
    BY <1>a, <2>2, <2>3
<1>8. CASE Reset
  BY <1>8 DEF Reset
<1>9. ASSUME NEW c \in Conns, GuestConnect(c) \/ GuestCreditRequest(c) \/ GuestGivesUp(c)
      PROVE  \/ toDevice' = toDevice
             \/ \E p \in Packets : toDevice' = Append(toDevice, p) /\ (p.op # "RW" => p.data = <<>>)
  <2> DEFINE p == Packet(c, "REQUEST", <<>>, 0, {})
             q == Packet(c, "CREDIT_REQUEST", <<>>, 0, {})
  <2>1. p \in Packets /\ p.data = <<>> /\ q \in Packets /\ q.data = <<>>
    BY BarePacket DEF Ops, Packet
  <2>2. Transmit(p) \/ Transmit(q) \/ UNCHANGED toDevice
    BY <1>9 DEF GuestConnect, GuestCreditRequest, GuestGivesUp
  <2> HIDE DEF p, q
  <2> QED
    BY <1>a, <2>1, <2>2
<1>10. ASSUME NEW c \in Conns, NEW k \in 1..BufAlloc, GuestSend(c, k)
      PROVE  \E p \in Packets : toDevice' = Append(toDevice, p) /\ (p.op # "RW" => p.data = <<>>)
  <2> DEFINE p == Packet(c, "RW", Fresh(guest[c].tx, k), 0, {})
  <2>1. p \in Packets /\ p.op = "RW"
    BY SentIsPacket DEF Packet
  <2>2. Transmit(p)
    BY <1>10 DEF GuestSend
  <2> HIDE DEF p
  <2> QED
    BY <1>a, <2>1, <2>2
<1>11. ASSUME NEW c \in Conns, NEW flags \in {{"send"}, Both}, GuestShutdown(c, flags)
      PROVE  \E p \in Packets : toDevice' = Append(toDevice, p) /\ (p.op # "RW" => p.data = <<>>)
  <2> DEFINE p == Packet(c, "SHUTDOWN", <<>>, 0, flags)
  <2>1. flags \in SUBSET Both
    BY DEF Both
  <2>2. p \in Packets /\ p.data = <<>>
    BY <2>1, BarePacket DEF Ops, Packet
  <2>3. Transmit(p)
    BY <1>11 DEF GuestShutdown
  <2> HIDE DEF p
  <2> QED
    BY <1>a, <2>2, <2>3
<1>12. CASE Guest
  BY <1>7, <1>8, <1>9, <1>10, <1>11, <1>12 DEF Guest
<1>13. CASE UNCHANGED allVars
  BY <1>13 DEF allVars, vars
<1> QED
  BY <1>5, <1>6, <1>12, <1>13 DEF Next, Step

LEMMA GuestRing ==
  ASSUME DeviceTyped, OpensOnce, [Next]_allVars
  PROVE  \/ toGuest' = toGuest \/ toGuest' = <<>>
         \/ toGuest # <<>> /\ toGuest' = Tail(toGuest)
         \/ \E p \in Packets : toGuest' = Append(toGuest, p) /\ (p.op = "RESPONSE" => Of(toGuest, p.conn) = {})
<1> USE DEF rings
<1> DEFINE Grows == \E p \in Packets : toGuest' = Append(toGuest, p) /\ (p.op = "RESPONSE" => Of(toGuest, p.conn) = {})
<1>a. ASSUME NEW p \in Packets, Respond(p) \/ UNCHANGED <<rxFree, toGuest>>,
             p.op # "RESPONSE" \/ Of(toGuest, p.conn) = {}
      PROVE  toGuest' = toGuest \/ Grows
  BY <1>a DEF Respond
<1>b. ASSUME NEW d \in Conns, NEW f \in 0..(CntMod - 1),
             Respond(Packet(d, "CREDIT_UPDATE", <<>>, f, {})) \/ UNCHANGED <<rxFree, toGuest>>
      PROVE  toGuest' = toGuest \/ Grows
  <2> DEFINE p == Packet(d, "CREDIT_UPDATE", <<>>, f, {})
  <2>1. p \in Packets /\ p.op = "CREDIT_UPDATE"
    BY PacketType, BytesConcat DEF Ops, Packet
  <2> HIDE DEF p
  <2>2. Respond(p) \/ UNCHANGED <<rxFree, toGuest>>
    BY <1>b DEF p
  <2> QED
    BY <1>a, <2>1, <2>2
<1> HIDE DEF Grows
<1>1. CASE TxRequest
  <2> DEFINE p == Packet(TxConn, "RESPONSE", <<>>, 0, {})
  <2>1. TakeTx("REQUEST") /\ Respond(p) /\ RingsTyped
    BY <1>1 DEF TxRequest, DeviceTyped
  <2>2. TxConn \in Conns /\ 1 \in OfOp(toDevice, TxConn, "REQUEST")
    BY <2>1, TakenTyped, TakenRing
  <2>3. p \in Packets /\ p.conn = TxConn
    BY <2>2, BarePacket DEF Ops, Packet
  <2>4. Of(toGuest, TxConn) = {}
    BY <2>2 DEF OpensOnce, Untouched
  <2> HIDE DEF p
  <2>5. toGuest' = toGuest \/ Grows
    BY <1>a, <2>1, <2>3, <2>4
  <2> QED
    BY <2>5 DEF Grows
<1>2. CASE TxRw \/ TxRst \/ TxShutdown \/ Event
  BY <1>2 DEF TxRw, TxRst, TxShutdown, Event
<1>3. CASE TxCreditRequest
  <2>1. TxConn \in Conns
    BY <1>3, TakenTyped DEF TxCreditRequest, DeviceTyped
  <2>2. conns[TxConn].fwd \in 0..(CntMod - 1)
    BY <2>1, ConnFacts
  <2>3. Respond(Packet(TxConn, "CREDIT_UPDATE", <<>>, conns[TxConn].fwd, {})) \/ UNCHANGED <<rxFree, toGuest>>
    BY <1>3 DEF TxCreditRequest, CreditUpdate
  <2>4. toGuest' = toGuest \/ Grows
    BY <1>b, <2>1, <2>2, <2>3
  <2> QED
    BY <2>4 DEF Grows
<1>4. ASSUME NEW d \in Conns, Service(d) \/ Flush(d) \/ TransferStops(d) PROVE toGuest' = toGuest
  BY <1>4 DEF Service, Flush, TransferStops
<1>5. ASSUME NEW d \in Conns, TxFlushed(d) PROVE toGuest' = toGuest \/ Grows
  <2>1. Respond(Packet(d, "CREDIT_UPDATE", <<>>, Forwarded(d), {}))
    BY <1>5 DEF TxFlushed
  <2> QED
    BY <1>b, <2>1, ForwardedType
<1>6. ASSUME NEW d \in Conns, ServiceFlushed(d) PROVE toGuest' = toGuest \/ Grows
  <2>1. Respond(Packet(d, "CREDIT_UPDATE", <<>>, conns[d].fwd, {})) \/ UNCHANGED <<rxFree, toGuest>>
    BY <1>6 DEF ServiceFlushed, CreditUpdate
  <2>2. conns[d].fwd \in 0..(CntMod - 1)
    BY ConnFacts
  <2> QED
    BY <1>b, <2>1, <2>2
<1>7. ASSUME NEW d \in Conns, NEW n \in 1..Capacity, TransferRx(d, n) PROVE toGuest' = toGuest \/ Grows
  <2> DEFINE p == Packet(d, "RW", FrontOf(toDev[d], n), conns[d].fwd, {})
  <2>1. Respond(p) /\ n \in 1..Len(toDev[d].buf)
    BY <1>7 DEF TransferRx
  <2>2. FrontOf(toDev[d], n) \in Seq(Nat)
    BY <2>1, ConnFacts, DrainHalf
  <2>3. p \in Packets /\ p.op = "RW"
    BY <2>2, ConnFacts, PacketType DEF Ops, Packet
  <2> HIDE DEF p
  <2> QED
    BY <1>a, <2>1, <2>3
<1>8. ASSUME NEW d \in Conns, TransferEof(d) PROVE toGuest' = toGuest \/ Grows
  <2> DEFINE p == Packet(d, "SHUTDOWN", <<>>, 0, Both)
  <2>1. Respond(p)
    BY <1>8 DEF TransferEof
  <2>2. p \in Packets /\ p.op = "SHUTDOWN"
    BY BarePacket DEF Ops, Packet
  <2> HIDE DEF p
  <2> QED
    BY <1>a, <2>1, <2>2
<1>9. CASE Worker
  <2>1. CASE Tx \/ Event
    BY <2>1, <1>1, <1>2, <1>3 DEF Tx, Grows
  <2>2. CASE ~(Tx \/ Event)
    <3>1. toGuest' = toGuest \/ Grows
      BY <1>9, <2>2, <1>4, <1>5, <1>6, <1>7, <1>8 DEF Worker
    <3> QED
      BY <3>1 DEF Grows
  <2> QED
    BY <2>1, <2>2
<1>10. CASE Host
  BY <1>10, HostFrame
<1>11. CASE Guest
  <2>1. CASE GuestRecv
    BY <2>1, ReceivedTyped
  <2>2. CASE Reset
    BY <2>2 DEF Reset
  <2>3. ASSUME NEW c \in Conns, GuestConnect(c) \/ GuestGivesUp(c) \/ GuestCreditRequest(c)
        PROVE  toGuest' = toGuest
    BY <2>3 DEF GuestConnect, GuestGivesUp, GuestCreditRequest
  <2>4. ASSUME NEW c \in Conns, NEW k, GuestSend(c, k) PROVE toGuest' = toGuest
    BY <2>4 DEF GuestSend
  <2>5. ASSUME NEW c \in Conns, NEW flags, GuestShutdown(c, flags) PROVE toGuest' = toGuest
    BY <2>5 DEF GuestShutdown
  <2> QED
    BY <1>11, <2>1, <2>2, <2>3, <2>4, <2>5 DEF Guest
<1>12. CASE UNCHANGED allVars
  BY <1>12 DEF allVars, vars
<1> QED
  BY <1>9, <1>10, <1>11, <1>12 DEF Next, Step

LEMMA OnlyRwNext == DeviceTyped /\ OnlyRwCarries /\ [Next]_allVars => OnlyRwCarries'
<1> SUFFICES ASSUME DeviceTyped, OnlyRwCarries, [Next]_allVars PROVE OnlyRwCarries'
  OBVIOUS
<1>a. toDevice \in Seq(Packets)
  BY DEF DeviceTyped, RingsTyped
<1>b. \A i \in 1..Len(toDevice) : toDevice[i].op # "RW" => toDevice[i].data = <<>>
  BY DEF OnlyRwCarries
<1>1. CASE toDevice' = toDevice
  BY <1>1 DEF OnlyRwCarries
<1>2. CASE toDevice' = <<>>
  BY <1>2, EmptySeq DEF OnlyRwCarries
<1>3. CASE toDevice # <<>> /\ toDevice' = Tail(toDevice)
  <2> DEFINE n == Len(toDevice)
             q == Tail(toDevice)
  <2>1. n \in Nat \ {0} /\ Len(q) = n - 1 /\ \A i \in 1..(n - 1) : q[i] = toDevice[i + 1]
    BY <1>3, <1>a, RingTail
  <2>2. toDevice' = q
    BY <1>3
  <2> HIDE DEF q
  <2>3. \A i \in 1..(n - 1) : i + 1 \in 1..n
    <3> HIDE DEF n
    <3> QED
      BY <2>1
  <2>4. \A i \in 1..(n - 1) : q[i].op # "RW" => q[i].data = <<>>
    BY <1>b, <2>1, <2>3
  <2> QED
    BY <2>1, <2>2, <2>4 DEF OnlyRwCarries
<1>4. CASE \E p \in Packets : toDevice' = Append(toDevice, p) /\ (p.op # "RW" => p.data = <<>>)
  <2>1. PICK p \in Packets : toDevice' = Append(toDevice, p) /\ (p.op # "RW" => p.data = <<>>)
    BY <1>4
  <2> DEFINE n == Len(toDevice)
             q == Append(toDevice, p)
  <2>2. n \in Nat /\ Len(q) = n + 1 /\ \A i \in 1..(n + 1) : q[i] = IF i = n + 1 THEN p ELSE toDevice[i]
    BY <1>a, RingAppend
  <2>3. toDevice' = q
    BY <2>1
  <2> HIDE DEF q
  <2>4. \A i \in 1..(n + 1) : i = n + 1 \/ i \in 1..n
    <3> HIDE DEF n
    <3> QED
      BY <2>2
  <2>5. \A i \in 1..(n + 1) : q[i].op # "RW" => q[i].data = <<>>
    BY <1>b, <2>1, <2>2, <2>4
  <2> QED
    BY <2>2, <2>3, <2>5 DEF OnlyRwCarries
<1> QED
  BY <1>1, <1>2, <1>3, <1>4, DeviceRing

LEMMA ResponseNext == DeviceTyped /\ OpensOnce /\ ResponseIsFirst /\ [Next]_allVars => ResponseIsFirst'
<1> SUFFICES ASSUME DeviceTyped, OpensOnce, ResponseIsFirst, [Next]_allVars, NEW c \in Conns,
                    NEW i \in OfOp(toGuest', c, "RESPONSE"), NEW j \in Of(toGuest', c)
             PROVE  i <= j
  BY DEF ResponseIsFirst
<1>a. toGuest \in Seq(Packets) /\ Len(toGuest) \in Nat
  BY LenProperties DEF DeviceTyped, RingsTyped
<1>b. \A x \in OfOp(toGuest, c, "RESPONSE"), y \in Of(toGuest, c) : x <= y
  BY DEF ResponseIsFirst
<1>1. CASE toGuest' = toGuest
  BY <1>1, <1>b
<1>2. CASE toGuest' = <<>>
  BY <1>2, EmptySeq DEF Of
<1>3. CASE toGuest # <<>> /\ toGuest' = Tail(toGuest)
  <2>1. /\ i + 1 \in OfOp(toGuest, c, "RESPONSE")
        /\ j \in Nat /\ j + 1 \in Of(toGuest, c)
    BY <1>3, <1>a, OfTail
  <2>2. i \in Nat
    BY <1>3, <1>a, OfTail DEF OfOp
  <2>3. i + 1 <= j + 1
    BY <1>b, <2>1
  <2> QED
    BY <2>1, <2>2, <2>3
<1>4. CASE \E p \in Packets : toGuest' = Append(toGuest, p) /\ (p.op = "RESPONSE" => Of(toGuest, p.conn) = {})
  <2>1. PICK p \in Packets : toGuest' = Append(toGuest, p) /\ (p.op = "RESPONSE" => Of(toGuest, p.conn) = {})
    BY <1>4
  <2> DEFINE n == Len(toGuest)
  <2>2. /\ i \in OfOp(toGuest, c, "RESPONSE") \cup (IF p.conn = c /\ p.op = "RESPONSE" THEN {n + 1} ELSE {})
        /\ j \in Of(toGuest, c) \cup (IF p.conn = c THEN {n + 1} ELSE {})
    BY <2>1, <1>a, OfAppend
  <2>3. OfOp(toGuest, c, "RESPONSE") \subseteq Of(toGuest, c) /\ \A x \in Of(toGuest, c) : x \in 1..n
    BY DEF Of, OfOp
  <2> HIDE DEF n
  <2>4. n \in Nat
    BY <1>a DEF n
  <2>5. CASE p.conn = c /\ p.op = "RESPONSE"
    <3>1. i = n + 1 /\ j = n + 1
      BY <2>1, <2>2, <2>3, <2>5
    <3> QED
      BY <2>4, <3>1
  <2>6. CASE ~(p.conn = c /\ p.op = "RESPONSE")
    <3>1. i \in OfOp(toGuest, c, "RESPONSE") /\ i \in 1..n
      BY <2>2, <2>3, <2>6
    <3>2. CASE j \in Of(toGuest, c)
      BY <1>b, <3>1, <3>2
    <3>3. CASE j = n + 1
      BY <2>4, <3>1, <3>3
    <3> QED
      BY <2>2, <3>2, <3>3
  <2> QED
    BY <2>5, <2>6
<1> QED
  BY <1>1, <1>2, <1>3, <1>4, GuestRing

LEMMA RingsInit == Init => OnlyRwCarries /\ ResponseIsFirst
  BY EmptySeq DEF Init, OnlyRwCarries, ResponseIsFirst, Of, OfOp

-----------------------------------------------------------------------------
(* The stages of each direction.                                           *)

\* A step that leaves the stages of a direction alone, and opens nothing.
ToHostKept(c) ==
  /\ host'[c].got = host[c].got /\ toHost'[c].buf = toHost[c].buf
  /\ conns'[c].pending = conns[c].pending /\ Carried(toDevice', c) = Carried(toDevice, c)
  /\ guest'[c].tx = guest[c].tx
  /\ Alive(c)' /\ ~toHost'[c].reader_closed => Alive(c) /\ ~toHost[c].reader_closed
ToGuestKept(c) ==
  /\ guest'[c].got = guest[c].got /\ Carried(toGuest', c) = Carried(toGuest, c)
  /\ toDev'[c].buf = toDev[c].buf /\ host'[c].wrote = host[c].wrote
  /\ Alive(c)' /\ Joins(c)' => Alive(c) /\ Joins(c)

LEMMA OrderKept ==
  ASSUME NEW c \in Conns, InOrder(c)
  PROVE  /\ ToHostKept(c) /\ ToGuestKept(c) => InOrder(c)'
         /\ ToHostKept(c) =>
              (Alive(c)' /\ ~toHost'[c].reader_closed =>
                 host'[c].got \o toHost'[c].buf \o conns'[c].pending \o Carried(toDevice', c) = Fresh(0, guest'[c].tx))
         /\ ToGuestKept(c) =>
              (Alive(c)' /\ Joins(c)' =>
                 guest'[c].got \o Carried(toGuest', c) \o toDev'[c].buf = Fresh(0, host'[c].wrote))
         /\ ~Alive(c)' => InOrder(c)'
  BY DEF InOrder, ToHostKept, ToGuestKept

\* What the worker takes from the TX ring of each connection.
LEMMA TakenBytes ==
  ASSUME DeviceTyped, OnlyRwCarries, NEW op, TakeTx(op), NEW c \in Conns
  PROVE  /\ Carried(toDevice, c) = Bytes(Head(toDevice), c) \o Carried(toDevice', c)
         /\ Bytes(Head(toDevice), c) \in Seq(Nat) /\ Carried(toDevice', c) \in Seq(Nat)
         /\ op # "RW" \/ TxConn # c => Carried(toDevice', c) = Carried(toDevice, c)
<1>1. toDevice \in Seq(Packets) /\ toDevice # <<>> /\ toDevice' = Tail(toDevice)
      /\ Head(toDevice).op = op /\ Head(toDevice).conn = TxConn /\ Head(toDevice) = toDevice[1]
  BY TakenTyped DEF DeviceTyped, RingsTyped
<1>2. /\ Carried(toDevice, c) = Bytes(Head(toDevice), c) \o Carried(toDevice', c)
      /\ Bytes(Head(toDevice), c) \in Seq(Nat) /\ Carried(toDevice', c) \in Seq(Nat)
  BY <1>1, CarriedTail
<1>3. ASSUME op # "RW" \/ TxConn # c PROVE Bytes(Head(toDevice), c) = <<>>
  <2>1. CASE TxConn # c
    BY <1>1, <2>1 DEF Bytes
  <2>2. CASE op # "RW"
    <3>1. 1 \in 1..Len(toDevice)
      <4> DEFINE n == Len(toDevice)
      <4>1. n \in Nat \ {0}
        BY <1>1, RingTail
      <4> HIDE DEF n
      <4>2. 1 \in 1..n
        BY <4>1
      <4> QED
        BY <4>2 DEF n
    <3>2. Head(toDevice).data = <<>>
      BY <1>1, <2>2, <3>1 DEF OnlyRwCarries
    <3> QED
      BY <3>2 DEF Bytes
  <2> QED
    BY <1>3, <2>1, <2>2
<1> QED
  BY <1>2, <1>3, BytesConcat

\* What joins a ring, of each connection.
LEMMA RespondBytes ==
  ASSUME DeviceTyped, NEW p \in Packets, Respond(p) \/ UNCHANGED <<rxFree, toGuest>>, NEW c \in Conns
  PROVE  /\ p.conn # c \/ p.data = <<>> => Carried(toGuest', c) = Carried(toGuest, c)
         /\ rxFree > 0 /\ Respond(p) /\ p.conn = c => Carried(toGuest', c) = Carried(toGuest, c) \o p.data
         /\ p.op # "RESPONSE" \/ p.conn # c => OfOp(toGuest, c, "RESPONSE")' = OfOp(toGuest, c, "RESPONSE")
<1>1. toGuest \in Seq(Packets) /\ Carried(toGuest, c) \in Seq(Nat)
  BY CarriedType DEF DeviceTyped, RingsTyped
<1>2. CASE toGuest' = toGuest
  <2>1. ~(rxFree > 0 /\ Respond(p))
    <3>1. Append(toGuest, p) # toGuest
      <4> DEFINE n == Len(toGuest)
                 q == Append(toGuest, p)
      <4>1. n \in Nat /\ Len(q) = n + 1
        BY <1>1, RingAppend
      <4> HIDE DEF q
      <4>2. n # n + 1
        BY <4>1
      <4>3. q # toGuest
        BY <4>1, <4>2
      <4> QED
        BY <4>3 DEF q
    <3> QED
      BY <1>2, <3>1 DEF Respond
  <2> QED
    BY <1>2, <2>1 DEF OfOp, Of
<1>3. CASE toGuest' = Append(toGuest, p)
  <2>1. Carried(toGuest', c) = IF p.conn = c THEN Carried(toGuest, c) \o p.data ELSE Carried(toGuest, c)
    BY <1>1, <1>3, CarriedAppend
  <2>2. OfOp(Append(toGuest, p), c, "RESPONSE")
           = OfOp(toGuest, c, "RESPONSE") \cup (IF p.conn = c /\ p.op = "RESPONSE" THEN {Len(toGuest) + 1} ELSE {})
    BY <1>1, OfAppend
  <2>3. p.op # "RESPONSE" \/ p.conn # c => OfOp(toGuest, c, "RESPONSE")' = OfOp(toGuest, c, "RESPONSE")
    BY <1>3, <2>2
  <2> QED
    BY <1>1, <2>1, <2>3, BytesConcat
<1> QED
  BY <1>2, <1>3 DEF Respond

LEMMA TransmitBytes ==
  ASSUME DeviceTyped, NEW p \in Packets, Transmit(p), NEW c \in Conns
  PROVE  /\ p.conn = c => Carried(toDevice', c) = Carried(toDevice, c) \o p.data
         /\ p.conn # c \/ p.data = <<>> => Carried(toDevice', c) = Carried(toDevice, c)
<1>1. toDevice \in Seq(Packets) /\ Carried(toDevice, c) \in Seq(Nat)
  BY CarriedType DEF DeviceTyped, RingsTyped
<1>2. Carried(toDevice', c) = IF p.conn = c THEN Carried(toDevice, c) \o p.data ELSE Carried(toDevice, c)
  BY <1>1, CarriedAppend DEF Transmit
<1> QED
  BY <1>1, <1>2, BytesConcat

\* An empty stream.
LEMMA NoBytes == Fresh(0, 0) = <<>>
<1>1. Fresh(0, 0) \in Seq(Nat) /\ Len(Fresh(0, 0)) = 0
  BY FreshBytes
<1> QED
  BY <1>1, EmptySeq

LEMMA JoinsKept ==
  ASSUME NEW c, guest'[c] = guest[c], OfOp(toGuest, c, "RESPONSE")' = OfOp(toGuest, c, "RESPONSE")
  PROVE  Joins(c)' => Joins(c)
  BY DEF Joins

\* A ring that holds nothing of c.
LEMMA NothingCarried ==
  ASSUME NEW ring \in Seq(Packets), NEW c, Of(ring, c) = {} PROVE Carried(ring, c) = <<>>
  BY CarriedNone DEF Of

LEMMA OrderTx ==
  ASSUME DeviceTyped, OnlyRwCarries, NEW c \in Conns, OpensOf(c), InOrder(c), Tx
  PROVE  InOrder(c)'
<1>a. /\ conns \in [Conns -> ConnRecords] /\ host \in [Conns -> HostStreams]
      /\ toHost \in [Conns -> HalfType] /\ toDev \in [Conns -> HalfType]
      /\ toGuest \in Seq(Packets) /\ toDevice \in Seq(Packets)
  BY DEF DeviceTyped, ConnsTyped, PipesTyped, RingsTyped
<1>b. ASSUME UNCHANGED <<guest, host, toHost, toDev, toGuest>>, Carried(toDevice', c) = Carried(toDevice, c),
             Alive(c)' => Alive(c), Alive(c)' => conns'[c].pending = conns[c].pending
      PROVE  InOrder(c)'
  <2>1. OfOp(toGuest, c, "RESPONSE")' = OfOp(toGuest, c, "RESPONSE")
    BY <1>b DEF OfOp, Of
  <2>2. Joins(c)' => Joins(c)
    BY <1>b, <2>1, JoinsKept
  <2> QED
    BY <1>b, <2>2 DEF InOrder
<1>c. ASSUME NEW op, TakeTx(op), op # "RW", UNCHANGED <<guest, host, toGuest>>, Remove({TxConn}) PROVE InOrder(c)'
  <2>1. CASE c = TxConn
    <3>1. conns'[c] = Gone
      BY <1>c, <2>1, Removes
    <3>2. ~Alive(c)'
      BY <3>1 DEF Alive, Gone
    <3> QED
      BY <3>2, OrderKept
  <2>2. CASE c # TxConn
    <3>1. conns'[c] = conns[c] /\ toHost'[c] = toHost[c] /\ toDev'[c] = toDev[c]
      BY <1>c, <2>2, Removes
    <3>2. Carried(toDevice', c) = Carried(toDevice, c)
      BY <1>c, TakenBytes
    <3>3. OfOp(toGuest, c, "RESPONSE")' = OfOp(toGuest, c, "RESPONSE")
      BY <1>c DEF OfOp, Of
    <3>4. Joins(c)' => Joins(c)
      BY <1>c, <3>3, JoinsKept
    <3> QED
      BY <1>c, <3>1, <3>2, <3>4 DEF InOrder, Alive
  <2> QED
    BY <2>1, <2>2
<1>1. CASE TxRequest
  <2> DEFINE d == TxConn
             p == Packet(d, "RESPONSE", <<>>, 0, {})
  <2>1. /\ TakeTx("REQUEST") /\ HandOver(d) /\ Respond(p) /\ guest' = guest
        /\ conns' = [conns EXCEPT ![d] = Established]
    BY <1>1 DEF TxRequest
  <2>2. d \in Conns /\ 1 \in OfOp(toDevice, d, "REQUEST") /\ Fewer(c)
    <3>1. RingsTyped
      BY DEF DeviceTyped
    <3> QED
      BY <2>1, <3>1, TakenTyped, TakenRing
  <2>3. p \in Packets /\ p.conn = d /\ p.data = <<>>
    BY <2>2, BarePacket DEF Ops, Packet
  <2>4. c = d => OfOp(toDevice, c, "REQUEST")' = {}
    BY <2>1, TakenRing DEF OpensOf
  <2>5. Carried(toGuest', c) = Carried(toGuest, c)
    BY <2>1, <2>3, RespondBytes
  <2>6. c # d => OfOp(toGuest, c, "RESPONSE")' = OfOp(toGuest, c, "RESPONSE")
    BY <2>1, <2>3, RespondBytes
  <2> HIDE DEF d, p
  <2>7. /\ host'[c].got = host[c].got /\ host'[c].wrote = host[c].wrote
        /\ toHost'[c].buf = toHost[c].buf /\ toDev'[c].buf = toDev[c].buf
        /\ c # d => toHost'[c].reader_closed = toHost[c].reader_closed
    <3>1. /\ \E s : host' = [host EXCEPT ![d].st = s]
          /\ \/ UNCHANGED <<toHost, toDev>>
             \/ /\ toHost' = [toHost EXCEPT ![d].reader_closed = TRUE]
                /\ toDev' = [toDev EXCEPT ![d].writer_closed = TRUE]
      BY <2>1 DEF HandOver
    <3>2. host'[c].got = host[c].got /\ host'[c].wrote = host[c].wrote
      BY <3>1, <1>a DEF HostStreams
    <3>3. CASE UNCHANGED <<toHost, toDev>>
      BY <3>2, <3>3
    <3>4. CASE /\ toHost' = [toHost EXCEPT ![d].reader_closed = TRUE]
               /\ toDev' = [toDev EXCEPT ![d].writer_closed = TRUE]
      <4>1. toHost'[c].buf = toHost[c].buf /\ (c # d => toHost'[c].reader_closed = toHost[c].reader_closed)
        BY <3>4, <1>a, ZenonT(60) DEF HalfType
      <4>2. toDev'[c].buf = toDev[c].buf
        BY <3>4, <1>a DEF HalfType
      <4> QED
        BY <3>2, <4>1, <4>2
    <3> QED
      BY <3>1, <3>3, <3>4
  <2>8. CASE c = d
    <3>1. Untouched(c)
      BY <2>2, <2>8 DEF OpensOf
    <3>2. /\ host'[c].got = <<>> /\ toHost'[c].buf = <<>> /\ toDev'[c].buf = <<>> /\ host'[c].wrote = 0
          /\ guest'[c].got = <<>> /\ guest'[c].tx = 0 /\ Of(toGuest, c) = {}
          /\ Of(toDevice, c) = OfOp(toDevice, c, "REQUEST")
      BY <2>1, <2>7, <3>1 DEF Untouched, Unused
    <3>3. conns'[c].pending = <<>>
      BY <2>1, <2>8, <1>a DEF Established, Gone
    <3>4. Carried(toGuest', c) = <<>>
      BY <1>a, <2>5, <3>2, NothingCarried
    <3>5. Carried(toDevice', c) = <<>>
      <4>1. Of(toDevice', c) = {}
        <5>1. Of(toDevice, c)' = {}
          BY <2>2, <2>4, <2>8, <3>2 DEF Fewer
        <5> QED
          BY <5>1
      <4>2. toDevice' \in Seq(Packets)
        <5>1. RingsTyped
          BY DEF DeviceTyped
        <5> QED
          BY <2>1, <5>1, TakenTyped
      <4> QED
        BY <4>1, <4>2, NothingCarried
    <3>6. <<>> \o <<>> = <<>>
      BY BytesConcat
    <3> QED
      BY <3>2, <3>3, <3>4, <3>5, <3>6, NoBytes DEF InOrder
  <2>9. CASE c # d
    <3>1. conns'[c] = conns[c]
      BY <2>1, <2>9, <1>a
    <3>2. Carried(toDevice', c) = Carried(toDevice, c)
      BY <2>1, TakenBytes
    <3>3. Joins(c)' => Joins(c)
      BY <2>1, <2>6, <2>9, JoinsKept
    <3> QED
      BY <2>1, <2>5, <2>7, <2>9, <3>1, <3>2, <3>3 DEF InOrder, Alive
  <2> QED
    BY <2>8, <2>9
<1>2. CASE TxRw
  <2> DEFINE data == Head(toDevice).data
  <2>1. /\ TakeTx("RW") /\ UNCHANGED <<guest, host, toHost, toDev, toGuest>>
        /\ IF conns[TxConn].state = "established"
           THEN conns' = [conns EXCEPT ![TxConn].pending = @ \o data]
           ELSE conns' = conns
    BY <1>2 DEF TxRw, pipes
  <2>2. /\ Carried(toDevice, c) = Bytes(Head(toDevice), c) \o Carried(toDevice', c)
        /\ Bytes(Head(toDevice), c) \in Seq(Nat) /\ Carried(toDevice', c) \in Seq(Nat)
        /\ TxConn # c => Carried(toDevice', c) = Carried(toDevice, c)
    BY <2>1, TakenBytes
  <2>3. CASE TxConn = c /\ conns[TxConn].state = "established"
    <3>1. Bytes(Head(toDevice), c) = data
      BY <2>3 DEF Bytes, TxConn
    <3> HIDE DEF data
    <3>2. conns'[c].pending = conns[c].pending \o data /\ conns'[c].state = conns[c].state
      BY <1>a, <2>1, <2>3 DEF ConnRecords
    <3>3. /\ host[c].got \in Seq(Nat) /\ toHost[c].buf \in Seq(Nat) /\ conns[c].pending \in Seq(Nat)
      BY ConnFacts
    <3>4. host[c].got \o toHost[c].buf \in Seq(Nat)
      BY <3>3, BytesConcat
    <3>5. host[c].got \o toHost[c].buf \o (conns[c].pending \o data) \o Carried(toDevice', c)
            = host[c].got \o toHost[c].buf \o conns[c].pending \o Carried(toDevice, c)
      <4> DEFINE a == host[c].got \o toHost[c].buf
                 b == conns[c].pending
                 e == Carried(toDevice', c)
      <4>1. a \in Seq(Nat) /\ b \in Seq(Nat) /\ data \in Seq(Nat) /\ e \in Seq(Nat) /\ Carried(toDevice, c) = data \o e
        BY <2>2, <3>1, <3>3, <3>4
      <4> HIDE DEF a, b, e
      <4>2. a \o b \in Seq(Nat) /\ a \o (b \o data) = (a \o b) \o data
        BY <4>1, BytesConcat
      <4>3. ((a \o b) \o data) \o e = (a \o b) \o (data \o e)
        BY <4>1, <4>2, BytesConcat, SMTT(30)
      <4>4. (a \o (b \o data)) \o e = (a \o b) \o Carried(toDevice, c)
        BY <4>1, <4>2, <4>3
      <4> QED
        BY <4>4 DEF a, b, e
    <3>6. OfOp(toGuest, c, "RESPONSE")' = OfOp(toGuest, c, "RESPONSE")
      BY <2>1 DEF OfOp, Of
    <3>7. Joins(c)' => Joins(c)
      BY <2>1, <3>6, JoinsKept
    <3> QED
      BY <2>1, <3>2, <3>5, <3>7 DEF InOrder, Alive
  <2>4. CASE TxConn # c
    <3>1. conns'[c] = conns[c]
      BY <1>a, <2>1, <2>4
    <3> QED
      BY <1>b, <2>1, <2>2, <2>4, <3>1 DEF Alive
  <2>5. CASE TxConn = c /\ conns[TxConn].state # "established"
    BY <2>1, <2>5, OrderKept DEF Alive
  <2> QED
    BY <2>3, <2>4, <2>5
<1>3. CASE TxRst
  BY <1>3, <1>c DEF TxRst
<1>4. CASE TxShutdown
  <2>1. /\ TakeTx("SHUTDOWN") /\ UNCHANGED <<guest, host, toGuest>>
        /\ \/ Remove({TxConn})
           \/ /\ UNCHANGED pipes
              /\ \E f : conns' = [conns EXCEPT ![TxConn].state = "shutdown", ![TxConn].flags = f]
    BY <1>4 DEF TxShutdown
  <2>2. CASE Remove({TxConn})
    BY <1>c, <2>1, <2>2
  <2>3. CASE ~Remove({TxConn})
    <3>1. UNCHANGED <<toHost, toDev>>
      BY <2>1, <2>3 DEF pipes
    <3>2. Alive(c)' => conns'[c] = conns[c]
      BY <1>a, <2>1, <2>3 DEF Alive, ConnRecords
    <3>3. Carried(toDevice', c) = Carried(toDevice, c)
      BY <2>1, TakenBytes
    <3> QED
      BY <1>b, <2>1, <3>1, <3>2, <3>3 DEF Alive
  <2> QED
    BY <2>2, <2>3
<1>5. CASE TxCreditRequest
  <2> DEFINE p == Packet(TxConn, "CREDIT_UPDATE", <<>>, conns[TxConn].fwd, {})
  <2>1. /\ TakeTx("CREDIT_REQUEST") /\ UNCHANGED <<conns, toHost, toDev, guest, host>>
        /\ Respond(p) \/ UNCHANGED <<rxFree, toGuest>>
    BY <1>5 DEF TxCreditRequest, CreditUpdate, pipes
  <2>2. TxConn \in Conns
    BY <2>1, TakenTyped DEF DeviceTyped
  <2>3. p \in Packets /\ p.op = "CREDIT_UPDATE" /\ p.data = <<>>
    BY <2>2, PacketType, BytesConcat, ConnFacts DEF Ops, Packet
  <2> HIDE DEF p
  <2>4. Carried(toGuest', c) = Carried(toGuest, c) /\ OfOp(toGuest, c, "RESPONSE")' = OfOp(toGuest, c, "RESPONSE")
    BY <2>1, <2>3, RespondBytes
  <2>5. Carried(toDevice', c) = Carried(toDevice, c)
    BY <2>1, TakenBytes
  <2>6. Joins(c)' => Joins(c)
    BY <2>1, <2>4, JoinsKept
  <2> QED
    BY <2>1, <2>4, <2>5, <2>6 DEF InOrder, Alive
<1> QED
  BY <1>1, <1>2, <1>3, <1>4, <1>5 DEF Tx

LEMMA OrderWorker ==
  ASSUME DeviceTyped, NEW c \in Conns, InOrder(c), NEW d \in Conns,
         \/ Event \/ Service(d) \/ Flush(d) \/ TxFlushed(d) \/ ServiceFlushed(d)
         \/ (\E n \in 1..Capacity : TransferRx(d, n)) \/ TransferEof(d) \/ TransferStops(d)
  PROVE  InOrder(c)'
<1>a. /\ conns \in [Conns -> ConnRecords] /\ toHost \in [Conns -> HalfType] /\ toDev \in [Conns -> HalfType]
      /\ toGuest \in Seq(Packets) /\ toDevice \in Seq(Packets)
  BY DEF DeviceTyped, ConnsTyped, PipesTyped, RingsTyped
<1>b. ASSUME UNCHANGED <<guest, host, toDevice>>, toHost'[c] = toHost[c], toDev'[c] = toDev[c],
             conns'[c].state = conns[c].state, conns'[c].pending = conns[c].pending,
             NEW p \in Packets, p.op # "RESPONSE", p.conn # c \/ p.data = <<>>, Respond(p) \/ UNCHANGED <<rxFree, toGuest>>
      PROVE  InOrder(c)'
  <2>1. Carried(toGuest', c) = Carried(toGuest, c) /\ OfOp(toGuest, c, "RESPONSE")' = OfOp(toGuest, c, "RESPONSE")
    BY <1>b, RespondBytes
  <2>2. Joins(c)' => Joins(c)
    BY <1>b, <2>1, JoinsKept
  <2> QED
    BY <1>b, <2>1, <2>2 DEF InOrder, Alive
<1>1. CASE Event \/ Service(d) \/ TransferStops(d)
  <2>1. UNCHANGED <<conns, toHost, toDev, toGuest, toDevice, guest, host>>
    BY <1>1 DEF Event, Service, TransferStops, pipes, rings
  <2>2. OfOp(toGuest, c, "RESPONSE")' = OfOp(toGuest, c, "RESPONSE")
    BY <2>1 DEF OfOp, Of
  <2>3. Joins(c)' => Joins(c)
    BY <2>1, <2>2, JoinsKept
  <2> QED
    BY <2>1, <2>3 DEF InOrder, Alive
<1>2. CASE Flush(d)
  <2>1. PICK n \in 0..Len(conns[d].pending), front \in Seq(Nat), rest \in Seq(Nat) :
           /\ conns[d].pending = front \o rest
           /\ Len(front) = n /\ Len(rest) = Len(conns[d].pending) - n
           /\ Extend(toHost[d], front) \in HalfType
           /\ Extend(toHost[d], front).buf = toHost[d].buf \o front
           /\ Len(Extend(toHost[d], front).buf) <= Capacity
           /\ Extend(toHost[d], front).reader_closed = toHost[d].reader_closed
           /\ toHost' = [toHost EXCEPT ![d] = Extend(toHost[d], front)]
           /\ conns' = [conns EXCEPT ![d].pending = rest]
           /\ total' = total + n
    BY <1>2, Flushes
  <2>2. UNCHANGED <<toDev, toGuest, toDevice, guest, host>>
    BY <1>2 DEF Flush, rings
  <2>3. OfOp(toGuest, c, "RESPONSE")' = OfOp(toGuest, c, "RESPONSE")
    BY <2>2 DEF OfOp, Of
  <2>4. Joins(c)' => Joins(c)
    BY <2>2, <2>3, JoinsKept
  <2>5. CASE c = d
    <3>1. /\ toHost'[c].buf = toHost[c].buf \o front /\ toHost'[c].reader_closed = toHost[c].reader_closed
          /\ conns'[c].pending = rest /\ conns'[c].state = conns[c].state
      BY <2>1, <2>5, <1>a DEF ConnRecords
    <3>2. host[c].got \in Seq(Nat) /\ toHost[c].buf \in Seq(Nat)
      BY ConnFacts
    <3>3. host[c].got \o (toHost[c].buf \o front) \o rest = host[c].got \o toHost[c].buf \o conns[c].pending
      <4> DEFINE a == host[c].got
                 b == toHost[c].buf
      <4>1. a \in Seq(Nat) /\ b \in Seq(Nat) /\ conns[c].pending = front \o rest
        BY <2>1, <2>5, <3>2
      <4> HIDE DEF a, b
      <4>2. a \o b \in Seq(Nat) /\ a \o (b \o front) = (a \o b) \o front
        BY <4>1, BytesConcat
      <4>3. ((a \o b) \o front) \o rest = (a \o b) \o (front \o rest)
        BY <4>1, <4>2, BytesConcat, SMTT(30)
      <4>4. (a \o (b \o front)) \o rest = (a \o b) \o conns[c].pending
        BY <4>1, <4>2, <4>3
      <4> QED
        BY <4>4 DEF a, b
    <3> QED
      BY <2>2, <2>4, <3>1, <3>3 DEF InOrder, Alive
  <2>6. CASE c # d
    <3>1. toHost'[c] = toHost[c] /\ conns'[c] = conns[c]
      BY <2>1, <2>6, <1>a
    <3> QED
      BY <2>2, <2>4, <3>1 DEF InOrder, Alive
  <2> QED
    BY <2>5, <2>6
<1>3. CASE TxFlushed(d)
  <2> DEFINE p == Packet(d, "CREDIT_UPDATE", <<>>, Forwarded(d), {})
  <2>1. /\ UNCHANGED <<toHost, toDev, toDevice, guest, host>>
        /\ conns' = [conns EXCEPT ![d].fwd = Forwarded(d)] /\ Respond(p)
    BY <1>3 DEF TxFlushed, pipes
  <2>2. p \in Packets /\ p.op = "CREDIT_UPDATE" /\ p.data = <<>>
    BY ForwardedType, PacketType, BytesConcat DEF Ops, Packet
  <2> HIDE DEF p
  <2>3. conns'[c].state = conns[c].state /\ conns'[c].pending = conns[c].pending
    BY <2>1, <1>a DEF ConnRecords
  <2> QED
    BY <1>b, <2>1, <2>2, <2>3
<1>4. CASE ServiceFlushed(d)
  <2> DEFINE p == Packet(d, "CREDIT_UPDATE", <<>>, conns[d].fwd, {})
  <2>1. /\ UNCHANGED <<conns, toHost, toDev, toDevice, guest, host>>
        /\ Respond(p) \/ UNCHANGED <<rxFree, toGuest>>
    BY <1>4 DEF ServiceFlushed, CreditUpdate, pipes
  <2>2. p \in Packets /\ p.op = "CREDIT_UPDATE" /\ p.data = <<>>
    BY ConnFacts, PacketType, BytesConcat DEF Ops, Packet
  <2> HIDE DEF p
  <2> QED
    BY <1>b, <2>1, <2>2
<1>5. ASSUME NEW n \in 1..Capacity, TransferRx(d, n) PROVE InOrder(c)'
  <2> DEFINE front == FrontOf(toDev[d], n)
             rest == Drain(toDev[d], n)
             p == Packet(d, "RW", front, conns[d].fwd, {})
  <2>1. /\ UNCHANGED <<conns, toHost, toDevice, guest, host>> /\ rxFree > 0
        /\ toDev' = [toDev EXCEPT ![d] = rest] /\ Respond(p) /\ n \in 1..Len(toDev[d].buf)
    BY <1>5 DEF TransferRx
  <2>2. front \in Seq(Nat) /\ rest.buf \in Seq(Nat) /\ toDev[d].buf = front \o rest.buf
    BY <2>1, ConnFacts, DrainHalf
  <2>3. p \in Packets /\ p.op = "RW" /\ p.data = front /\ p.conn = d
    BY <2>2, ConnFacts, PacketType DEF Ops, Packet
  <2> HIDE DEF p, front, rest
  <2>4. CASE c = d
    <3>1. Carried(toGuest', c) = Carried(toGuest, c) \o front /\ OfOp(toGuest, c, "RESPONSE")' = OfOp(toGuest, c, "RESPONSE")
      BY <2>1, <2>3, <2>4, RespondBytes
    <3>2. Joins(c)' => Joins(c)
      BY <2>1, <3>1, JoinsKept
    <3>3. toDev'[c].buf = rest.buf
      BY <2>1, <2>4, <1>a
    <3>4. guest[c].got \in Seq(Nat) /\ Carried(toGuest, c) \in Seq(Nat)
      BY <1>a, ConnFacts, CarriedType
    <3>5. guest[c].got \o (Carried(toGuest, c) \o front) \o rest.buf
            = guest[c].got \o Carried(toGuest, c) \o toDev[c].buf
      <4> DEFINE a == guest[c].got
                 b == Carried(toGuest, c)
                 e == rest.buf
      <4>1. a \in Seq(Nat) /\ b \in Seq(Nat) /\ e \in Seq(Nat) /\ toDev[c].buf = front \o e
        BY <2>2, <2>4, <3>4
      <4> HIDE DEF a, b, e
      <4>2. a \o b \in Seq(Nat) /\ a \o (b \o front) = (a \o b) \o front
        BY <2>2, <4>1, BytesConcat
      <4>3. ((a \o b) \o front) \o e = (a \o b) \o (front \o e)
        BY <2>2, <4>1, <4>2, BytesConcat, ZenonT(60)
      <4>4. (a \o (b \o front)) \o e = (a \o b) \o toDev[c].buf
        BY <4>1, <4>2, <4>3
      <4> QED
        BY <4>4 DEF a, b, e
    <3> QED
      BY <2>1, <3>1, <3>2, <3>3, <3>5 DEF InOrder, Alive
  <2>5. CASE c # d
    <3>1. toDev'[c] = toDev[c]
      BY <2>1, <2>5, <1>a
    <3> QED
      BY <1>b, <2>1, <2>3, <2>5, <3>1
  <2> QED
    BY <2>4, <2>5
<1>6. CASE TransferEof(d)
  <2> DEFINE p == Packet(d, "SHUTDOWN", <<>>, 0, Both)
  <2>1. UNCHANGED <<toDevice, guest, host>> /\ Respond(p) /\ Remove({d})
    BY <1>6 DEF TransferEof
  <2>2. p \in Packets /\ p.op = "SHUTDOWN" /\ p.data = <<>>
    BY BarePacket DEF Ops, Packet
  <2> HIDE DEF p
  <2>3. CASE c = d
    <3>1. conns'[c] = Gone
      BY <2>1, <2>3, Removes
    <3>2. ~Alive(c)'
      BY <3>1 DEF Alive, Gone
    <3> QED
      BY <3>2, OrderKept
  <2>4. CASE c # d
    <3>1. conns'[c] = conns[c] /\ toHost'[c] = toHost[c] /\ toDev'[c] = toDev[c]
      BY <2>1, <2>4, Removes
    <3> QED
      BY <1>b, <2>1, <2>2, <3>1
  <2> QED
    BY <2>3, <2>4
<1> QED
  BY <1>1, <1>2, <1>3, <1>4, <1>5, <1>6

LEMMA OrderGuest ==
  ASSUME DeviceTyped, ResponseIsFirst, NEW c \in Conns, OpensOf(c), InOrder(c), Guest
  PROVE  InOrder(c)'
<1>a. /\ guest \in [Conns -> GuestSockets] /\ toGuest \in Seq(Packets) /\ toDevice \in Seq(Packets)
  BY DEF DeviceTyped, RingsTyped
<1>b. ASSUME GuestUnchanged, UNCHANGED toGuest, Carried(toDevice', c) = Carried(toDevice, c),
             guest'[c].tx = guest[c].tx, guest'[c].got = guest[c].got,
             \/ guest'[c].st = guest[c].st \/ guest'[c].st = "gone" \/ guest[c].st \in {"open", "sendshut"}
      PROVE  InOrder(c)'
  <2>1. UNCHANGED <<conns, toHost, toDev, host>>
    BY <1>b DEF GuestUnchanged, pipes
  <2>2. Joins(c)' => Joins(c)
    BY <1>b DEF Joins, OfOp, Of
  <2> QED
    BY <1>b, <2>1, <2>2 DEF InOrder, Alive
\* A packet without data, or of another connection.
<1>c. ASSUME NEW d \in Conns, NEW p \in Packets, p.conn = d, p.data = <<>> \/ c # d, Transmit(p),
             GuestUnchanged, UNCHANGED toGuest,
             NEW r, guest' = [guest EXCEPT ![d] = r],
             c = d => r.tx = guest[c].tx /\ r.got = guest[c].got
                        /\ (r.st = guest[c].st \/ r.st = "gone" \/ guest[c].st \in {"open", "sendshut"})
      PROVE  InOrder(c)'
  <2>1. Carried(toDevice', c) = Carried(toDevice, c)
    BY <1>c, TransmitBytes
  <2>2. CASE c = d
    <3>1. guest'[c] = r
      BY <1>a, <1>c, <2>2
    <3> QED
      BY <1>b, <1>c, <2>1, <2>2, <3>1
  <2>3. CASE c # d
    <3>1. guest'[c] = guest[c]
      BY <1>a, <1>c, <2>3
    <3> QED
      BY <1>b, <1>c, <2>1, <3>1
  <2> QED
    BY <2>2, <2>3
<1>1. CASE GuestRecv
  <2> DEFINE p == Head(toGuest)
             d == p.conn
             q == Packet(d, "RST", <<>>, 0, {})
             live == guest[d].st \in {"open", "sendshut"} \/ (guest[d].st = "connecting" /\ p.op = "RESPONSE")
             r == [st  |-> CASE p.op = "RESPONSE" -> "open"
                               [] p.op = "SHUTDOWN" -> "ended"
                               [] OTHER -> guest[d].st,
                   tx  |-> guest[d].tx,
                   fwd |-> p.fwd,
                   got |-> guest[d].got \o p.data,
                   asked |-> guest[d].asked]
  <2>1. p \in Packets /\ d \in Conns /\ p = toGuest[1] /\ toGuest # <<>> /\ toGuest' = Tail(toGuest)
    BY <1>1, ReceivedTyped
  <2>2. q \in Packets /\ q.data = <<>>
    BY <2>1, BarePacket DEF Ops, Packet
  <2>3. Transmit(q) \/ UNCHANGED toDevice
    BY <1>1 DEF GuestRecv
  <2>4. guest' = IF ~live THEN guest ELSE [guest EXCEPT ![d] = r]
    BY <1>1 DEF GuestRecv
  <2>5. UNCHANGED <<conns, toHost, toDev, host>>
    BY <1>1 DEF GuestRecv, GuestUnchanged, pipes
  <2>6. /\ r.tx = guest[d].tx /\ r.got = guest[d].got \o p.data
        /\ r.st = CASE p.op = "RESPONSE" -> "open"
                               [] p.op = "SHUTDOWN" -> "ended"
                               [] OTHER -> guest[d].st
    OBVIOUS
  <2>7. Carried(toDevice', c) = Carried(toDevice, c)
    <3> HIDE DEF q
    <3> QED
      BY <2>2, <2>3, TransmitBytes
  <2>8. /\ Carried(toGuest, c) = Bytes(p, c) \o Carried(toGuest', c)
        /\ Bytes(p, c) \in Seq(Nat) /\ Carried(toGuest', c) \in Seq(Nat)
    BY <1>a, <2>1, CarriedTail
  <2>9. 1 \in Of(toGuest, d) /\ (p.op = "RESPONSE" => 1 \in OfOp(toGuest, d, "RESPONSE"))
    <3> DEFINE n == Len(toGuest)
    <3>1. n \in Nat \ {0}
      BY <2>1, <1>a, RingTail
    <3> HIDE DEF n
    <3>2. 1 \in 1..n
      BY <3>1
    <3> QED
      BY <2>1, <3>2 DEF n, Of, OfOp
  <2>10. \A i \in OfOp(toGuest', c, "RESPONSE") : i \in Nat \ {0} /\ i + 1 \in OfOp(toGuest, c, "RESPONSE")
    <3>1. /\ \A i \in Of(Tail(toGuest), c) : i \in Nat \ {0}
          /\ \A i \in OfOp(Tail(toGuest), c, "RESPONSE") : i + 1 \in OfOp(toGuest, c, "RESPONSE")
      BY <1>a, <2>1, OfTail
    <3>2. OfOp(Tail(toGuest), c, "RESPONSE") \subseteq Of(Tail(toGuest), c)
      BY DEF OfOp
    <3> QED
      BY <2>1, <3>1, <3>2
  <2> HIDE DEF p, q, r
  <2>11. guest'[c].tx = guest[c].tx
    BY <1>a, <2>4, <2>6
  <2>12. Alive(c)' /\ Joins(c)' => guest'[c].got \o Carried(toGuest', c) \o toDev'[c].buf = Fresh(0, host'[c].wrote)
    <3>1. CASE c # d
      <4>1. guest'[c] = guest[c]
        BY <1>a, <2>4, <3>1
      <4>2. Carried(toGuest', c) = Carried(toGuest, c)
        BY <2>8, <3>1, BytesConcat DEF Bytes
      <4>3. Joins(c)' => Joins(c)
        BY <2>10, <4>1 DEF Joins
      <4> QED
        BY <2>5, <4>1, <4>2, <4>3 DEF InOrder, Alive
    <3>2. CASE c = d /\ live
      <4>1. Joins(c)
        BY <2>9, <3>2 DEF Joins
      <4>2. guest'[c].got = guest[c].got \o p.data
        BY <1>a, <2>1, <2>4, <2>6, <3>2
      <4>3. Bytes(p, c) = p.data
        BY <3>2 DEF Bytes
      <4>4. guest[c].got \in Seq(Nat)
        BY ConnFacts
      <4>5. (guest[c].got \o p.data) \o Carried(toGuest', c) = guest[c].got \o Carried(toGuest, c)
        <5> DEFINE a == guest[c].got
                   b == p.data
                   e == Carried(toGuest', c)
        <5>1. a \in Seq(Nat) /\ b \in Seq(Nat) /\ e \in Seq(Nat) /\ Carried(toGuest, c) = b \o e
          BY <2>8, <4>3, <4>4
        <5> HIDE DEF a, b, e
        <5>2. (a \o b) \o e = a \o (b \o e)
          BY <5>1, BytesConcat
        <5>3. (a \o b) \o e = a \o Carried(toGuest, c)
          BY <5>1, <5>2
        <5> QED
          BY <5>3 DEF a, b, e
      <4> QED
        BY <2>5, <4>1, <4>2, <4>5 DEF InOrder, Alive
    <3>3. CASE c = d /\ ~live
      <4>1. ASSUME NEW i \in OfOp(toGuest', c, "RESPONSE"), guest[c].st = "connecting" PROVE FALSE
        <5>1. i + 1 <= 1
          BY <2>9, <2>10, <3>3 DEF ResponseIsFirst
        <5>2. i \in Nat \ {0}
          BY <2>10
        <5> QED
          BY <5>1, <5>2
      <4>2. guest' = guest /\ guest[c].st \notin {"open", "sendshut"}
        BY <2>4, <3>3
      <4>3. ~Joins(c)'
        BY <4>1, <4>2 DEF Joins
      <4> QED
        BY <4>3
    <3> QED
      BY <3>1, <3>2, <3>3
  <2> QED
    BY <2>5, <2>7, <2>11, <2>12 DEF InOrder, Alive
<1>2. CASE Reset
  <2>1. conns'[c] = Gone
    BY <1>2, Removes DEF Reset
  <2>2. ~Alive(c)'
    BY <2>1 DEF Alive, Gone
  <2> QED
    BY <2>2, OrderKept
<1>3. ASSUME NEW d \in Conns, GuestGivesUp(d) PROVE InOrder(c)'
  <2>1. /\ guest' = [guest EXCEPT ![d].st = "gone"] /\ GuestUnchanged /\ UNCHANGED <<toGuest, toDevice>>
    BY <1>3 DEF GuestGivesUp, rings
  <2>2. /\ guest'[c].tx = guest[c].tx /\ guest'[c].got = guest[c].got
        /\ guest'[c].st = guest[c].st \/ guest'[c].st = "gone"
    BY <1>a, <2>1 DEF GuestSockets
  <2> QED
    BY <1>b, <2>1, <2>2
<1>4. ASSUME NEW d \in Conns, GuestConnect(d) PROVE InOrder(c)'
  <2> DEFINE p == Packet(d, "REQUEST", <<>>, 0, {})
             r == [guest[d] EXCEPT !.st = "connecting"]
  <2>1. /\ guest' = [guest EXCEPT ![d] = r] /\ Transmit(p) /\ guest[d].st = "closed"
        /\ GuestUnchanged /\ UNCHANGED toGuest
    BY <1>4 DEF GuestConnect
  <2>2. p \in Packets /\ p.conn = d /\ p.data = <<>>
    BY BarePacket DEF Ops, Packet
  <2> HIDE DEF p, r
  <2>3. CASE c = d
    <3>1. conns[c] = Gone
      BY <2>1, <2>3 DEF OpensOf, Untouched
    <3>2. ~Alive(c)'
      BY <2>1, <3>1 DEF Alive, Gone, GuestUnchanged
    <3> QED
      BY <3>2, OrderKept
  <2>4. CASE c # d
    BY <1>c, <2>1, <2>2, <2>4
  <2> QED
    BY <2>3, <2>4
<1>5. ASSUME NEW d \in Conns, NEW k \in 1..BufAlloc, GuestSend(d, k) PROVE InOrder(c)'
  <2> DEFINE data == Fresh(guest[d].tx, k)
             p == Packet(d, "RW", data, 0, {})
             r == [guest[d] EXCEPT !.tx = @ + k]
  <2>1. /\ guest' = [guest EXCEPT ![d] = r] /\ Transmit(p)
        /\ GuestUnchanged /\ UNCHANGED toGuest
    BY <1>5 DEF GuestSend
  <2>2. p \in Packets /\ p.conn = d /\ p.data = data
    BY SentIsPacket DEF Packet
  <2>3. r.tx = guest[d].tx + k /\ r.got = guest[d].got /\ r.st = guest[d].st
    BY <1>a DEF GuestSockets
  <2> HIDE DEF p, r, data
  <2>4. CASE c = d
    <3>1. Carried(toDevice', c) = Carried(toDevice, c) \o data
      BY <2>1, <2>2, <2>4, TransmitBytes
    <3>2. guest'[c] = r
      BY <1>a, <2>1, <2>4
    <3>3. UNCHANGED <<conns, toHost, toDev, host>>
      BY <2>1 DEF GuestUnchanged, pipes
    <3>4. Joins(c)' => Joins(c)
      BY <2>1, <2>3, <2>4, <3>2 DEF Joins, Of, OfOp
    <3>5. /\ host[c].got \in Seq(Nat) /\ toHost[c].buf \in Seq(Nat) /\ conns[c].pending \in Seq(Nat)
          /\ Carried(toDevice, c) \in Seq(Nat) /\ guest[c].tx \in Nat /\ k \in Nat
      BY <1>a, ConnFacts, CarriedType
    <3>6. data \in Seq(Nat) /\ Fresh(0, guest[c].tx) \o data = Fresh(0, guest[c].tx + k)
      BY <2>4, <3>5, FreshBytes DEF data
    <3> DEFINE a == host[c].got \o toHost[c].buf \o conns[c].pending
               b == Carried(toDevice, c)
    <3>7. a \in Seq(Nat) /\ b \in Seq(Nat)
      <4>1. host[c].got \o toHost[c].buf \in Seq(Nat)
        BY <3>5, BytesConcat
      <4> QED
        BY <3>5, <4>1, BytesConcat
    <3>8. Alive(c) /\ ~toHost[c].reader_closed => a \o b = Fresh(0, guest[c].tx)
      BY DEF InOrder
    <3> HIDE DEF a, b
    <3>9. a \o (b \o data) = (a \o b) \o data
      BY <3>6, <3>7, BytesConcat
    <3>10. Alive(c) /\ ~toHost[c].reader_closed => a \o (b \o data) = Fresh(0, guest[c].tx + k)
      BY <3>6, <3>8, <3>9
    <3>11. Alive(c)' /\ ~toHost'[c].reader_closed =>
             host'[c].got \o toHost'[c].buf \o conns'[c].pending \o Carried(toDevice', c) = Fresh(0, guest'[c].tx)
      BY <2>3, <2>4, <3>1, <3>2, <3>3, <3>10 DEF a, b, Alive
    <3>12. guest'[c].got = guest[c].got /\ Alive(c)' = Alive(c)
      BY <2>3, <2>4, <3>2, <3>3 DEF Alive
    <3> QED
      BY <2>1, <3>3, <3>4, <3>11, <3>12 DEF InOrder
  <2>5. CASE c # d
    BY <1>c, <2>1, <2>2, <2>5
  <2> QED
    BY <2>4, <2>5
<1>6. ASSUME NEW d \in Conns, NEW flags \in {{"send"}, Both}, GuestShutdown(d, flags) PROVE InOrder(c)'
  <2> DEFINE p == Packet(d, "SHUTDOWN", <<>>, 0, flags)
             r == [guest[d] EXCEPT !.st = IF flags = Both THEN "gone" ELSE "sendshut"]
  <2>1. /\ guest' = [guest EXCEPT ![d] = r] /\ Transmit(p) /\ guest[d].st \in {"open", "sendshut"}
        /\ GuestUnchanged /\ UNCHANGED toGuest
    BY <1>6 DEF GuestShutdown
  <2>2. p \in Packets /\ p.conn = d /\ p.data = <<>>
    <3>1. flags \in SUBSET Both
      BY DEF Both
    <3> QED
      BY <3>1, BarePacket DEF Ops, Packet
  <2>3. r.tx = guest[d].tx /\ r.got = guest[d].got
    BY <1>a DEF GuestSockets
  <2> HIDE DEF p, r
  <2> QED
    BY <1>c, <2>1, <2>2, <2>3
<1>7. ASSUME NEW d \in Conns, GuestCreditRequest(d) PROVE InOrder(c)'
  <2> DEFINE p == Packet(d, "CREDIT_REQUEST", <<>>, 0, {})
             r == [guest[d] EXCEPT !.asked = TRUE]
  <2>1. /\ guest' = [guest EXCEPT ![d] = r] /\ Transmit(p)
        /\ GuestUnchanged /\ UNCHANGED toGuest
    BY <1>7 DEF GuestCreditRequest
  <2>2. p \in Packets /\ p.conn = d /\ p.data = <<>>
    BY BarePacket DEF Ops, Packet
  <2>3. r.tx = guest[d].tx /\ r.got = guest[d].got /\ r.st = guest[d].st
    BY <1>a DEF GuestSockets
  <2> HIDE DEF p, r
  <2> QED
    BY <1>c, <2>1, <2>2, <2>3
<1> QED
  BY <1>1, <1>2, <1>3, <1>4, <1>5, <1>6, <1>7 DEF Guest

LEMMA OrderHost ==
  ASSUME DeviceTyped, NEW c \in Conns, InOrder(c), Host
  PROVE  InOrder(c)'
<1>a. /\ host \in [Conns -> HostStreams] /\ toHost \in [Conns -> HalfType] /\ toDev \in [Conns -> HalfType]
      /\ toGuest \in Seq(Packets) /\ toDevice \in Seq(Packets)
  BY DEF DeviceTyped, PipesTyped, RingsTyped
<1>b. UNCHANGED <<conns, toGuest, toDevice, guest>>
  BY HostFrame
<1>c. Alive(c)' = Alive(c) /\ (Joins(c)' => Joins(c))
  BY <1>b DEF Alive, Joins, OfOp, Of
<1>d. ASSUME host'[c].got = host[c].got, host'[c].wrote = host[c].wrote,
             toHost'[c].buf = toHost[c].buf, toDev'[c].buf = toDev[c].buf,
             ~toHost'[c].reader_closed => ~toHost[c].reader_closed
      PROVE  InOrder(c)'
  BY <1>b, <1>c, <1>d DEF InOrder
<1>1. CASE Accept \/ AcceptTimesOut
  <2>1. /\ UNCHANGED <<toHost, toDev>>
        /\ host' = host \/ \E d, s : host' = [host EXCEPT ![d].st = s]
    BY <1>1 DEF Accept, AcceptTimesOut, pipes
  <2>2. host'[c].got = host[c].got /\ host'[c].wrote = host[c].wrote
    <3>1. ASSUME NEW d, NEW s, host' = [host EXCEPT ![d].st = s]
          PROVE  host'[c].got = host[c].got /\ host'[c].wrote = host[c].wrote
      BY <3>1, <1>a DEF HostStreams
    <3> QED
      BY <2>1, <3>1
  <2> QED
    BY <2>1, <2>2, <1>d
<1>2. ASSUME NEW d \in Conns, NEW n, HostRead(d, n) PROVE InOrder(c)'
  <2> DEFINE front == FrontOf(toHost[d], n)
             rest == Drain(toHost[d], n)
  <2>1. /\ toHost' = [toHost EXCEPT ![d] = rest]
        /\ host' = [host EXCEPT ![d].got = @ \o front]
        /\ front \in Seq(Nat) /\ rest.buf \in Seq(Nat) /\ toHost[d].buf = front \o rest.buf
        /\ rest.reader_closed = toHost[d].reader_closed
    BY <1>2, Reads
  <2>2. toDev' = toDev
    BY <1>2 DEF HostRead
  <2> HIDE DEF front, rest
  <2>3. CASE c = d
    <3>1. /\ host'[c].got = host[c].got \o front /\ host'[c].wrote = host[c].wrote
          /\ toHost'[c].buf = rest.buf /\ toHost'[c].reader_closed = toHost[c].reader_closed
      BY <2>1, <2>3, <1>a DEF HostStreams
    <3>2. host[c].got \o front \o rest.buf = host[c].got \o toHost[c].buf
      <4> DEFINE a == host[c].got
                 e == rest.buf
      <4>1. a \in Seq(Nat) /\ e \in Seq(Nat) /\ toHost[c].buf = front \o e
        BY <2>1, <2>3, ConnFacts
      <4> HIDE DEF a, e
      <4>2. (a \o front) \o e = a \o (front \o e)
        BY <2>1, <4>1, BytesConcat
      <4>3. (a \o front) \o e = a \o toHost[c].buf
        BY <4>1, <4>2
      <4> QED
        BY <4>3 DEF a, e
    <3> QED
      BY <1>b, <1>c, <2>2, <3>1, <3>2 DEF InOrder
  <2>4. CASE c # d
    <3>1. host'[c] = host[c] /\ toHost'[c] = toHost[c]
      BY <2>1, <2>4, <1>a
    <3> QED
      BY <1>d, <2>2, <3>1
  <2> QED
    BY <2>3, <2>4
<1>3. ASSUME NEW d \in Conns, HostReadEof(d) PROVE InOrder(c)'
  <2>1. UNCHANGED <<toHost, toDev>> /\ host' = [host EXCEPT ![d].eof = TRUE]
    BY <1>3 DEF HostReadEof, pipes
  <2>2. host'[c].got = host[c].got /\ host'[c].wrote = host[c].wrote
    BY <2>1, <1>a DEF HostStreams
  <2> QED
    BY <2>1, <2>2, <1>d
<1>4. ASSUME NEW d \in Conns, NEW k \in 1..MaxBytes, HostWrite(d, k) PROVE InOrder(c)'
  <2>1. PICK n \in Nat :
           /\ toDev' = [toDev EXCEPT ![d] = Extend(toDev[d], Fresh(host[d].wrote, n))]
           /\ host' = [host EXCEPT ![d].wrote = @ + n]
           /\ Extend(toDev[d], Fresh(host[d].wrote, n)) \in HalfType
           /\ Extend(toDev[d], Fresh(host[d].wrote, n)).buf = toDev[d].buf \o Fresh(host[d].wrote, n)
           /\ Len(Extend(toDev[d], Fresh(host[d].wrote, n)).buf) <= Capacity
    BY <1>4, Writes
  <2>2. toHost' = toHost
    BY <1>4 DEF HostWrite
  <2>3. CASE c = d
    <3> DEFINE data == Fresh(host[c].wrote, n)
    <3>1. /\ host'[c].got = host[c].got /\ host'[c].wrote = host[c].wrote + n
          /\ toDev'[c].buf = toDev[c].buf \o data
      <4>1. host'[c].got = host[c].got /\ host'[c].wrote = host[c].wrote + n
        BY <2>1, <2>3, <1>a DEF HostStreams
      <4>2. toDev'[c].buf = toDev[c].buf \o data
        BY <2>1, <2>3, <1>a
      <4> QED
        BY <4>1, <4>2
    <3>2. host[c].wrote \in Nat /\ guest[c].got \in Seq(Nat) /\ toDev[c].buf \in Seq(Nat)
          /\ Carried(toGuest, c) \in Seq(Nat)
      BY <1>a, ConnFacts, CarriedType
    <3>3. data \in Seq(Nat) /\ Fresh(0, host[c].wrote) \o data = Fresh(0, host[c].wrote + n)
      BY <3>2, FreshBytes
    <3> HIDE DEF data
    <3> DEFINE a == guest[c].got \o Carried(toGuest, c)
               b == toDev[c].buf
    <3>4. a \in Seq(Nat) /\ b \in Seq(Nat)
      BY <3>2, BytesConcat
    <3>5. Alive(c) /\ Joins(c) => a \o b = Fresh(0, host[c].wrote)
      BY DEF InOrder
    <3> HIDE DEF a, b
    <3>6. a \o (b \o data) = (a \o b) \o data
      BY <3>3, <3>4, BytesConcat
    <3>7. Alive(c) /\ Joins(c) => a \o (b \o data) = Fresh(0, host[c].wrote + n)
      BY <3>3, <3>5, <3>6
    <3>8. Alive(c)' /\ Joins(c)' => guest'[c].got \o Carried(toGuest', c) \o toDev'[c].buf = Fresh(0, host'[c].wrote)
      BY <1>b, <1>c, <3>1, <3>7 DEF a, b
    <3> QED
      BY <1>b, <1>c, <2>2, <3>1, <3>8 DEF InOrder
  <2>4. CASE c # d
    <3>1. host'[c] = host[c] /\ toDev'[c] = toDev[c]
      BY <2>1, <2>4, <1>a
    <3> QED
      BY <1>d, <2>2, <3>1
  <2> QED
    BY <2>3, <2>4
<1>5. ASSUME NEW d \in Conns, HostShutdown(d) PROVE InOrder(c)'
  <2>1. /\ host' = [host EXCEPT ![d].st = "shut"] /\ toHost' = toHost
        /\ toDev' = [toDev EXCEPT ![d].writer_closed = TRUE]
    BY <1>5 DEF HostShutdown
  <2>2. host'[c].got = host[c].got /\ host'[c].wrote = host[c].wrote
    BY <2>1, <1>a DEF HostStreams
  <2>3. toDev'[c].buf = toDev[c].buf
    BY <2>1, <1>a DEF HalfType
  <2> QED
    BY <2>1, <2>2, <2>3, <1>d
<1>6. ASSUME NEW d \in Conns, HostDrop(d) PROVE InOrder(c)'
  <2>1. /\ host' = [host EXCEPT ![d].st = "dropped"]
        /\ toHost' = [toHost EXCEPT ![d].reader_closed = TRUE]
        /\ toDev' = [toDev EXCEPT ![d].writer_closed = TRUE]
    BY <1>6 DEF HostDrop
  <2>2. host'[c].got = host[c].got /\ host'[c].wrote = host[c].wrote
    BY <2>1, <1>a DEF HostStreams
  <2>3. toDev'[c].buf = toDev[c].buf
    BY <2>1, <1>a DEF HalfType
  <2>4. toHost'[c].buf = toHost[c].buf /\ (~toHost'[c].reader_closed => ~toHost[c].reader_closed)
    BY <2>1, <1>a DEF HalfType
  <2> QED
    BY <2>2, <2>3, <2>4, <1>d
<1> QED
  BY <1>1, <1>2, <1>3, <1>4, <1>5, <1>6 DEF Host, HostReads

LEMMA OrderNext ==
  ASSUME DeviceTyped, OnlyRwCarries, ResponseIsFirst, OpensOnce, [Next]_allVars,
         \A c \in Conns : InOrder(c)
  PROVE  \A c \in Conns : InOrder(c)'
<1> SUFFICES ASSUME NEW c \in Conns PROVE InOrder(c)'
  OBVIOUS
<1>a. OpensOf(c)
  BY DEF OpensOnce, OpensOf
<1>1. CASE Worker
  BY <1>1, <1>a, OrderTx, OrderWorker DEF Worker
<1>2. CASE Guest
  BY <1>2, <1>a, OrderGuest
<1>3. CASE Host
  BY <1>3, OrderHost
<1>4. CASE UNCHANGED allVars
  <2>1. UNCHANGED <<conns, toHost, toDev, toGuest, toDevice, guest, host>>
    BY <1>4 DEF allVars, vars, pipes, rings
  <2>2. Joins(c)' => Joins(c)
    BY <2>1 DEF Joins, OfOp, Of
  <2> QED
    BY <2>1, <2>2 DEF InOrder, Alive
<1> QED
  BY <1>1, <1>2, <1>3, <1>4 DEF Next, Step

LEMMA OrderInit == Init => \A c \in Conns : InOrder(c)
<1> SUFFICES ASSUME Init, NEW c \in Conns PROVE ~Alive(c)
  BY DEF InOrder
<1> QED
  BY DEF Init, Alive, Gone


LEMMA OrderInvariant == SafeSpec => [](OnlyRwCarries /\ ResponseIsFirst /\ Ordered)
<1>1. Init => OnlyRwCarries /\ ResponseIsFirst /\ Ordered
  BY RingsInit, OrderInit DEF Ordered
<1>2. DeviceTyped /\ OpensOnce /\ (OnlyRwCarries /\ ResponseIsFirst /\ Ordered) /\ [Next]_allVars
        => (OnlyRwCarries /\ ResponseIsFirst /\ Ordered)'
  <2> SUFFICES ASSUME DeviceTyped, OpensOnce, OnlyRwCarries, ResponseIsFirst, Ordered, [Next]_allVars
               PROVE  OnlyRwCarries' /\ ResponseIsFirst' /\ Ordered'
    OBVIOUS
  <2>1. OnlyRwCarries' /\ ResponseIsFirst'
    BY OnlyRwNext, ResponseNext
  <2>2. Ordered'
    BY OrderNext DEF Ordered
  <2> QED
    BY <2>1, <2>2
<1> QED
  BY <1>1, <1>2, DeviceTypes, PortInvariant, PTL DEF SafeSpec

\* VsockDevice!EndToEndOrder, for every set of connections and all sizes: on a
\* connection in use, what an application has received, then what each stage of
\* the device holds, oldest first, is exactly what the other end has sent.
THEOREM EndToEndOrderCorrect == SafeSpec => []EndToEndOrder
<1>1. Ordered => EndToEndOrder
  BY DEF Ordered, InOrder, EndToEndOrder, Joins
<1> QED
  BY <1>1, OrderInvariant, PTL

-----------------------------------------------------------------------------
(* Credit, in the arithmetic of counters that wrap.                        *)

LEMMA Division ==
  ASSUME NEW m \in Nat \ {0}, NEW a \in Int
  PROVE  a % m \in 0..(m - 1) /\ a \div m \in Int /\ a = m * (a \div m) + (a % m)
  OBVIOUS

LEMMA Remainder ==
  ASSUME NEW m \in Nat \ {0}, NEW q \in Int, NEW r \in 0..(m - 1)
  PROVE  (m * q + r) % m = r
  OBVIOUS

\* What is owed is below the modulus; sending k bytes adds k to it, as long as
\* it stays there, and forwarding t bytes of it takes t from it.
LEMMA OwedType ==
  ASSUME NEW tx \in Nat, NEW f \in 0..(CntMod - 1)
  PROVE  Owed(tx, f) \in Nat /\ Owed(tx, f) < CntMod
<1>1. CntMod \in Nat \ {0} /\ tx + CntMod - f \in Int
  BY Constants
<1>2. (tx + CntMod - f) % CntMod \in 0..(CntMod - 1)
  BY <1>1, Division
<1> QED
  BY <1>1, <1>2 DEF Owed

LEMMA OwedSent ==
  ASSUME NEW tx \in Nat, NEW f \in 0..(CntMod - 1), NEW k \in Nat, Owed(tx, f) + k < CntMod
  PROVE  Owed(tx + k, f) = Owed(tx, f) + k
<1> DEFINE m == CntMod
           a == tx + m - f
           q == a \div m
           r == a % m
<1>1. m \in Nat \ {0} /\ a \in Int /\ Owed(tx, f) = r
  BY Constants DEF Owed
<1>2. r \in 0..(m - 1) /\ q \in Int /\ a = m * q + r
  BY <1>1, Division
<1>3. (tx + k) + m - f = a + k
  BY <1>1
<1> HIDE DEF m, a, q, r
<1>4. r + k \in 0..(m - 1) /\ a + k = m * q + (r + k)
  BY <1>1, <1>2 DEF m
<1>5. (m * q + (r + k)) % m = r + k
  BY <1>1, <1>2, <1>4, Remainder
<1>6. (a + k) % m = r + k
  BY <1>4, <1>5
<1> QED
  BY <1>1, <1>3, <1>6 DEF Owed, m

LEMMA OwedFlushed ==
  ASSUME NEW tx \in Nat, NEW f \in 0..(CntMod - 1), NEW t \in Nat, t <= Owed(tx, f)
  PROVE  Owed(tx, (f + t) % CntMod) = Owed(tx, f) - t
<1> DEFINE m == CntMod
           a == tx + m - f
           q == a \div m
           r == a % m
           p == (f + t) \div m
           g == (f + t) % m
<1>1. m \in Nat \ {0} /\ a \in Int /\ f + t \in Int /\ Owed(tx, f) = r /\ Owed(tx, g) = (tx + m - g) % m
  BY Constants DEF Owed
<1>2. r \in 0..(m - 1) /\ q \in Int /\ a = m * q + r
  BY <1>1, Division
<1>3. g \in 0..(m - 1) /\ p \in Int /\ f + t = m * p + g
  BY <1>1, Division
<1>4. tx + m - f = a
  OBVIOUS
<1> HIDE DEF m, a, q, r, p, g
<1>5. m * q \in Int /\ m * p \in Int /\ m * (q + p) = m * q + m * p /\ q + p \in Int
  BY <1>1, <1>2, <1>3
<1>6. r - t \in 0..(m - 1)
  BY <1>1, <1>2
<1>7. tx + m - g = m * (q + p) + (r - t)
  <2> DEFINE x == m * q
             y == m * p
             z == m * (q + p)
  <2>1. x \in Int /\ y \in Int /\ z = x + y /\ a = x + r /\ f + t = y + g
    BY <1>2, <1>3, <1>5
  <2> HIDE DEF x, y, z
  <2>2. m \in Int /\ a \in Int /\ g \in Int /\ r \in Int
    BY <1>1, <1>2, <1>3
  <2>3. tx + m - g = z + (r - t)
    BY <1>4, <2>1, <2>2
  <2> QED
    BY <2>3 DEF z
<1>8. (m * (q + p) + (r - t)) % m = r - t
  BY <1>1, <1>5, <1>6, Remainder
<1> QED
  BY <1>1, <1>7, <1>8 DEF g, m

\* The values of fwd_cnt that Covers compares.
Counters(known, ring, credits, next) ==
  /\ known \in 0..(CntMod - 1) /\ next \in 0..(CntMod - 1) /\ credits \subseteq Nat
  /\ \A i \in credits : ring[i].fwd \in 0..(CntMod - 1)

\* Packets of c that keep their order, and may move one place up.
Shifted(newRing, newCredits, ring, credits, k) ==
  \A i \in newCredits : i \in Nat \ {0} /\ i + k \in credits /\ newRing[i].fwd = ring[i + k].fwd

\* Less is held, or fewer values are on their way.
LEMMA CoversLess ==
  ASSUME NEW tx \in Nat, NEW held \in Nat, NEW less \in Nat, less <= held,
         NEW known, NEW ring, NEW credits, NEW sends, NEW next, Counters(known, ring, credits, next),
         Covers(held, tx, known, ring, credits, sends, next),
         NEW newRing, NEW newCredits, NEW k \in {0, 1}, Shifted(newRing, newCredits, ring, credits, k),
         NEW newSends, newSends => sends
  PROVE  Covers(less, tx, known, newRing, newCredits, newSends, next)
<1>1. Owed(tx, known) \in Nat /\ Owed(tx, next) \in Nat
  BY OwedType DEF Counters
<1>2. \A i \in credits : Owed(tx, ring[i].fwd) \in Nat /\ i \in Nat
  BY OwedType DEF Counters
<1>3. less <= Owed(tx, known) /\ Owed(tx, known) <= BufAlloc
  BY <1>1, Constants DEF Covers
<1>4. ASSUME NEW i \in newCredits
      PROVE  less <= Owed(tx, newRing[i].fwd) /\ Owed(tx, newRing[i].fwd) <= Owed(tx, known)
  <2> DEFINE x == Owed(tx, ring[i + k].fwd)
  <2>1. newRing[i].fwd = ring[i + k].fwd /\ held <= x /\ x <= Owed(tx, known) /\ x \in Nat
    BY <1>2 DEF Shifted, Covers
  <2> HIDE DEF x
  <2>2. less <= x
    BY <2>1
  <2> QED
    BY <2>1, <2>2 DEF x
<1>5. ASSUME NEW i \in newCredits, NEW j \in newCredits, i < j
      PROVE  Owed(tx, newRing[j].fwd) <= Owed(tx, newRing[i].fwd)
  <2>1. /\ i + k \in credits /\ j + k \in credits /\ i \in Nat /\ j \in Nat
        /\ newRing[i].fwd = ring[i + k].fwd /\ newRing[j].fwd = ring[j + k].fwd
    BY DEF Shifted
  <2>2. i + k < j + k
    BY <1>5, <2>1
  <2> QED
    BY <2>1, <2>2 DEF Covers
<1>6. ASSUME newSends
      PROVE  /\ less <= Owed(tx, next) /\ Owed(tx, next) <= Owed(tx, known)
             /\ \A i \in newCredits : Owed(tx, next) <= Owed(tx, newRing[i].fwd)
  <2>1. /\ held <= Owed(tx, next) /\ Owed(tx, next) <= Owed(tx, known)
        /\ \A i \in credits : Owed(tx, next) <= Owed(tx, ring[i].fwd)
    BY <1>6 DEF Covers
  <2>2. less <= Owed(tx, next)
    BY <1>1, <2>1
  <2> QED
    BY <2>1, <2>2 DEF Shifted
<1> QED
  BY <1>3, <1>4, <1>5, <1>6 DEF Covers

\* The device's own value joins the ring.
LEMMA CoversMore ==
  ASSUME NEW tx \in Nat, NEW held \in Nat,
         NEW known, NEW ring, NEW credits, NEW next, Counters(known, ring, credits, next),
         Covers(held, tx, known, ring, credits, TRUE, next),
         NEW n \in Nat, \A i \in credits : i \in 1..n,
         NEW newRing, \A i \in credits : newRing[i] = ring[i], newRing[n + 1].fwd = next
  PROVE  Covers(held, tx, known, newRing, credits \cup {n + 1}, TRUE, next)
<1>1. Owed(tx, next) \in Nat
  BY OwedType DEF Counters
<1>2. /\ held <= Owed(tx, next) /\ Owed(tx, next) <= Owed(tx, known)
      /\ \A i \in credits : Owed(tx, next) <= Owed(tx, ring[i].fwd)
  BY DEF Covers
<1>3. \A i \in credits \cup {n + 1} :
         /\ held <= Owed(tx, newRing[i].fwd) /\ Owed(tx, newRing[i].fwd) <= Owed(tx, known)
         /\ Owed(tx, next) <= Owed(tx, newRing[i].fwd)
  BY <1>1, <1>2 DEF Covers
<1>4. ASSUME NEW i \in credits \cup {n + 1}, NEW j \in credits \cup {n + 1}, i < j
      PROVE  Owed(tx, newRing[j].fwd) <= Owed(tx, newRing[i].fwd)
  <2>1. CASE j = n + 1
    BY <1>3, <2>1
  <2>2. CASE j \in credits
    <3>1. j \in 1..n
      BY <2>2
    <3>2. i # n + 1
      BY <1>4, <3>1
    <3> QED
      BY <1>4, <2>2, <3>2 DEF Covers
  <2> QED
    BY <2>1, <2>2
<1> QED
  BY <1>2, <1>3, <1>4 DEF Covers

\* t bytes of what was held are forwarded.
LEMMA CoversForwarded ==
  ASSUME NEW tx \in Nat, NEW held \in Nat, NEW t \in Nat, t <= held,
         NEW known, NEW ring, NEW credits, NEW next, Counters(known, ring, credits, next),
         Covers(held, tx, known, ring, credits, TRUE, next)
  PROVE  Covers(held - t, tx, known, ring, credits, TRUE, (next + t) % CntMod)
<1>1. Owed(tx, known) \in Nat /\ Owed(tx, next) \in Nat
  BY OwedType DEF Counters
<1>2. \A i \in credits : Owed(tx, ring[i].fwd) \in Nat
  BY OwedType DEF Counters
<1> DEFINE a == Owed(tx, next)
           b == Owed(tx, known)
           v(i) == Owed(tx, ring[i].fwd)
           new == (next + t) % CntMod
<1>3. /\ held <= b /\ b <= BufAlloc /\ held <= a /\ a <= b
      /\ \A i \in credits : held <= v(i) /\ v(i) <= b /\ a <= v(i)
      /\ \A i, j \in credits : i < j => v(j) <= v(i)
  BY DEF Covers
<1>4. t <= a
  <2> HIDE DEF a, b, v
  <2> QED
    BY <1>1, <1>3 DEF a
<1>5. Owed(tx, new) = a - t
  <2>1. next \in 0..(CntMod - 1)
    BY DEF Counters
  <2> QED
    BY <1>4, <2>1, OwedFlushed
<1>6. /\ held - t <= b /\ held - t <= a - t /\ a - t <= b
      /\ \A i \in credits : held - t <= v(i) /\ a - t <= v(i)
  <2>1. a \in Nat /\ b \in Nat /\ \A i \in credits : v(i) \in Nat
    BY <1>1, <1>2
  <2> HIDE DEF a, b, v
  <2> QED
    BY <1>3, <2>1
<1> HIDE DEF new
<1> QED
  BY <1>3, <1>5, <1>6 DEF Covers, new

\* The guest sends k bytes within its credit.
LEMMA CoversSent ==
  ASSUME NEW tx \in Nat, NEW held \in Nat, NEW k \in Nat,
         NEW known, NEW ring, NEW credits, NEW sends \in BOOLEAN, NEW next, Counters(known, ring, credits, next),
         Covers(held, tx, known, ring, credits, sends, next), Owed(tx, known) + k <= BufAlloc
  PROVE  Covers(held + k, tx + k, known, ring, credits, sends, next)
<1>1. Owed(tx, known) \in Nat /\ Owed(tx, next) \in Nat
  BY OwedType DEF Counters
<1>2. \A i \in credits : Owed(tx, ring[i].fwd) \in Nat
  BY OwedType DEF Counters
<1> DEFINE a == Owed(tx, next)
           b == Owed(tx, known)
           v(i) == Owed(tx, ring[i].fwd)
<1>3. /\ held <= b /\ b <= BufAlloc
      /\ \A i \in credits : held <= v(i) /\ v(i) <= b
      /\ \A i, j \in credits : i < j => v(j) <= v(i)
      /\ sends => held <= a /\ a <= b /\ \A i \in credits : a <= v(i)
  BY DEF Covers
<1>4. a \in Nat /\ b \in Nat /\ b + k <= BufAlloc /\ BufAlloc < CntMod /\ CntMod \in Nat /\ BufAlloc \in Nat
  BY <1>1, Constants
<1>5. b + k < CntMod /\ (sends => a + k < CntMod)
  <2> HIDE DEF a, b, v
  <2> QED
    BY <1>3, <1>4
<1>6. Owed(tx + k, known) = b + k
  BY <1>5, OwedSent DEF Counters
<1>7. sends => Owed(tx + k, next) = a + k
  BY <1>5, OwedSent DEF Counters
<1>8. ASSUME NEW i \in credits PROVE Owed(tx + k, ring[i].fwd) = v(i) + k
  <2> DEFINE x == v(i)
  <2>1. x \in Nat /\ x <= b
    BY <1>2, <1>3
  <2>2. x + k < CntMod
    <3> HIDE DEF b, x
    <3> QED
      BY <1>4, <2>1
  <2>3. ring[i].fwd \in 0..(CntMod - 1)
    BY DEF Counters
  <2> QED
    BY <2>2, <2>3, OwedSent
<1>9. \A i \in credits : v(i) \in Nat
  BY <1>2
<1>10. /\ held + k <= b + k /\ b + k <= BufAlloc
       /\ \A i \in credits : held + k <= v(i) + k /\ v(i) + k <= b + k
       /\ \A i, j \in credits : i < j => v(j) + k <= v(i) + k
       /\ sends => held + k <= a + k /\ a + k <= b + k /\ \A i \in credits : a + k <= v(i) + k
  <2> HIDE DEF a, b, v
  <2> QED
    BY <1>3, <1>4, <1>9
<1> QED
  BY <1>6, <1>7, <1>8, <1>10 DEF Covers

\* The guest learns the oldest value of the ring.
LEMMA CoversLearned ==
  ASSUME NEW tx \in Nat, NEW held \in Nat,
         NEW known, NEW ring, NEW credits, NEW sends, NEW next, Counters(known, ring, credits, next),
         Covers(held, tx, known, ring, credits, sends, next), 1 \in credits,
         NEW newRing, NEW newCredits, Shifted(newRing, newCredits, ring, credits, 1)
  PROVE  Covers(held, tx, ring[1].fwd, newRing, newCredits, sends, next)
<1>1. Owed(tx, known) \in Nat /\ Owed(tx, ring[1].fwd) \in Nat
  BY OwedType DEF Counters
<1>2. held <= Owed(tx, ring[1].fwd) /\ Owed(tx, ring[1].fwd) <= BufAlloc
  <2>1. held <= Owed(tx, ring[1].fwd) /\ Owed(tx, ring[1].fwd) <= Owed(tx, known) /\ Owed(tx, known) <= BufAlloc
    BY DEF Covers
  <2> QED
    BY <1>1, <2>1, Constants
<1>3. ASSUME NEW i \in newCredits
      PROVE  /\ i \in Nat \ {0} /\ i + 1 \in credits /\ newRing[i].fwd = ring[i + 1].fwd
             /\ 1 < i + 1
  <2>1. i \in Nat \ {0} /\ i + 1 \in credits /\ newRing[i].fwd = ring[i + 1].fwd
    BY DEF Shifted
  <2> QED
    BY <2>1
<1>4. \A i \in newCredits :
        held <= Owed(tx, newRing[i].fwd) /\ Owed(tx, newRing[i].fwd) <= Owed(tx, ring[1].fwd)
  BY <1>3 DEF Covers
<1>5. ASSUME NEW i \in newCredits, NEW j \in newCredits, i < j
      PROVE  Owed(tx, newRing[j].fwd) <= Owed(tx, newRing[i].fwd)
  <2>1. i + 1 < j + 1
    BY <1>3, <1>5
  <2> QED
    BY <1>3, <2>1 DEF Covers
<1>6. sends => /\ held <= Owed(tx, next) /\ Owed(tx, next) <= Owed(tx, ring[1].fwd)
               /\ \A i \in newCredits : Owed(tx, next) <= Owed(tx, newRing[i].fwd)
  BY <1>3 DEF Covers
<1> QED
  BY <1>2, <1>4, <1>5, <1>6 DEF Covers
-----------------------------------------------------------------------------
(* What the device holds stays covered, step by step.                      *)

InUse == {"connecting", "open", "sendshut"}

\* What is held is a number of bytes, before and after a step.
LEMMA HeldType ==
  ASSUME DeviceTyped, NEW c \in Conns
  PROVE  /\ Len(conns[c].pending) \in Nat /\ Len(Carried(toDevice, c)) \in Nat /\ total \in Nat
         /\ Held(c) \in Nat /\ Len(conns[c].pending) + Len(Carried(toDevice, c)) <= Held(c)
<1>1. Len(conns[c].pending) \in Nat /\ total \in Nat
  BY ConnFacts DEF DeviceTyped, WorkerTyped
<1>2. Len(Carried(toDevice, c)) \in Nat
  BY CarriedType, BytesConcat DEF DeviceTyped, RingsTyped
<1> DEFINE p == Len(conns[c].pending)
           q == Len(Carried(toDevice, c))
<1>3. Held(c) = p + q + (IF at = At("tx", c) THEN total ELSE 0)
  BY DEF Held
<1>4. p \in Nat /\ q \in Nat
  BY <1>1, <1>2
<1> HIDE DEF p, q
<1>5. Held(c) \in Nat /\ p + q <= Held(c)
  BY <1>1, <1>3, <1>4
<1> QED
  BY <1>1, <1>2, <1>5 DEF p, q

LEMMA HeldNextType ==
  ASSUME DeviceTyped', NEW c \in Conns
  PROVE  /\ Len(conns'[c].pending) \in Nat /\ Len(Carried(toDevice', c)) \in Nat /\ total' \in Nat
         /\ Held(c)' \in Nat
<1>1. conns'[c].pending \in Seq(Nat) /\ total' \in Nat /\ toDevice' \in Seq(Packets)
  BY DEF DeviceTyped, ConnsTyped, ConnRecords, WorkerTyped, RingsTyped
<1>2. Carried(toDevice', c) \in Seq(Nat)
  BY <1>1, CarriedType
<1>3. Len(conns'[c].pending) \in Nat /\ Len(Carried(toDevice', c)) \in Nat
  BY <1>1, <1>2, BytesConcat
<1> QED
  BY <1>1, <1>3 DEF Held

\* A step that adds nothing to pending, nor to the ring.
LEMMA HeldLess ==
  ASSUME DeviceTyped, DeviceTyped', NEW c \in Conns,
         Len(conns'[c].pending) <= Len(conns[c].pending),
         Len(Carried(toDevice', c)) <= Len(Carried(toDevice, c)),
         at' # At("tx", c) \/ (at' = at /\ total' = total)
  PROVE  Held(c)' <= Held(c)
<1> DEFINE p == Len(conns[c].pending)
           q == Len(Carried(toDevice, c))
           r == Len(conns'[c].pending)
           s == Len(Carried(toDevice', c))
           h == Held(c)
<1>1. p \in Nat /\ q \in Nat /\ r \in Nat /\ s \in Nat /\ total \in Nat /\ h \in Nat /\ p + q <= h
  BY HeldType, HeldNextType
<1>2. r <= p /\ s <= q
  OBVIOUS
<1>3. at' # At("tx", c) => Held(c)' = r + s + 0
  BY DEF Held
<1>4. at' = at /\ total' = total => Held(c)' = r + s + (IF at = At("tx", c) THEN total ELSE 0)
  BY DEF Held
<1>5. h = p + q + (IF at = At("tx", c) THEN total ELSE 0)
  BY DEF Held
<1> DEFINE g == Held(c)'
<1> HIDE DEF p, q, r, s, h, g
<1>6. ASSUME g = r + s + 0 PROVE g <= h
  BY <1>1, <1>2, <1>6
<1>7. ASSUME g = r + s + (IF at = At("tx", c) THEN total ELSE 0) PROVE g <= h
  BY <1>1, <1>2, <1>5, <1>7
<1>8. g = r + s + 0 \/ g = r + s + (IF at = At("tx", c) THEN total ELSE 0)
  BY <1>3, <1>4 DEF g
<1>9. g <= h
  BY <1>6, <1>7, <1>8
<1> QED
  BY <1>9 DEF g, h

\* The counters of a connection, and of the packets on their way to its guest.
LEMMA CountersType ==
  ASSUME DeviceTyped, NEW c \in Conns
  PROVE  /\ Counters(guest[c].fwd, toGuest, Credits(toGuest, c), conns[c].fwd)
         /\ \A i \in Credits(toGuest, c) : i \in 1..Len(toGuest) /\ i \in Nat \ {0}
         /\ guest[c].tx \in Nat
<1>1. guest[c].fwd \in 0..(CntMod - 1) /\ conns[c].fwd \in 0..(CntMod - 1) /\ guest[c].tx \in Nat
  BY ConnFacts
<1>2. Len(toGuest) \in Nat /\ \A i \in 1..Len(toGuest) : toGuest[i] \in Packets
  BY LenProperties, ElementOfSeq DEF DeviceTyped, RingsTyped
<1>3. \A i \in Credits(toGuest, c) : i \in 1..Len(toGuest)
  BY DEF Credits, Of
<1>4. \A i \in Credits(toGuest, c) : i \in Nat \ {0} /\ toGuest[i].fwd \in 0..(CntMod - 1)
  BY <1>2, <1>3 DEF Packets
<1> QED
  BY <1>1, <1>3, <1>4 DEF Counters

\* What a step does to the packets on their way.
LEMMA SameCredits ==
  ASSUME DeviceTyped, NEW c \in Conns, toGuest' = toGuest
  PROVE  Shifted(toGuest', Credits(toGuest', c), toGuest, Credits(toGuest, c), 0)
<1>1. \A i \in Credits(toGuest, c) : i \in Nat \ {0} /\ i + 0 = i
  BY CountersType
<1> QED
  BY <1>1 DEF Shifted

LEMMA RespondCredits ==
  ASSUME DeviceTyped, NEW c \in Conns, NEW p \in Packets, Respond(p) \/ UNCHANGED <<rxFree, toGuest>>
  PROVE  /\ p.conn # c \/ p.op = "SHUTDOWN" =>
              Shifted(toGuest', Credits(toGuest', c), toGuest, Credits(toGuest, c), 0)
         /\ p.conn = c /\ p.op # "SHUTDOWN" /\ toGuest' # toGuest =>
              /\ Credits(toGuest', c) = Credits(toGuest, c) \cup {Len(toGuest) + 1}
              /\ toGuest'[Len(toGuest) + 1] = p /\ Len(toGuest) \in Nat
              /\ \A i \in Credits(toGuest, c) : toGuest'[i] = toGuest[i]
<1>1. CASE toGuest' = toGuest
  BY <1>1, SameCredits
<1>2. CASE toGuest' = Append(toGuest, p)
  <2>1. toGuest \in Seq(Packets)
    BY DEF DeviceTyped, RingsTyped
  <2>2. /\ Len(toGuest) \in Nat
        /\ \A i \in 1..(Len(toGuest) + 1) : toGuest'[i] = IF i = Len(toGuest) + 1 THEN p ELSE toGuest[i]
    BY <1>2, <2>1, RingAppend
  <2>3. /\ Of(toGuest', c) = Of(toGuest, c) \cup (IF p.conn = c THEN {Len(toGuest) + 1} ELSE {})
        /\ OfOp(toGuest', c, "SHUTDOWN") = OfOp(toGuest, c, "SHUTDOWN")
             \cup (IF p.conn = c /\ p.op = "SHUTDOWN" THEN {Len(toGuest) + 1} ELSE {})
    BY <1>2, <2>1, OfAppend
  <2>4. \A i \in Of(toGuest, c) : i \in 1..Len(toGuest)
    BY DEF Of
  <2>5. Len(toGuest) + 1 \notin OfOp(toGuest, c, "SHUTDOWN") /\ Len(toGuest) + 1 \in 1..(Len(toGuest) + 1)
    BY <2>2, <2>4 DEF OfOp
  <2>6. \A i \in Credits(toGuest, c) : i \in 1..Len(toGuest)
    BY <2>4 DEF Credits
  <2>7. \A i \in Credits(toGuest, c) : toGuest'[i] = toGuest[i] /\ i \in Nat \ {0} /\ i + 0 = i
    BY <2>2, <2>6
  <2>8. p.conn # c \/ p.op = "SHUTDOWN" => Credits(toGuest', c) \subseteq Credits(toGuest, c)
    BY <2>3 DEF Credits
  <2>9. p.conn = c /\ p.op # "SHUTDOWN" => Credits(toGuest', c) = Credits(toGuest, c) \cup {Len(toGuest) + 1}
    BY <2>3, <2>5 DEF Credits
  <2>10. toGuest'[Len(toGuest) + 1] = p
    BY <2>2, <2>5
  <2>11. p.conn # c \/ p.op = "SHUTDOWN" =>
           Shifted(toGuest', Credits(toGuest', c), toGuest, Credits(toGuest, c), 0)
    BY <2>7, <2>8 DEF Shifted
  <2> QED
    BY <2>2, <2>7, <2>9, <2>10, <2>11
<1> QED
  BY <1>1, <1>2 DEF Respond

LEMMA TakenCredits ==
  ASSUME DeviceTyped, NEW c \in Conns, toGuest # <<>>, toGuest' = Tail(toGuest)
  PROVE  Shifted(toGuest', Credits(toGuest', c), toGuest, Credits(toGuest, c), 1)
<1>1. toGuest \in Seq(Packets)
  BY DEF DeviceTyped, RingsTyped
<1>2. \A i \in Of(toGuest', c) : i \in Nat \ {0} /\ i + 1 \in Of(toGuest, c) /\ toGuest'[i] = toGuest[i + 1]
  BY <1>1, OfTail
<1>3. ASSUME NEW i \in Of(toGuest', c), i + 1 \in OfOp(toGuest, c, "SHUTDOWN")
      PROVE  i \in OfOp(toGuest', c, "SHUTDOWN")
  BY <1>2, <1>3 DEF OfOp
<1>4. \A i \in Credits(toGuest', c) :
         i \in Nat \ {0} /\ i + 1 \in Credits(toGuest, c) /\ toGuest'[i] = toGuest[i + 1]
  BY <1>2, <1>3 DEF Credits
<1> QED
  BY <1>4 DEF Shifted
\* A connection whose socket is not in use, and one the step leaves alone.
LEMMA CreditIdle ==
  ASSUME DeviceTyped, DeviceTyped', NEW c \in Conns, Covered(c), guest'[c].st \notin InUse, Held(c)' <= Held(c)
  PROVE  Covered(c)'
<1>1. Held(c) \in Nat /\ Held(c)' \in Nat /\ Held(c) <= BufAlloc /\ BufAlloc \in Nat
  BY HeldType, HeldNextType, Constants DEF Covered
<1>2. Held(c)' <= BufAlloc
  <2> DEFINE g == Held(c)'
             h == Held(c)
  <2>1. g \in Nat /\ h \in Nat /\ g <= h /\ h <= BufAlloc
    BY <1>1
  <2> HIDE DEF g, h
  <2>2. g <= BufAlloc
    BY <1>1, <2>1
  <2> QED
    BY <2>2 DEF g
<1> QED
  BY <1>2 DEF Covered, InUse

LEMMA CoversSilent ==
  ASSUME NEW held, NEW tx, NEW known, NEW ring, NEW credits, NEW next, NEW other,
         Covers(held, tx, known, ring, credits, FALSE, next)
  PROVE  Covers(held, tx, known, ring, credits, FALSE, other)
  BY DEF Covers

LEMMA CreditKept ==
  ASSUME DeviceTyped, DeviceTyped', NEW c \in Conns, Covered(c),
         guest'[c].tx = guest[c].tx, guest'[c].fwd = guest[c].fwd,
         guest'[c].st \in InUse => guest[c].st \in InUse,
         Held(c)' <= Held(c),
         NEW k \in {0, 1}, Shifted(toGuest', Credits(toGuest', c), toGuest, Credits(toGuest, c), k),
         conns'[c].state # "none" => conns[c].state # "none" /\ conns'[c].fwd = conns[c].fwd
  PROVE  Covered(c)'
<1>1. CASE guest'[c].st \notin InUse
  BY <1>1, CreditIdle
<1>2. CASE guest'[c].st \in InUse
  <2> DEFINE g == Held(c)'
             h == Held(c)
             old == Credits(toGuest, c)
             new == Credits(toGuest', c)
             sends == conns[c].state # "none"
             sending == conns'[c].state # "none"
  <2>1. Covers(h, guest[c].tx, guest[c].fwd, toGuest, old, sends, conns[c].fwd) /\ h <= BufAlloc
    BY <1>2 DEF Covered, InUse
  <2>2. /\ g \in Nat /\ h \in Nat /\ g <= h /\ guest[c].tx \in Nat
        /\ Counters(guest[c].fwd, toGuest, old, conns[c].fwd)
        /\ Shifted(toGuest', new, toGuest, old, k)
    BY HeldType, HeldNextType, CountersType
  <2>3. (sending => sends) /\ (sending => conns'[c].fwd = conns[c].fwd)
    OBVIOUS
  <2> HIDE DEF g, h, old, new, sends, sending
  <2>4. Covers(g, guest[c].tx, guest[c].fwd, toGuest', new, sending, conns[c].fwd)
    BY <2>1, <2>2, <2>3, CoversLess
  <2>5. Covers(g, guest[c].tx, guest[c].fwd, toGuest', new, sending, conns'[c].fwd)
    <3>1. CASE sending
      BY <2>3, <2>4, <3>1
    <3>2. CASE ~sending
      BY <2>4, <3>2 DEF Covers
    <3> QED
      BY <3>1, <3>2
  <2>6. g <= BufAlloc
    BY <2>1, <2>2, Constants
  <2>7. Held(c)' <= BufAlloc
    BY <2>6 DEF g
  <2>8. Covers(Held(c)', guest'[c].tx, guest'[c].fwd, toGuest', Credits(toGuest', c), conns'[c].state # "none", conns'[c].fwd)
    BY <2>5 DEF g, new, sending
  <2> QED
    BY <2>7, <2>8 DEF Covered
<1> QED
  BY <1>1, <1>2

\* The device sends, or drops, a packet with the connection's fwd_cnt.
LEMMA CreditSent ==
  ASSUME DeviceTyped, DeviceTyped', NEW c \in Conns, NEW p \in Packets, p.conn = c, p.op # "SHUTDOWN",
         Respond(p) \/ UNCHANGED <<rxFree, toGuest>>, guest' = guest,
         conns'[c].state # "none", p.fwd = conns'[c].fwd, Held(c)' <= BufAlloc,
         guest[c].st \in InUse =>
           Covers(Held(c)', guest[c].tx, guest[c].fwd, toGuest, Credits(toGuest, c), TRUE, conns'[c].fwd)
  PROVE  Covered(c)'
<1> SUFFICES ASSUME guest[c].st \in InUse
             PROVE  Covers(Held(c)', guest[c].tx, guest[c].fwd, toGuest', Credits(toGuest', c), TRUE, conns'[c].fwd)
  BY DEF Covered, InUse
<1>1. CASE toGuest' = toGuest
  BY <1>1
<1>2. CASE toGuest' # toGuest
  <2> DEFINE g == Held(c)'
             old == Credits(toGuest, c)
             next == conns'[c].fwd
             n == Len(toGuest)
  <2>1. /\ Credits(toGuest', c) = old \cup {n + 1}
        /\ toGuest'[n + 1] = p /\ n \in Nat
        /\ \A i \in old : toGuest'[i] = toGuest[i]
    BY <1>2, RespondCredits
  <2>2. /\ Counters(guest[c].fwd, toGuest, old, conns[c].fwd)
        /\ \A i \in old : i \in 1..n
        /\ guest[c].tx \in Nat /\ g \in Nat
    BY CountersType, HeldNextType
  <2>3. next \in 0..(CntMod - 1) /\ p.fwd = next
    BY DEF DeviceTyped, ConnsTyped, ConnRecords
  <2>4. Covers(g, guest[c].tx, guest[c].fwd, toGuest, old, TRUE, next)
    OBVIOUS
  <2> HIDE DEF g, old, next, n
  <2>5. Counters(guest[c].fwd, toGuest, old, next)
    BY <2>2, <2>3 DEF Counters
  <2>6. toGuest'[n + 1].fwd = next
    BY <2>1, <2>3
  <2>7. Covers(g, guest[c].tx, guest[c].fwd, toGuest', old \cup {n + 1}, TRUE, next)
    BY <2>1, <2>2, <2>4, <2>5, <2>6, CoversMore
  <2>8. Covers(g, guest[c].tx, guest[c].fwd, toGuest', Credits(toGuest', c), TRUE, next)
    BY <2>1, <2>7
  <2> QED
    BY <2>8 DEF g, next
<1> QED
  BY <1>1, <1>2

\* The same, while all else about connections and sockets stays.
LEMMA CreditAnswered ==
  ASSUME DeviceTyped, DeviceTyped', NEW c \in Conns, Covered(c), NEW d \in Conns, Alive(d),
         NEW p \in Packets, p.conn = d, p.op # "SHUTDOWN", p.fwd = conns[d].fwd,
         Respond(p) \/ UNCHANGED <<rxFree, toGuest>>, UNCHANGED <<conns, guest>>,
         Held(c)' <= Held(c)
  PROVE  Covered(c)'
<1>1. CASE c # d
  <2>1. Shifted(toGuest', Credits(toGuest', c), toGuest, Credits(toGuest, c), 0)
    BY <1>1, RespondCredits
  <2> QED
    BY <2>1, CreditKept
<1>2. CASE c = d
  <2> DEFINE g == Held(c)'
             h == Held(c)
             old == Credits(toGuest, c)
  <2>1. /\ g \in Nat /\ h \in Nat /\ g <= h /\ guest[c].tx \in Nat
        /\ Counters(guest[c].fwd, toGuest, old, conns[c].fwd) /\ h <= BufAlloc
    BY HeldType, HeldNextType, CountersType DEF Covered
  <2>2. conns[c].state # "none"
    BY <1>2 DEF Alive
  <2>3. guest[c].st \in InUse => Covers(h, guest[c].tx, guest[c].fwd, toGuest, old, TRUE, conns[c].fwd)
    BY <2>2 DEF Covered, InUse
  <2>4. Shifted(toGuest, old, toGuest, old, 0)
    <3>1. \A i \in Credits(toGuest, c) : i \in Nat \ {0} /\ i + 0 = i
      BY CountersType
    <3> QED
      BY <3>1 DEF Shifted
  <2> HIDE DEF g, h, old
  <2>5. guest[c].st \in InUse => Covers(g, guest[c].tx, guest[c].fwd, toGuest, old, TRUE, conns[c].fwd)
    BY <2>1, <2>3, <2>4, CoversLess
  <2>6. g <= BufAlloc
    BY <2>1, Constants
  <2> QED
    BY <1>2, <2>2, <2>5, <2>6, CreditSent DEF g, old
<1> QED
  BY <1>1, <1>2
\* Nothing is owed on a connection that carried nothing.
LEMMA CoversNothing ==
  ASSUME NEW ring, NEW credits, \A i \in credits : ring[i].fwd = 0, NEW sends
  PROVE  Covers(0, 0, 0, ring, credits, sends, 0)
<1>1. (CntMod * 1 + 0) % CntMod = 0 /\ CntMod * 1 + 0 = 0 + CntMod - 0
  BY Constants, Remainder
<1>2. Owed(0, 0) = 0
  BY <1>1 DEF Owed
<1> QED
  BY <1>2, Constants DEF Covers

LEMMA CreditOpened ==
  ASSUME DeviceTyped, DeviceTyped', NEW c \in Conns, OpensOf(c), TxRequest, c = TxConn
  PROVE  Covered(c)'
<1> DEFINE p == Packet(c, "RESPONSE", <<>>, 0, {})
<1>1. /\ TakeTx("REQUEST") /\ Respond(p) /\ guest' = guest /\ at' = At("read", c)
      /\ conns' = [conns EXCEPT ![c] = Established]
  BY DEF TxRequest
<1>2. p \in Packets /\ p.fwd = 0 /\ p.conn = c /\ p.op = "RESPONSE"
  BY BarePacket DEF Ops, Packet
<1> HIDE DEF p
<1>3. /\ 1 \in OfOp(toDevice, c, "REQUEST") /\ Fewer(c)
      /\ OfOp(toDevice, c, "REQUEST")' = {}
  BY <1>1, TakenRing DEF OpensOf
<1>4. Untouched(c)
  BY <1>3 DEF OpensOf
<1>5. conns'[c] = Established
  BY <1>1 DEF DeviceTyped, ConnsTyped
<1>6. conns'[c].pending = <<>> /\ conns'[c].fwd = 0
  BY <1>5 DEF Established, Gone
<1>7. Carried(toDevice', c) = <<>>
  <2>1. Of(toDevice, c)' = {}
    BY <1>3, <1>4 DEF Fewer, Untouched
  <2>2. toDevice' \in Seq(Packets) /\ Of(toDevice', c) = {}
    BY <2>1 DEF DeviceTyped, RingsTyped
  <2> QED
    BY <2>2, NothingCarried
<1>8. Held(c)' = 0
  <2>1. at' # At("tx", c)
    BY <1>1, Places
  <2>2. Held(c)' = Len(conns'[c].pending) + Len(Carried(toDevice', c)) + 0
    BY <2>1 DEF Held
  <2>3. Len(conns'[c].pending) = 0 /\ Len(Carried(toDevice', c)) = 0
    BY <1>6, <1>7, BytesConcat
  <2> QED
    BY <2>2, <2>3
<1>9. \A i \in Credits(toGuest', c) : toGuest'[i].fwd = 0
  <2>1. Credits(toGuest, c) = {}
    BY <1>4 DEF Untouched, Credits
  <2>2. CASE toGuest' = toGuest
    BY <2>1, <2>2
  <2>3. CASE toGuest' # toGuest
    BY <1>1, <1>2, <2>1, <2>3, RespondCredits
  <2> QED
    BY <2>2, <2>3
<1>10. guest'[c].tx = 0 /\ guest'[c].fwd = 0
  BY <1>1, <1>4 DEF Untouched, Unused
<1>11. Covers(0, 0, 0, toGuest', Credits(toGuest', c), conns'[c].state # "none", 0)
  BY <1>9, CoversNothing
<1> QED
  BY <1>6, <1>8, <1>10, <1>11, Constants DEF Covered

\* A packet leaves the TX ring, and pending does not grow.
LEMMA CreditTaken ==
  ASSUME DeviceTyped, DeviceTyped', OnlyRwCarries, NEW c \in Conns, Covered(c), NEW op, TakeTx(op),
         guest' = guest, at' # At("tx", c),
         conns'[c].pending = conns[c].pending \/ conns'[c].pending = <<>>,
         conns'[c].state # "none" => conns[c].state # "none" /\ conns'[c].fwd = conns[c].fwd,
         Shifted(toGuest', Credits(toGuest', c), toGuest, Credits(toGuest, c), 0)
  PROVE  Covered(c)'
<1>1. Len(Carried(toDevice', c)) <= Len(Carried(toDevice, c))
  <2> DEFINE a == Bytes(Head(toDevice), c)
             b == Carried(toDevice', c)
  <2>1. a \in Seq(Nat) /\ b \in Seq(Nat) /\ Carried(toDevice, c) = a \o b
    BY TakenBytes
  <2> HIDE DEF a, b
  <2>2. Len(a) \in Nat /\ Len(b) \in Nat /\ Len(a \o b) = Len(a) + Len(b)
    BY <2>1, BytesConcat
  <2>3. Len(b) <= Len(a) + Len(b)
    BY <2>2
  <2> QED
    BY <2>1, <2>2, <2>3 DEF b
<1>2. Len(conns'[c].pending) <= Len(conns[c].pending)
  BY BytesConcat, ConnFacts
<1>3. Held(c)' <= Held(c)
  BY <1>1, <1>2, HeldLess
<1> QED
  BY <1>3, CreditKept

LEMMA CreditTx ==
  ASSUME DeviceTyped, DeviceTyped', GoneIsGone, OnlyRwCarries, NEW c \in Conns, OpensOf(c), Covered(c), Tx
  PROVE  Covered(c)'
<1>a. conns \in [Conns -> ConnRecords]
  BY DEF DeviceTyped, ConnsTyped
<1>b. \A op : TakeTx(op) => at = Idle /\ TxConn \in Conns
  BY TakenTyped DEF DeviceTyped
<1>1. CASE TxRequest
  <2> DEFINE p == Packet(TxConn, "RESPONSE", <<>>, 0, {})
  <2>1. CASE c = TxConn
    BY <1>1, <2>1, CreditOpened
  <2>2. CASE c # TxConn
    <3>1. /\ TakeTx("REQUEST") /\ Respond(p) /\ guest' = guest /\ at' = At("read", TxConn)
          /\ conns' = [conns EXCEPT ![TxConn] = Established]
      BY <1>1 DEF TxRequest
    <3>2. p \in Packets /\ p.conn = TxConn
      BY <1>b, <3>1, BarePacket DEF Ops, Packet
    <3> HIDE DEF p
    <3>3. conns'[c] = conns[c]
      BY <2>2, <3>1, <1>a
    <3>4. Shifted(toGuest', Credits(toGuest', c), toGuest, Credits(toGuest, c), 0)
      BY <2>2, <3>1, <3>2, RespondCredits
    <3>5. at' # At("tx", c)
      BY <3>1, Places
    <3> QED
      BY <3>1, <3>3, <3>4, <3>5, CreditTaken
  <2> QED
    BY <2>1, <2>2
<1>2. CASE TxRw
  <2> DEFINE data == Head(toDevice).data
  <2>1. /\ TakeTx("RW") /\ guest' = guest /\ toGuest' = toGuest /\ total' = 0
        /\ IF conns[TxConn].state = "established"
           THEN conns' = [conns EXCEPT ![TxConn].pending = @ \o data] /\ at' = At("tx", TxConn)
           ELSE conns' = conns /\ at' = at
    BY <1>2 DEF TxRw
  <2>2. Shifted(toGuest', Credits(toGuest', c), toGuest, Credits(toGuest, c), 0)
    BY <2>1, SameCredits
  <2>3. CASE TxConn = c /\ conns[TxConn].state = "established"
    <3>1. /\ Carried(toDevice, c) = Bytes(Head(toDevice), c) \o Carried(toDevice', c)
          /\ Bytes(Head(toDevice), c) \in Seq(Nat) /\ Carried(toDevice', c) \in Seq(Nat)
      BY <2>1, TakenBytes
    <3>2. Bytes(Head(toDevice), c) = data
      BY <2>3 DEF Bytes, TxConn
    <3> HIDE DEF data
    <3>3. /\ conns'[c].pending = conns[c].pending \o data
          /\ conns'[c].state = conns[c].state /\ conns'[c].fwd = conns[c].fwd
      BY <1>a, <2>1, <2>3 DEF ConnRecords
    <3> DEFINE b == conns[c].pending
               e == Carried(toDevice', c)
               x == Len(b)
               y == Len(data)
               z == Len(e)
    <3>4. b \in Seq(Nat) /\ data \in Seq(Nat) /\ e \in Seq(Nat)
      BY <3>1, <3>2, ConnFacts
    <3>5. x \in Nat /\ y \in Nat /\ z \in Nat /\ Len(b \o data) = x + y /\ Len(data \o e) = y + z
      <4> HIDE DEF b, e
      <4> QED
        BY <3>4, BytesConcat
    <3>6. Held(c)' = Len(b \o data) + z + 0
      BY <2>1, <2>3, <3>3 DEF Held
    <3>7. Held(c) = x + Len(data \o e) + 0
      <4>1. at # At("tx", c)
        BY <1>b, <2>1, Places
      <4> QED
        BY <3>1, <3>2, <4>1 DEF Held
    <3> HIDE DEF b, e, x, y, z
    <3>8. (x + y) + z + 0 = x + (y + z) + 0 /\ x + (y + z) + 0 \in Nat
      BY <3>5
    <3>9. Held(c)' <= Held(c)
      BY <3>5, <3>6, <3>7, <3>8
    <3> QED
      BY <2>1, <2>2, <3>3, <3>9, CreditKept
  <2>4. CASE ~(TxConn = c /\ conns[TxConn].state = "established")
    <3>1. conns'[c] = conns[c]
      BY <1>a, <2>1, <2>4
    <3>2. at' # At("tx", c)
      BY <1>b, <2>1, <2>4, Places
    <3> QED
      BY <2>1, <2>2, <3>1, <3>2, CreditTaken
  <2> QED
    BY <2>3, <2>4
<1>3. CASE TxRst \/ TxShutdown
  <2>1. /\ TakeTx("RST") \/ TakeTx("SHUTDOWN")
        /\ guest' = guest /\ toGuest' = toGuest /\ at' = at
        /\ \/ Remove({TxConn})
           \/ \E f : conns[TxConn].state # "none" /\ conns' = [conns EXCEPT ![TxConn].state = "shutdown", ![TxConn].flags = f]
    BY <1>3 DEF TxRst, TxShutdown, worker
  <2>2. at' # At("tx", c)
    BY <1>b, <2>1, Places
  <2>3. /\ conns'[c].pending = conns[c].pending \/ conns'[c].pending = <<>>
        /\ conns'[c].state # "none" => conns[c].state # "none" /\ conns'[c].fwd = conns[c].fwd
    <3>1. CASE Remove({TxConn})
      <4>1. conns'[c] = conns[c] \/ conns'[c] = Gone
        BY <3>1, Removes
      <4> QED
        BY <4>1 DEF Gone
    <3>2. CASE ~Remove({TxConn})
      <4>1. PICK f : conns[TxConn].state # "none" /\ conns' = [conns EXCEPT ![TxConn].state = "shutdown", ![TxConn].flags = f]
        BY <2>1, <3>2
      <4>2. c # TxConn => conns'[c] = conns[c]
        BY <1>a, <4>1
      <4>3. c = TxConn => conns'[c].pending = conns[c].pending /\ conns'[c].fwd = conns[c].fwd
        BY <1>a, <4>1 DEF ConnRecords
      <4> QED
        BY <4>1, <4>2, <4>3
    <3> QED
      BY <3>1, <3>2
  <2>4. Shifted(toGuest', Credits(toGuest', c), toGuest, Credits(toGuest, c), 0)
    BY <2>1, SameCredits
  <2> QED
    BY <2>1, <2>2, <2>3, <2>4, CreditTaken
<1>4. CASE TxCreditRequest
  <2> DEFINE p == Packet(TxConn, "CREDIT_UPDATE", <<>>, conns[TxConn].fwd, {})
  <2>1. /\ TakeTx("CREDIT_REQUEST") /\ UNCHANGED <<conns, at, total, guest>>
        /\ (Alive(TxConn) /\ Respond(p)) \/ UNCHANGED <<rxFree, toGuest>>
    BY <1>4 DEF TxCreditRequest, CreditUpdate, worker, Alive
  <2>2. TxConn \in Conns
    BY <1>b, <2>1
  <2>3. p \in Packets /\ p.op = "CREDIT_UPDATE" /\ p.conn = TxConn /\ p.fwd = conns[TxConn].fwd
    BY <2>2, PacketType, BytesConcat, ConnFacts DEF Ops, Packet
  <2> HIDE DEF p
  <2>4. Len(Carried(toDevice', c)) <= Len(Carried(toDevice, c))
    <3>1. Carried(toDevice', c) = Carried(toDevice, c)
      BY <2>1, TakenBytes
    <3> QED
      BY <3>1, HeldType
  <2>5. Held(c)' <= Held(c)
    <3>1. Len(conns'[c].pending) <= Len(conns[c].pending)
      BY <2>1, HeldType
    <3> QED
      BY <2>1, <2>4, <3>1, HeldLess
  <2>6. CASE Alive(TxConn) /\ Respond(p)
    BY <2>1, <2>2, <2>3, <2>5, <2>6, CreditAnswered
  <2>7. CASE UNCHANGED <<rxFree, toGuest>>
    BY <2>1, <2>5, <2>7, SameCredits, CreditKept
  <2> QED
    BY <2>1, <2>6, <2>7
<1> QED
  BY <1>1, <1>2, <1>3, <1>4 DEF Tx
\* The worker forwards what it flushed, and tells the guest.
LEMMA CreditForwarded ==
  ASSUME DeviceTyped, DeviceTyped', GoneIsGone, NEW c \in Conns, Covered(c), TxFlushed(c)
  PROVE  Covered(c)'
<1> DEFINE p == Packet(c, "CREDIT_UPDATE", <<>>, Forwarded(c), {})
<1>1. /\ at = At("tx", c) /\ at' = Idle /\ UNCHANGED <<toDevice, guest, total>>
      /\ conns' = [conns EXCEPT ![c].fwd = Forwarded(c)] /\ Respond(p)
  BY DEF TxFlushed
<1>2. p \in Packets /\ p.op = "CREDIT_UPDATE" /\ p.conn = c /\ p.fwd = Forwarded(c)
  BY ForwardedType, PacketType, BytesConcat DEF Ops, Packet
<1> HIDE DEF p
<1>3. Alive(c)
  BY <1>1 DEF GoneIsGone
<1>4. conns'[c].state = conns[c].state /\ conns'[c].pending = conns[c].pending /\ conns'[c].fwd = Forwarded(c)
  BY <1>1 DEF DeviceTyped, ConnsTyped, ConnRecords
<1>5. conns[c].state # "none" /\ conns'[c].state # "none"
  BY <1>3, <1>4 DEF Alive
<1> DEFINE g == Held(c)'
           h == Held(c)
           old == Credits(toGuest, c)
           x == Len(conns[c].pending) + Len(Carried(toDevice, c))
<1>6. g = x + 0 /\ h = x + total /\ x \in Nat /\ total \in Nat
  <2>1. at' # At("tx", c)
    BY <1>1, Places
  <2>2. Held(c)' = x + 0 /\ Held(c) = x + total
    BY <1>1, <1>4, <2>1 DEF Held
  <2> QED
    BY <2>2, HeldType
<1>7. g \in Nat /\ h \in Nat /\ g <= h /\ g = h - total /\ total <= h
  <2> HIDE DEF g, h, x
  <2> QED
    BY <1>6
<1>8. /\ Counters(guest[c].fwd, toGuest, old, conns[c].fwd) /\ guest[c].tx \in Nat
      /\ h <= BufAlloc /\ conns[c].fwd \in 0..(CntMod - 1)
  BY CountersType, ConnFacts DEF Covered
<1>9. Shifted(toGuest, old, toGuest, old, 0)
  <2>1. \A i \in Credits(toGuest, c) : i \in Nat \ {0} /\ i + 0 = i
    BY CountersType
  <2> QED
    BY <2>1 DEF Shifted
<1>10. guest[c].st \in InUse => Covers(h, guest[c].tx, guest[c].fwd, toGuest, old, TRUE, conns[c].fwd)
  BY <1>5 DEF Covered, InUse
<1> HIDE DEF g, h, old, x
<1>11. ASSUME guest[c].st \in InUse
       PROVE  Covers(g, guest[c].tx, guest[c].fwd, toGuest, old, TRUE, Forwarded(c))
  <2>1. CASE Broken(c)
    <3>1. Forwarded(c) = conns[c].fwd
      BY <2>1 DEF Forwarded
    <3>2. Covers(g, guest[c].tx, guest[c].fwd, toGuest, old, TRUE, conns[c].fwd)
      BY <1>7, <1>8, <1>9, <1>10, <1>11, CoversLess
    <3> QED
      BY <3>1, <3>2
  <2>2. CASE ~Broken(c)
    <3>1. Forwarded(c) = (conns[c].fwd + total) % CntMod
      BY <2>2 DEF Forwarded
    <3>2. Covers(h - total, guest[c].tx, guest[c].fwd, toGuest, old, TRUE, (conns[c].fwd + total) % CntMod)
      BY <1>6, <1>7, <1>8, <1>10, <1>11, CoversForwarded
    <3> QED
      BY <1>7, <3>1, <3>2
  <2> QED
    BY <2>1, <2>2
<1>12. g <= BufAlloc
  BY <1>7, <1>8, Constants
<1> QED
  BY <1>1, <1>2, <1>4, <1>5, <1>11, <1>12, CreditSent DEF g, old

\* A turn of the flush: bytes leave pending, and are counted in total.
LEMMA HeldFlushed ==
  ASSUME DeviceTyped, DeviceTyped', NEW c \in Conns, NEW d \in Conns, Flush(d)
  PROVE  Held(c)' <= Held(c) /\ conns'[c].state = conns[c].state /\ conns'[c].fwd = conns[c].fwd
<1>1. PICK n \in 0..Len(conns[d].pending), front \in Seq(Nat), rest \in Seq(Nat) :
         /\ conns[d].pending = front \o rest
         /\ Len(front) = n /\ Len(rest) = Len(conns[d].pending) - n
         /\ Extend(toHost[d], front) \in HalfType
         /\ Extend(toHost[d], front).buf = toHost[d].buf \o front
         /\ Len(Extend(toHost[d], front).buf) <= Capacity
         /\ Extend(toHost[d], front).reader_closed = toHost[d].reader_closed
         /\ toHost' = [toHost EXCEPT ![d] = Extend(toHost[d], front)]
         /\ conns' = [conns EXCEPT ![d].pending = rest]
         /\ total' = total + n
  BY Flushes
<1>2. at' = at /\ toDevice' = toDevice /\ at \in {At("tx", d), At("service", d)}
  BY DEF Flush, rings
<1>3. Len(Carried(toDevice', c)) <= Len(Carried(toDevice, c))
  BY <1>2, HeldType
<1>4. CASE c # d
  <2>1. conns'[c] = conns[c]
    BY <1>1, <1>4 DEF DeviceTyped, ConnsTyped
  <2>2. at' # At("tx", c)
    BY <1>2, <1>4, Places
  <2>3. Len(conns'[c].pending) <= Len(conns[c].pending)
    BY <2>1, HeldType
  <2> QED
    BY <1>3, <2>1, <2>2, <2>3, HeldLess
<1>5. CASE c = d
  <2>1. conns'[c].pending = rest /\ conns'[c].state = conns[c].state /\ conns'[c].fwd = conns[c].fwd
    BY <1>1, <1>5 DEF DeviceTyped, ConnsTyped, ConnRecords
  <2> DEFINE x == Len(conns[c].pending)
             y == Len(Carried(toDevice, c))
  <2>2. x \in Nat /\ y \in Nat /\ total \in Nat /\ n \in 0..x /\ Len(conns'[c].pending) = x - n
    BY <1>1, <1>5, <2>1, HeldType
  <2>3. CASE at = At("tx", c)
    <3>1. Held(c)' = (x - n) + y + (total + n) /\ Held(c) = x + y + total
      BY <1>1, <1>2, <2>2, <2>3 DEF Held
    <3> HIDE DEF x, y
    <3>2. (x - n) + y + (total + n) = x + y + total /\ x + y + total \in Nat
      BY <2>2
    <3>3. x + y + total <= x + y + total
      BY <3>2
    <3> QED
      BY <2>1, <3>1, <3>2, <3>3
  <2>4. CASE at # At("tx", c)
    <3>1. Len(conns'[c].pending) <= Len(conns[c].pending)
      <4> HIDE DEF x
      <4>1. x - n <= x
        BY <2>2
      <4> QED
        BY <2>2, <4>1 DEF x
    <3> QED
      BY <1>2, <1>3, <2>1, <2>4, <3>1, HeldLess
  <2> QED
    BY <2>3, <2>4
<1> QED
  BY <1>4, <1>5

LEMMA CreditWorker ==
  ASSUME DeviceTyped, DeviceTyped', GoneIsGone, NEW c \in Conns, Covered(c), NEW d \in Conns,
         \/ Event \/ Service(d) \/ Flush(d) \/ TxFlushed(d) \/ ServiceFlushed(d)
         \/ (\E n \in 1..Capacity : TransferRx(d, n)) \/ TransferEof(d) \/ TransferStops(d)
  PROVE  Covered(c)'
<1>a. conns \in [Conns -> ConnRecords]
  BY DEF DeviceTyped, ConnsTyped
<1>b. ASSUME toDevice' = toDevice, conns'[c].pending = conns[c].pending \/ conns'[c].pending = <<>>,
             at' # At("tx", c) \/ (at' = at /\ total' = total)
      PROVE  Held(c)' <= Held(c)
  <2>1. Len(conns'[c].pending) <= Len(conns[c].pending) /\ Len(Carried(toDevice', c)) <= Len(Carried(toDevice, c))
    BY <1>b, BytesConcat, HeldType
  <2> QED
    BY <1>b, <2>1, HeldLess
<1>1. CASE Event \/ Service(d) \/ TransferStops(d)
  <2>1. UNCHANGED <<conns, toGuest, toDevice, guest>>
    BY <1>1 DEF Event, Service, TransferStops, rings
  <2>2. at' # At("tx", c) \/ (at' = at /\ total' = total)
    BY <1>1, Places DEF Event, Service, TransferStops
  <2>3. Held(c)' <= Held(c)
    BY <1>b, <2>1, <2>2
  <2> QED
    BY <2>1, <2>3, SameCredits, CreditKept
<1>2. CASE Flush(d)
  <2>1. UNCHANGED <<toGuest, guest>>
    BY <1>2 DEF Flush, rings
  <2>2. Held(c)' <= Held(c) /\ conns'[c].state = conns[c].state /\ conns'[c].fwd = conns[c].fwd
    BY <1>2, HeldFlushed
  <2> QED
    BY <2>1, <2>2, SameCredits, CreditKept
<1>3. CASE TxFlushed(d)
  <2> DEFINE p == Packet(d, "CREDIT_UPDATE", <<>>, Forwarded(d), {})
  <2>1. CASE c = d
    BY <1>3, <2>1, CreditForwarded
  <2>2. CASE c # d
    <3>1. /\ at' = Idle /\ UNCHANGED <<toDevice, guest>>
          /\ conns' = [conns EXCEPT ![d].fwd = Forwarded(d)] /\ Respond(p)
      BY <1>3 DEF TxFlushed
    <3>2. p \in Packets /\ p.conn = d
      BY ForwardedType, PacketType, BytesConcat DEF Ops, Packet
    <3> HIDE DEF p
    <3>3. conns'[c] = conns[c]
      BY <1>a, <2>2, <3>1
    <3>4. Held(c)' <= Held(c)
      BY <1>b, <3>1, <3>3, Places
    <3>5. Shifted(toGuest', Credits(toGuest', c), toGuest, Credits(toGuest, c), 0)
      BY <2>2, <3>1, <3>2, RespondCredits
    <3> QED
      BY <3>1, <3>3, <3>4, <3>5, CreditKept
  <2> QED
    BY <2>1, <2>2
<1>4. CASE ServiceFlushed(d)
  <2> DEFINE p == Packet(d, "CREDIT_UPDATE", <<>>, conns[d].fwd, {})
  <2>1. /\ UNCHANGED <<conns, toDevice, guest>> /\ at' \in {Idle, At("read", d)}
        /\ (Alive(d) /\ Respond(p)) \/ UNCHANGED <<rxFree, toGuest>>
    BY <1>4 DEF ServiceFlushed, CreditUpdate, Alive
  <2>2. p \in Packets /\ p.op = "CREDIT_UPDATE" /\ p.conn = d /\ p.fwd = conns[d].fwd
    BY ConnFacts, PacketType, BytesConcat DEF Ops, Packet
  <2> HIDE DEF p
  <2>3. Held(c)' <= Held(c)
    BY <1>b, <2>1, Places
  <2>4. CASE Alive(d) /\ Respond(p)
    BY <2>1, <2>2, <2>3, <2>4, CreditAnswered
  <2>5. CASE UNCHANGED <<rxFree, toGuest>>
    BY <2>1, <2>3, <2>5, SameCredits, CreditKept
  <2> QED
    BY <2>1, <2>4, <2>5
<1>5. ASSUME NEW n \in 1..Capacity, TransferRx(d, n) PROVE Covered(c)'
  <2> DEFINE front == FrontOf(toDev[d], n)
             p == Packet(d, "RW", front, conns[d].fwd, {})
  <2>1. /\ UNCHANGED <<conns, at, total, toDevice, guest>> /\ Alive(d)
        /\ Respond(p) /\ n \in 1..Len(toDev[d].buf)
    BY <1>5 DEF TransferRx, Reading, Alive, worker
  <2>2. front \in Seq(Nat)
    BY <2>1, ConnFacts, DrainHalf
  <2>3. p \in Packets /\ p.op = "RW" /\ p.conn = d /\ p.fwd = conns[d].fwd
    BY <2>2, ConnFacts, PacketType DEF Ops, Packet
  <2> HIDE DEF p, front
  <2>4. Held(c)' <= Held(c)
    BY <1>b, <2>1
  <2> QED
    BY <2>1, <2>3, <2>4, CreditAnswered
<1>6. CASE TransferEof(d)
  <2> DEFINE p == Packet(d, "SHUTDOWN", <<>>, 0, Both)
  <2>1. UNCHANGED <<toDevice, guest>> /\ Respond(p) /\ Remove({d}) /\ at' = Idle
    BY <1>6 DEF TransferEof
  <2>2. p \in Packets /\ p.op = "SHUTDOWN"
    BY BarePacket DEF Ops, Packet
  <2> HIDE DEF p
  <2>3. conns'[c] = conns[c] \/ conns'[c] = Gone
    BY <2>1, Removes
  <2>4. /\ conns'[c].pending = conns[c].pending \/ conns'[c].pending = <<>>
        /\ conns'[c].state # "none" => conns[c].state # "none" /\ conns'[c].fwd = conns[c].fwd
    BY <2>3 DEF Gone
  <2>5. Held(c)' <= Held(c)
    BY <1>b, <2>1, <2>4, Places
  <2>6. Shifted(toGuest', Credits(toGuest', c), toGuest, Credits(toGuest, c), 0)
    BY <2>1, <2>2, RespondCredits
  <2> QED
    BY <2>1, <2>4, <2>5, <2>6, CreditKept
<1> QED
  BY <1>1, <1>2, <1>3, <1>4, <1>5, <1>6
\* The guest sends bytes for which it has credit.
LEMMA CreditSpent ==
  ASSUME DeviceTyped, DeviceTyped', NEW c \in Conns, Covered(c), NEW k \in 1..BufAlloc, GuestSend(c, k)
  PROVE  Covered(c)'
<1> DEFINE data == Fresh(guest[c].tx, k)
           p == Packet(c, "RW", data, 0, {})
           g == Held(c)'
           h == Held(c)
           a == Owed(guest[c].tx, guest[c].fwd)
           old == Credits(toGuest, c)
           sends == conns[c].state # "none"
<1>1. /\ guest' = [guest EXCEPT ![c].tx = @ + k] /\ Transmit(p) /\ guest[c].st = "open"
      /\ k \in 1..(BufAlloc - a)
      /\ UNCHANGED <<conns, at, total, toGuest>>
  BY DEF GuestSend, GuestUnchanged, worker, Credit, Owed
<1>2. p \in Packets /\ p.conn = c /\ p.data = data
  BY SentIsPacket DEF Packet
<1>3. guest'[c].tx = guest[c].tx + k /\ guest'[c].fwd = guest[c].fwd /\ guest'[c].st = "open"
  BY <1>1 DEF DeviceTyped, GuestSockets
<1>4. data \in Seq(Nat) /\ Len(data) = k /\ k \in Nat
  <2>1. guest[c].tx \in Nat /\ k \in Nat
    BY ConnFacts
  <2> QED
    BY <2>1, FreshBytes
<1> HIDE DEF p, data
<1>5. g = h + k
  <2> DEFINE x == Len(conns[c].pending)
             s == Carried(toDevice, c)
             y == Len(s)
  <2>1. Carried(toDevice', c) = s \o data
    BY <1>1, <1>2, TransmitBytes
  <2>2. s \in Seq(Nat)
    BY CarriedType DEF DeviceTyped, RingsTyped
  <2>3. x \in Nat /\ y \in Nat /\ total \in Nat
    BY HeldType
  <2>4. Held(c)' = x + Len(s \o data) + (IF at = At("tx", c) THEN total ELSE 0)
    BY <1>1, <2>1 DEF Held
  <2>5. Held(c) = x + y + (IF at = At("tx", c) THEN total ELSE 0)
    BY DEF Held
  <2> HIDE DEF s
  <2>6. Len(s \o data) = y + k
    BY <1>4, <2>2, BytesConcat
  <2> HIDE DEF x, y, g, h
  <2>7. Held(c)' = Held(c) + k
    BY <1>4, <2>3, <2>4, <2>5, <2>6
  <2> QED
    BY <2>7 DEF g, h
<1>6. /\ Counters(guest[c].fwd, toGuest, old, conns[c].fwd) /\ guest[c].tx \in Nat
      /\ h \in Nat /\ a \in Nat
  <2>1. guest[c].fwd \in 0..(CntMod - 1) /\ guest[c].tx \in Nat
    BY ConnFacts
  <2> QED
    BY <2>1, CountersType, HeldType, OwedType
<1>7. Covers(h, guest[c].tx, guest[c].fwd, toGuest, old, sends, conns[c].fwd) /\ h <= a
  <2>1. Covers(h, guest[c].tx, guest[c].fwd, toGuest, old, sends, conns[c].fwd)
    BY <1>1 DEF Covered
  <2> QED
    BY <2>1 DEF Covers
<1>8. sends \in BOOLEAN
  OBVIOUS
<1>9. a + k <= BufAlloc /\ h + k <= BufAlloc
  <2>1. k \in 1..(BufAlloc - a) /\ h <= a
    BY <1>1, <1>7
  <2> HIDE DEF a, h
  <2> QED
    BY <1>4, <1>6, <2>1, Constants
<1>10. Owed(guest[c].tx, guest[c].fwd) + k <= BufAlloc
  BY <1>9
<1> HIDE DEF g, h, a, old, sends
<1>11. Covers(h + k, guest[c].tx + k, guest[c].fwd, toGuest, old, sends, conns[c].fwd)
  BY <1>4, <1>6, <1>7, <1>8, <1>10, CoversSent
<1>12. Covers(g, guest'[c].tx, guest'[c].fwd, toGuest', Credits(toGuest', c), conns'[c].state # "none", conns'[c].fwd)
  BY <1>1, <1>3, <1>5, <1>11 DEF old, sends
<1>13. g <= BufAlloc
  BY <1>5, <1>9
<1> QED
  BY <1>12, <1>13 DEF Covered, g

\* The guest learns a value of fwd_cnt.
LEMMA CreditLearned ==
  ASSUME DeviceTyped, DeviceTyped', NEW c \in Conns, Covered(c), GuestRecv
  PROVE  Covered(c)'
<1> DEFINE p == Head(toGuest)
           d == p.conn
           q == Packet(d, "RST", <<>>, 0, {})
           live == guest[d].st \in {"open", "sendshut"} \/ (guest[d].st = "connecting" /\ p.op = "RESPONSE")
           r == [st  |-> CASE p.op = "RESPONSE" -> "open"
                             [] p.op = "SHUTDOWN" -> "ended"
                             [] OTHER -> guest[d].st,
                 tx  |-> guest[d].tx,
                 fwd |-> p.fwd,
                 got |-> guest[d].got \o p.data,
                 asked |-> guest[d].asked]
<1>1. p \in Packets /\ d \in Conns /\ p = toGuest[1] /\ toGuest # <<>> /\ toGuest' = Tail(toGuest)
  BY ReceivedTyped
<1>2. q \in Packets /\ q.data = <<>>
  BY <1>1, BarePacket DEF Ops, Packet
<1>3. Transmit(q) \/ UNCHANGED toDevice
  BY DEF GuestRecv
<1>4. guest' = IF ~live THEN guest ELSE [guest EXCEPT ![d] = r]
  BY DEF GuestRecv
<1>5. UNCHANGED <<conns, at, total>>
  BY DEF GuestRecv, GuestUnchanged, worker
<1>6. /\ r.tx = guest[d].tx /\ r.fwd = p.fwd /\ (p.op = "SHUTDOWN" => r.st = "ended")
  OBVIOUS
<1>7. Carried(toDevice', c) = Carried(toDevice, c)
  <2> HIDE DEF q
  <2> QED
    BY <1>2, <1>3, TransmitBytes
<1>8. Held(c)' = Held(c)
  BY <1>5, <1>7 DEF Held
<1>9. Held(c)' <= Held(c)
  BY <1>8, HeldType
<1>10. Shifted(toGuest', Credits(toGuest', c), toGuest, Credits(toGuest, c), 1)
  BY <1>1, TakenCredits
<1>11. 1 \in Of(toGuest, d)
  <2> DEFINE n == Len(toGuest)
  <2>1. n \in Nat \ {0}
    BY <1>1, RingTail DEF DeviceTyped, RingsTyped
  <2> HIDE DEF n
  <2>2. 1 \in 1..n
    BY <2>1
  <2> QED
    BY <1>1, <2>2 DEF n, Of
<1>12. p.op # "SHUTDOWN" => 1 \in Credits(toGuest, d)
  BY <1>1, <1>11 DEF Credits, OfOp
<1> HIDE DEF p, q, r
<1>13. CASE c # d \/ ~live
  <2>1. guest'[c] = guest[c]
    BY <1>4, <1>13
  <2> QED
    BY <1>5, <1>9, <1>10, <2>1, CreditKept
<1>14. CASE c = d /\ live
  <2>1. guest'[c] = r
    BY <1>1, <1>4, <1>14 DEF DeviceTyped
  <2>2. CASE p.op = "SHUTDOWN"
    <3>1. guest'[c].st \notin InUse
      BY <1>6, <2>1, <2>2 DEF InUse
    <3> QED
      BY <1>9, <3>1, CreditIdle
  <2>3. CASE p.op # "SHUTDOWN"
    <3> DEFINE h == Held(c)
               old == Credits(toGuest, c)
               new == Credits(toGuest', c)
               sends == conns[c].state # "none"
    <3>1. Covers(h, guest[c].tx, guest[c].fwd, toGuest, old, sends, conns[c].fwd) /\ h <= BufAlloc
      BY <1>14 DEF Covered
    <3>2. /\ Counters(guest[c].fwd, toGuest, old, conns[c].fwd) /\ guest[c].tx \in Nat /\ h \in Nat
          /\ 1 \in old /\ Shifted(toGuest', new, toGuest, old, 1)
      BY <1>10, <1>12, <1>14, <2>3, CountersType, HeldType
    <3> HIDE DEF h, old, new, sends
    <3>3. Covers(h, guest[c].tx, toGuest[1].fwd, toGuest', new, sends, conns[c].fwd)
      BY <3>1, <3>2, CoversLearned
    <3>4. guest'[c].tx = guest[c].tx /\ guest'[c].fwd = toGuest[1].fwd
      BY <1>1, <1>6, <1>14, <2>1
    <3>5. Covers(Held(c)', guest'[c].tx, guest'[c].fwd, toGuest', Credits(toGuest', c), conns'[c].state # "none", conns'[c].fwd)
      BY <1>5, <1>8, <3>3, <3>4 DEF h, new, sends
    <3>6. Held(c)' <= BufAlloc
      BY <1>8, <3>1 DEF h
    <3> QED
      BY <3>5, <3>6 DEF Covered
  <2> QED
    BY <2>2, <2>3
<1> QED
  BY <1>13, <1>14

\* A connection the guest opens.
LEMMA CreditFresh ==
  ASSUME DeviceTyped, DeviceTyped', GoneIsGone, NEW c \in Conns, OpensOf(c), GuestConnect(c)
  PROVE  Covered(c)'
<1> DEFINE p == Packet(c, "REQUEST", <<>>, 0, {})
<1>1. /\ guest' = [guest EXCEPT ![c].st = "connecting"] /\ Transmit(p) /\ guest[c].st = "closed"
      /\ UNCHANGED <<conns, at, total, toGuest>>
  BY DEF GuestConnect, GuestUnchanged, worker
<1>2. p \in Packets /\ p.data = <<>>
  BY BarePacket DEF Ops, Packet
<1> HIDE DEF p
<1>3. Untouched(c) /\ Of(toDevice, c) = {}
  BY <1>1 DEF OpensOf
<1>4. conns[c] = Gone /\ guest[c].tx = 0 /\ guest[c].fwd = 0 /\ Of(toGuest, c) = {}
  BY <1>3 DEF Untouched, Unused
<1>5. Carried(toDevice', c) = <<>>
  <2>1. Carried(toDevice, c) = <<>>
    BY <1>3, NothingCarried DEF DeviceTyped, RingsTyped
  <2> QED
    BY <1>1, <1>2, <2>1, TransmitBytes
<1>6. at # At("tx", c)
  BY <1>4 DEF GoneIsGone, Alive, Gone
<1>7. conns'[c].pending = <<>> /\ conns'[c].fwd = 0
  BY <1>1, <1>4 DEF Gone
<1>8. Held(c)' = 0
  <2>1. Held(c)' = Len(conns'[c].pending) + Len(Carried(toDevice', c)) + 0
    BY <1>1, <1>6 DEF Held
  <2>2. Len(conns'[c].pending) = 0 /\ Len(Carried(toDevice', c)) = 0
    BY <1>5, <1>7, BytesConcat
  <2> QED
    BY <2>1, <2>2
<1>9. guest'[c].tx = 0 /\ guest'[c].fwd = 0
  BY <1>1, <1>4 DEF DeviceTyped, GuestSockets
<1>10. Credits(toGuest', c) = {}
  BY <1>1, <1>4 DEF Credits
<1>11. Covers(0, 0, 0, toGuest', Credits(toGuest', c), conns'[c].state # "none", 0)
  BY <1>10, CoversNothing
<1> QED
  BY <1>7, <1>8, <1>9, <1>11, Constants DEF Covered

LEMMA CreditGuest ==
  ASSUME DeviceTyped, DeviceTyped', GoneIsGone, NEW c \in Conns, OpensOf(c), Covered(c), Guest
  PROVE  Covered(c)'
<1>a. guest \in [Conns -> GuestSockets]
  BY DEF DeviceTyped
\* A packet without data, or of another connection.
<1>c. ASSUME NEW d \in Conns, NEW p \in Packets, p.conn = d, p.data = <<>> \/ c # d,
             Transmit(p) \/ UNCHANGED toDevice, GuestUnchanged, UNCHANGED toGuest,
             NEW r, guest' = [guest EXCEPT ![d] = r],
             c = d => r.tx = guest[c].tx /\ r.fwd = guest[c].fwd /\ (r.st \in InUse => guest[c].st \in InUse)
      PROVE  Covered(c)'
  <2>1. Carried(toDevice', c) = Carried(toDevice, c)
    BY <1>c, TransmitBytes
  <2>2. UNCHANGED <<conns, at, total>>
    BY <1>c DEF GuestUnchanged, worker
  <2>3. Held(c)' = Held(c)
    BY <2>1, <2>2 DEF Held
  <2>4. Held(c)' <= Held(c)
    BY <2>3, HeldType
  <2>5. /\ guest'[c].tx = guest[c].tx /\ guest'[c].fwd = guest[c].fwd
        /\ guest'[c].st \in InUse => guest[c].st \in InUse
    <3>1. c = d => guest'[c] = r
      BY <1>a, <1>c
    <3>2. c # d => guest'[c] = guest[c]
      BY <1>a, <1>c
    <3> QED
      BY <1>c, <3>1, <3>2
  <2>6. Shifted(toGuest', Credits(toGuest', c), toGuest, Credits(toGuest, c), 0)
    BY <1>c, SameCredits
  <2> QED
    BY <2>2, <2>4, <2>5, <2>6, CreditKept
<1>1. CASE GuestRecv
  BY <1>1, CreditLearned
<1>2. CASE Reset
  <2>1. /\ Remove(Conns) /\ at' = Idle /\ toDevice' = <<>>
        /\ guest' = [d \in Conns |-> IF guest[d].st = "closed" THEN guest[d] ELSE [guest[d] EXCEPT !.st = "gone"]]
    BY <1>2 DEF Reset, worker
  <2>2. guest'[c].st \notin InUse
    BY <1>a, <2>1 DEF InUse, GuestSockets
  <2>3. conns'[c].pending = <<>>
    BY <2>1, Removes DEF Gone
  <2>4. Carried(toDevice', c) = <<>>
    BY <2>1, CarriedEmpty
  <2>5. Len(conns'[c].pending) <= Len(conns[c].pending) /\ Len(Carried(toDevice', c)) <= Len(Carried(toDevice, c))
    BY <2>3, <2>4, HeldType, BytesConcat
  <2>6. Held(c)' <= Held(c)
    BY <2>1, <2>5, HeldLess, Places
  <2> QED
    BY <2>2, <2>6, CreditIdle
<1>3. ASSUME NEW d \in Conns, GuestGivesUp(d) PROVE Covered(c)'
  <2> DEFINE p == Packet(d, "RST", <<>>, 0, {})
             r == [guest[d] EXCEPT !.st = "gone"]
  <2>1. /\ guest' = [guest EXCEPT ![d] = r] /\ GuestUnchanged /\ UNCHANGED <<toGuest, toDevice>>
    BY <1>3 DEF GuestGivesUp, rings
  <2>2. p \in Packets /\ p.conn = d /\ p.data = <<>>
    BY BarePacket DEF Ops, Packet
  <2>3. r.tx = guest[d].tx /\ r.fwd = guest[d].fwd /\ r.st \notin InUse
    BY <1>a DEF GuestSockets, InUse
  <2> HIDE DEF p, r
  <2> QED
    BY <1>c, <2>1, <2>2, <2>3
<1>4. ASSUME NEW d \in Conns, GuestConnect(d) PROVE Covered(c)'
  <2> DEFINE p == Packet(d, "REQUEST", <<>>, 0, {})
             r == [guest[d] EXCEPT !.st = "connecting"]
  <2>1. guest' = [guest EXCEPT ![d] = r] /\ Transmit(p) /\ GuestUnchanged /\ UNCHANGED toGuest
    BY <1>4 DEF GuestConnect
  <2>2. p \in Packets /\ p.conn = d /\ p.data = <<>>
    BY BarePacket DEF Ops, Packet
  <2> HIDE DEF p, r
  <2>3. CASE c = d
    BY <1>4, <2>3, CreditFresh
  <2>4. CASE c # d
    BY <1>c, <2>1, <2>2, <2>4
  <2> QED
    BY <2>3, <2>4
<1>5. ASSUME NEW d \in Conns, NEW k \in 1..BufAlloc, GuestSend(d, k) PROVE Covered(c)'
  <2> DEFINE p == Packet(d, "RW", Fresh(guest[d].tx, k), 0, {})
             r == [guest[d] EXCEPT !.tx = @ + k]
  <2>1. guest' = [guest EXCEPT ![d] = r] /\ Transmit(p) /\ GuestUnchanged /\ UNCHANGED toGuest
    BY <1>5 DEF GuestSend
  <2>2. p \in Packets /\ p.conn = d
    BY SentIsPacket DEF Packet
  <2> HIDE DEF p, r
  <2>3. CASE c = d
    BY <1>5, <2>3, CreditSpent
  <2>4. CASE c # d
    BY <1>c, <2>1, <2>2, <2>4
  <2> QED
    BY <2>3, <2>4
<1>6. ASSUME NEW d \in Conns, NEW flags \in {{"send"}, Both}, GuestShutdown(d, flags) PROVE Covered(c)'
  <2> DEFINE p == Packet(d, "SHUTDOWN", <<>>, 0, flags)
             r == [guest[d] EXCEPT !.st = IF flags = Both THEN "gone" ELSE "sendshut"]
  <2>1. /\ guest' = [guest EXCEPT ![d] = r] /\ Transmit(p) /\ guest[d].st \in {"open", "sendshut"}
        /\ GuestUnchanged /\ UNCHANGED toGuest
    BY <1>6 DEF GuestShutdown
  <2>2. p \in Packets /\ p.conn = d /\ p.data = <<>>
    <3>1. flags \in SUBSET Both
      BY DEF Both
    <3> QED
      BY <3>1, BarePacket DEF Ops, Packet
  <2>3. r.tx = guest[d].tx /\ r.fwd = guest[d].fwd /\ guest[d].st \in InUse
    BY <1>a, <2>1 DEF InUse
  <2> HIDE DEF p, r
  <2> QED
    BY <1>c, <2>1, <2>2, <2>3
<1>7. ASSUME NEW d \in Conns, GuestCreditRequest(d) PROVE Covered(c)'
  <2> DEFINE p == Packet(d, "CREDIT_REQUEST", <<>>, 0, {})
             r == [guest[d] EXCEPT !.asked = TRUE]
  <2>1. guest' = [guest EXCEPT ![d] = r] /\ Transmit(p) /\ GuestUnchanged /\ UNCHANGED toGuest
    BY <1>7 DEF GuestCreditRequest
  <2>2. p \in Packets /\ p.conn = d /\ p.data = <<>>
    BY BarePacket DEF Ops, Packet
  <2>3. r.tx = guest[d].tx /\ r.fwd = guest[d].fwd /\ r.st = guest[d].st
    BY <1>a DEF GuestSockets
  <2> HIDE DEF p, r
  <2> QED
    BY <1>c, <2>1, <2>2, <2>3
<1> QED
  BY <1>1, <1>2, <1>3, <1>4, <1>5, <1>6, <1>7 DEF Guest

LEMMA CreditNext ==
  ASSUME DeviceTyped, DeviceTyped', GoneIsGone, OpensOnce, OnlyRwCarries, CreditIsCovered, [Next]_allVars
  PROVE  CreditIsCovered'
<1> SUFFICES ASSUME NEW c \in Conns PROVE Covered(c)'
  BY DEF CreditIsCovered
<1>a. OpensOf(c) /\ Covered(c)
  BY DEF OpensOnce, OpensOf, CreditIsCovered
<1>1. CASE Worker
  BY <1>1, <1>a, CreditTx, CreditWorker DEF Worker
<1>2. CASE Guest
  BY <1>2, <1>a, CreditGuest
<1>3. CASE Host \/ UNCHANGED allVars
  <2>1. UNCHANGED <<conns, at, total, toGuest, toDevice, guest>>
    BY <1>3, HostFrame DEF allVars, vars, worker, rings
  <2>2. Held(c)' = Held(c)
    BY <2>1 DEF Held
  <2>3. Held(c)' <= Held(c)
    BY <2>2, HeldType
  <2> QED
    BY <1>a, <2>1, <2>3, SameCredits, CreditKept
<1> QED
  BY <1>1, <1>2, <1>3 DEF Next, Step

LEMMA CreditInit == Init => CreditIsCovered
<1> SUFFICES ASSUME Init, NEW c \in Conns PROVE Covered(c)
  BY DEF CreditIsCovered
<1>1. conns[c].pending = <<>> /\ at # At("tx", c) /\ toDevice = <<>> /\ guest[c].st = "closed"
  BY Places DEF Init, Gone
<1>2. Held(c) = 0
  <2>1. Len(conns[c].pending) = 0 /\ Len(Carried(toDevice, c)) = 0
    BY <1>1, CarriedEmpty, BytesConcat
  <2> QED
    BY <1>1, <2>1 DEF Held
<1> QED
  BY <1>1, <1>2, Constants DEF Covered

LEMMA CreditInvariant == SafeSpec => []CreditIsCovered
<1>1. DeviceTyped /\ DeviceTyped' /\ GoneIsGone /\ OpensOnce /\ OnlyRwCarries /\ CreditIsCovered /\ [Next]_allVars
        => CreditIsCovered'
  BY CreditNext
<1> QED
  BY <1>1, CreditInit, DeviceTypes, GoneInvariant, PortInvariant, OrderInvariant, PTL DEF SafeSpec

\* VsockDevice!PendingWithinCredit, for every set of connections, every modulus
\* of the counters above BUF_ALLOC and every size of the rings: although the
\* guest learns fwd_cnt late, or never when the packet is dropped, and the
\* counters wrap, what a guest that respects its credit has on the way and in
\* pending never exceeds BUF_ALLOC.
THEOREM PendingWithinCreditCorrect == SafeSpec => []PendingWithinCredit
<1>1. DeviceTyped /\ CreditIsCovered => PendingWithinCredit
  <2> SUFFICES ASSUME DeviceTyped, CreditIsCovered, NEW c \in Conns
               PROVE  Len(conns[c].pending) + Len(Carried(toDevice, c)) <= BufAlloc
    BY DEF PendingWithinCredit
  <2> DEFINE x == Len(conns[c].pending) + Len(Carried(toDevice, c))
             h == Held(c)
  <2>1. x <= h /\ h <= BufAlloc /\ h \in Nat /\ x \in Nat
    BY HeldType DEF CreditIsCovered, Covered
  <2> HIDE DEF x, h
  <2>2. x <= BufAlloc
    BY <2>1, Constants
  <2> QED
    BY <2>2 DEF x
<1> QED
  BY <1>1, DeviceTypes, CreditInvariant, PTL

=============================================================================
