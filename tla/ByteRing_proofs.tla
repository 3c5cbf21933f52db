--------------------------- MODULE ByteRing_proofs ---------------------------
(***************************************************************************)
(* Lemmas about the operators of ByteRing, for rings of every size and     *)
(* counters of every width, that the proofs about the ports use.           *)
(***************************************************************************)
EXTENDS ByteRing, SequenceTheorems, WellFoundedInduction, TLAPS

-----------------------------------------------------------------------------
\* What the ring operators keep and change.

LEMMA AdvanceType ==
  ASSUME NEW p \in Index
  PROVE  Advance(p) \in Index
BY RingAssumption DEF Index, Advance

LEMMA EmptyRingType == EmptyRing \in Ring
BY RingAssumption DEF EmptyRing, Ring, Index, NoByte

LEMMA StoreType ==
  ASSUME NEW r \in Ring, NEW b \in Nat
  PROVE  Store(r, b) \in Ring
BY RingAssumption DEF Store, Ring, Index

LEMMA AdvanceTailType ==
  ASSUME NEW r \in Ring
  PROVE  AdvanceTail(r) \in Ring
BY AdvanceType DEF AdvanceTail, Ring

LEMMA AdvanceHeadType ==
  ASSUME NEW r \in Ring
  PROVE  AdvanceHead(r) \in Ring
BY AdvanceType DEF AdvanceHead, Ring

LEMMA CountUpType ==
  ASSUME NEW r \in Ring
  PROVE  CountUp(r) \in Ring
BY RingAssumption DEF CountUp, Ring

LEMMA CountDownType ==
  ASSUME NEW r \in Ring
  PROVE  CountDown(r) \in Ring
BY RingAssumption DEF CountDown, Ring

LEMMA FirstType ==
  ASSUME NEW r \in Ring
  PROVE  First(r) \in Nat
BY DEF First, Ring

LEMMA AppendedType ==
  ASSUME NEW r \in Ring, NEW b \in Nat
  PROVE  Appended(r, b) \in Ring
BY StoreType, AdvanceTailType, CountUpType DEF Appended

LEMMA RemovedType ==
  ASSUME NEW r \in Ring
  PROVE  Removed(r) \in Ring
BY AdvanceHeadType, CountDownType DEF Removed

LEMMA ResetType ==
  ASSUME NEW r \in Ring
  PROVE  /\ [r EXCEPT !.head = 0] \in Ring
         /\ [r EXCEPT !.tail = 0] \in Ring
         /\ [r EXCEPT !.size = 0] \in Ring
<1>1. 0 \in Index
  BY RingAssumption DEF Index
<1>2. 0 \in 0 .. CountMod - 1
  BY RingAssumption
<1>3. [r EXCEPT !.head = 0] \in Ring
  BY <1>1 DEF Ring
<1>4. [r EXCEPT !.tail = 0] \in Ring
  BY <1>1 DEF Ring
<1>5. [r EXCEPT !.size = 0] \in Ring
  BY <1>2 DEF Ring
<1> QED
  BY <1>3, <1>4, <1>5

\* Arithmetic on ring indexes.
LEMMA AheadType ==
  ASSUME NEW h \in Index, NEW i \in 0 .. Slots
  PROVE  Ahead(h, i) \in Index
BY RingAssumption DEF Ahead, Index

LEMMA AheadZero ==
  ASSUME NEW h \in Index
  PROVE  Ahead(h, 0) = h
BY RingAssumption DEF Ahead, Index

LEMMA AheadAdvance ==
  ASSUME NEW h \in Index, NEW i \in Index
  PROVE  /\ Advance(Ahead(h, i)) = Ahead(h, i + 1)
         /\ Ahead(Advance(h), i) = Ahead(h, i + 1)
BY RingAssumption DEF Ahead, Advance, Index

LEMMA AheadAhead ==
  ASSUME NEW h \in Index, NEW i \in 0 .. Slots, NEW j \in 0 .. Slots, i + j <= Slots
  PROVE  Ahead(Ahead(h, i), j) = Ahead(h, i + j)
BY RingAssumption DEF Ahead, Index

LEMMA AheadDistinct ==
  ASSUME NEW h \in Index, NEW i \in Index, NEW j \in Index, i # j
  PROVE  Ahead(h, i) # Ahead(h, j)
BY RingAssumption DEF Ahead, Index

-----------------------------------------------------------------------------
\* Sequences of bytes
Occurs(v, s) == \E k \in 1 .. Len(s) : s[k] = v

LEMMA OccursConcat ==
  ASSUME NEW s \in Seq(Nat), NEW t \in Seq(Nat), NEW v
  PROVE  Occurs(v, s \o t) <=> Occurs(v, s) \/ Occurs(v, t)
<1>1. Len(s) \in Nat /\ Len(t) \in Nat
  BY LenProperties
<1>2. /\ Len(s \o t) = Len(s) + Len(t)
      /\ \A k \in 1 .. Len(s) + Len(t) :
           (s \o t)[k] = IF k <= Len(s) THEN s[k] ELSE t[k - Len(s)]
  BY ConcatProperties
<1>3. ASSUME NEW k \in 1 .. Len(s) PROVE k \in 1 .. Len(s \o t) /\ (s \o t)[k] = s[k]
  BY <1>1, <1>2
<1>4. ASSUME NEW k \in 1 .. Len(t)
      PROVE  Len(s) + k \in 1 .. Len(s \o t) /\ (s \o t)[Len(s) + k] = t[k]
  <2>1. Len(s) + k \in 1 .. Len(s) + Len(t) /\ ~ (Len(s) + k <= Len(s)) /\ (Len(s) + k) - Len(s) = k
    BY <1>1
  <2> QED
    BY <1>2, <2>1
<1>5. ASSUME NEW k \in 1 .. Len(s \o t)
      PROVE  \/ k \in 1 .. Len(s) /\ (s \o t)[k] = s[k]
             \/ k - Len(s) \in 1 .. Len(t) /\ (s \o t)[k] = t[k - Len(s)]
  BY <1>1, <1>2
<1> QED
  BY <1>3, <1>4, <1>5 DEF Occurs

LEMMA FirstAndRest ==
  ASSUME NEW u \in Seq(Nat), u # <<>>
  PROVE  Head(u) \in Nat /\ Tail(u) \in Seq(Nat) /\ u = <<Head(u)>> \o Tail(u)
<1>1. Head(u) \in Nat /\ Tail(u) \in Seq(Nat)
  BY HeadTailProperties
<1>2. Len(u) \in Nat \ {0}
  BY EmptySeq
<1>3. 1 \in 1 .. Len(u) /\ Len(u) \in 1 .. Len(u)
  BY <1>2
<1>4. SubSeq(u, 1, Len(u)) = <<u[1]>> \o SubSeq(u, 1 + 1, Len(u))
  BY <1>3, SubSeqRecursiveFirst
<1>5. SubSeq(u, 1, Len(u)) = u /\ SubSeq(u, 1 + 1, Len(u)) = Tail(u)
  BY SubSeqFull, TailIsSubSeq
<1>6. Head(u) = u[1]
  BY <1>2
<1> QED
  BY <1>1, <1>4, <1>5, <1>6

LEMMA HeadTailOfConcat ==
  ASSUME NEW x \in Nat, NEW t \in Seq(Nat)
  PROVE  Head(<<x>> \o t) = x /\ Tail(<<x>> \o t) = t
<1> DEFINE w == <<x>> \o t
<1>1. <<x>> \in Seq(Nat) /\ Len(<<x>>) = 1 /\ <<x>>[1] = x /\ Len(t) \in Nat
  BY LenProperties
<1>2. /\ w \in Seq(Nat) /\ Len(w) = 1 + Len(t)
      /\ \A i \in 1 .. 1 + Len(t) : w[i] = IF i <= 1 THEN <<x>>[i] ELSE t[i - 1]
  BY <1>1, ConcatProperties
<1> HIDE DEF w
<1>3. w # <<>>
  <2>1. Len(w) # 0
    BY <1>1, <1>2
  <2> QED
    BY <2>1, EmptySeq
<1>4. w[1] = x /\ \A i \in 1 .. Len(t) : w[i + 1] = t[i]
  BY <1>1, <1>2
<1>5. Head(w) = x
  BY <1>2, <1>3, <1>4
<1>6. /\ Tail(w) \in Seq(Nat) /\ Len(Tail(w)) = Len(t)
      /\ \A i \in 1 .. Len(t) : Tail(w)[i] = w[i + 1]
  <2>1. /\ Tail(w) \in Seq(Nat) /\ Len(Tail(w)) = Len(w) - 1
        /\ \A i \in 1 .. Len(Tail(w)) : Tail(w)[i] = w[i + 1]
    BY <1>2, <1>3, HeadTailProperties
  <2>2. Len(w) - 1 = Len(t)
    BY <1>1, <1>2
  <2> QED
    BY <2>1, <2>2
<1>7. Tail(w) = t
  BY <1>4, <1>6, SeqEqual
<1> QED
  BY <1>5, <1>7 DEF w

LEMMA HeadOfConcat ==
  ASSUME NEW u \in Seq(Nat), NEW f \in Seq(Nat), u # <<>>
  PROVE  u \o f # <<>> /\ Head(u \o f) = Head(u)
<1>1. Len(u) \in Nat \ {0} /\ Len(f) \in Nat
  BY EmptySeq, LenProperties
<1>2. /\ u \o f \in Seq(Nat) /\ Len(u \o f) = Len(u) + Len(f)
      /\ \A i \in 1 .. Len(u) + Len(f) : (u \o f)[i] = IF i <= Len(u) THEN u[i] ELSE f[i - Len(u)]
  BY ConcatProperties
<1>3. Len(u \o f) # 0
  BY <1>1, <1>2
<1>4. (u \o f)[1] = u[1]
  BY <1>1, <1>2
<1>5. u \o f # <<>>
  BY <1>3, EmptySeq
<1>6. Head(u) = u[1] /\ Head(u \o f) = (u \o f)[1]
  <2> DEFINE w == u \o f
  <2>1. w \in Seq(Nat) /\ w # <<>>
    BY <1>2, <1>5
  <2> HIDE DEF w
  <2>2. \A s \in Seq(Nat) : s # <<>> => Head(s) = s[1]
    OBVIOUS
  <2> QED
    BY <2>1, <2>2 DEF w
<1> QED
  BY <1>4, <1>5, <1>6

\* What is left of s after its first p elements
After(s, p) == SubSeq(s, p + 1, Len(s))

LEMMA AfterIs ==
  ASSUME NEW s \in Seq(Nat), NEW p \in Nat
  PROVE  /\ After(s, p) \in Seq(Nat)
         /\ p >= Len(s) => After(s, p) = <<>>
         /\ p = 0 => After(s, p) = s
         /\ p < Len(s) => s[p + 1] \in Nat /\ After(s, p) = <<s[p + 1]>> \o After(s, p + 1)
         /\ p <= Len(s) => /\ SubSeq(s, 1, p) \in Seq(Nat) /\ Len(SubSeq(s, 1, p)) = p
                           /\ SubSeq(s, 1, p) \o After(s, p) = s
<1>1. Len(s) \in Nat
  BY LenProperties
<1>2. After(s, p) \in Seq(Nat)
  <2>1. \A i \in p + 1 .. Len(s) : s[i] \in Nat
    BY <1>1, ElementOfSeq
  <2> QED
    BY <1>1, <2>1, SubSeqProperties DEF After
<1>3. ASSUME p >= Len(s) PROVE After(s, p) = <<>>
  BY <1>1, <1>3, SubSeqEmpty DEF After
<1>4. ASSUME p = 0 PROVE After(s, p) = s
  BY <1>1, <1>4, SubSeqFull DEF After
<1>5. ASSUME p < Len(s) PROVE s[p + 1] \in Nat /\ After(s, p) = <<s[p + 1]>> \o After(s, p + 1)
  <2>1. p + 1 \in 1 .. Len(s) /\ Len(s) \in p + 1 .. Len(s)
    BY <1>1, <1>5
  <2>2. s[p + 1] \in Nat
    BY <2>1, ElementOfSeq
  <2>3. SubSeq(s, p + 1, Len(s)) = <<s[p + 1]>> \o SubSeq(s, (p + 1) + 1, Len(s))
    BY <2>1, SubSeqRecursiveFirst
  <2> QED
    BY <2>2, <2>3 DEF After
<1>6. ASSUME p <= Len(s)
      PROVE  /\ SubSeq(s, 1, p) \in Seq(Nat) /\ Len(SubSeq(s, 1, p)) = p
             /\ SubSeq(s, 1, p) \o After(s, p) = s
  <2>1. \A i \in 1 .. p : s[i] \in Nat
    BY <1>1, <1>6, ElementOfSeq
  <2>2. SubSeq(s, 1, p) \in Seq(Nat) /\ Len(SubSeq(s, 1, p)) = IF 1 <= p THEN p - 1 + 1 ELSE 0
    BY <2>1, SubSeqProperties
  <2>3. Len(SubSeq(s, 1, p)) = p
    BY <2>2
  <2>4. 1 \in 1 .. Len(s) + 1 /\ p \in 1 - 1 .. Len(s) /\ Len(s) \in p .. Len(s)
    BY <1>1, <1>6
  <2>5. SubSeq(s, 1, p) \o SubSeq(s, p + 1, Len(s)) = SubSeq(s, 1, Len(s))
    BY <2>4, ConcatAdjacentSubSeq
  <2>6. SubSeq(s, 1, Len(s)) = s
    BY SubSeqFull
  <2> QED
    BY <2>2, <2>3, <2>5, <2>6 DEF After
<1> QED
  BY <1>2, <1>3, <1>4, <1>5, <1>6

LEMMA AfterElements ==
  ASSUME NEW s \in Seq(Nat), NEW p \in Nat, p <= Len(s)
  PROVE  /\ After(s, p) \in Seq(Nat) /\ Len(After(s, p)) = Len(s) - p
         /\ \A i \in 1 .. Len(s) - p : After(s, p)[i] = s[p + i]
<1>1. Len(s) \in Nat
  BY LenProperties
<1>2. \A i \in p + 1 .. Len(s) : s[i] \in Nat
  BY <1>1, ElementOfSeq
<1>3. /\ After(s, p) \in Seq(Nat)
      /\ Len(After(s, p)) = IF p + 1 <= Len(s) THEN Len(s) - (p + 1) + 1 ELSE 0
      /\ \A i \in 1 .. Len(s) - (p + 1) + 1 : After(s, p)[i] = s[(p + 1) + i - 1]
  BY <1>1, <1>2, SubSeqProperties DEF After
<1>4. Len(After(s, p)) = Len(s) - p /\ Len(s) - (p + 1) + 1 = Len(s) - p
  BY <1>1, <1>3
<1>5. ASSUME NEW i \in 1 .. Len(s) - p PROVE After(s, p)[i] = s[p + i]
  <2>1. (p + 1) + i - 1 = p + i
    BY <1>1
  <2> QED
    BY <1>3, <1>4, <2>1
<1> QED
  BY <1>3, <1>4, <1>5

LEMMA AfterConcat ==
  ASSUME NEW s \in Seq(Nat), NEW t \in Seq(Nat), NEW p \in Nat, p <= Len(s)
  PROVE  After(s \o t, p) = After(s, p) \o t
<1> PICK c : c = s \o t
  OBVIOUS
<1> PICK a : a = After(c, p)
  OBVIOUS
<1> PICK u : u = After(s, p)
  OBVIOUS
<1> PICK b : b = u \o t
  OBVIOUS
<1>1. Len(s) \in Nat /\ Len(t) \in Nat
  BY LenProperties
<1>2. /\ c \in Seq(Nat) /\ Len(c) = Len(s) + Len(t)
      /\ \A i \in 1 .. Len(s) + Len(t) : c[i] = IF i <= Len(s) THEN s[i] ELSE t[i - Len(s)]
  BY ConcatProperties
<1>3. p <= Len(c)
  BY <1>1, <1>2
<1>4. /\ a \in Seq(Nat) /\ Len(a) = Len(c) - p
      /\ \A i \in 1 .. Len(c) - p : a[i] = c[p + i]
  BY <1>2, <1>3, AfterElements
<1>5. /\ u \in Seq(Nat) /\ Len(u) = Len(s) - p
      /\ \A i \in 1 .. Len(s) - p : u[i] = s[p + i]
  BY AfterElements
<1>6. /\ b \in Seq(Nat) /\ Len(b) = Len(u) + Len(t)
      /\ \A i \in 1 .. Len(u) + Len(t) : b[i] = IF i <= Len(u) THEN u[i] ELSE t[i - Len(u)]
  <2>1. u \in Seq(Nat) /\ t \in Seq(Nat) /\ b = u \o t
    BY <1>5
  <2> QED
    BY ONLY <2>1, ConcatProperties
<1>7. Len(a) = Len(b)
  BY <1>1, <1>2, <1>4, <1>5, <1>6
<1>8. ASSUME NEW i \in 1 .. Len(a) PROVE a[i] = b[i]
  <2>1. i \in 1 .. Len(c) - p /\ i \in 1 .. Len(u) + Len(t) /\ p + i \in 1 .. Len(s) + Len(t)
    BY <1>1, <1>2, <1>4, <1>5
  <2>2. CASE i <= Len(u)
    <3>1. i \in 1 .. Len(s) - p /\ p + i <= Len(s)
      BY <1>1, <1>5, <2>1, <2>2
    <3>2. a[i] = s[p + i]
      BY <1>2, <1>4, <2>1, <3>1
    <3>3. b[i] = s[p + i]
      BY <1>5, <1>6, <2>1, <2>2, <3>1
    <3> QED
      BY <3>2, <3>3
  <2>3. CASE i > Len(u)
    <3>1. ~ (p + i <= Len(s)) /\ ~ (i <= Len(u)) /\ (p + i) - Len(s) = i - Len(u)
      BY <1>1, <1>5, <2>1, <2>3
    <3>2. a[i] = t[(p + i) - Len(s)]
      BY <1>2, <1>4, <2>1, <3>1
    <3>3. b[i] = t[i - Len(u)]
      BY <1>6, <2>1, <3>1
    <3> QED
      BY <3>1, <3>2, <3>3
  <2>4. i \in Nat /\ Len(u) \in Nat
    BY <1>1, <1>4, <1>5, LenProperties
  <2>5. i <= Len(u) \/ i > Len(u)
    BY <2>4
  <2> QED
    BY ONLY <2>2, <2>3, <2>5
<1> QED
  BY <1>4, <1>6, <1>7, <1>8, SeqEqual

LEMMA Regrouped ==
  ASSUME NEW u \in Seq(Nat), NEW v \in Seq(Nat), NEW w \in Seq(Nat)
  PROVE  (u \o v) \o w = u \o (v \o w)
BY ConcatAssociative, SMTT(30)

\* A sequence given by its length and its elements.
LEMMA CountingSeq ==
  ASSUME NEW n \in Nat, NEW f \in [1 .. n -> Nat]
  PROVE  f \in Seq(Nat) /\ Len(f) = n
<1>1. f \in Seq(Nat)
  BY SeqDef
<1>2. Len(f) \in Nat /\ DOMAIN f = 1 .. Len(f)
  BY <1>1, LenProperties
<1>3. 1 .. Len(f) = 1 .. n
  BY <1>2
<1> QED
  BY <1>1, <1>2, <1>3

Held(r) == IF r = NoByte THEN 0 ELSE 1

LEMMA RegisterSeq ==
  ASSUME NEW r \in Nat
  PROVE  /\ Register(r) \in Seq(Nat)
         /\ Len(Register(r)) = Held(r)
         /\ r # NoByte => Register(r)[1] = r
<1>1. CASE r = NoByte
  <2>1. Register(r) = <<>> /\ Held(r) = 0
    BY <1>1 DEF Register, Held
  <2>2. <<>> \in Seq(Nat) /\ Len(<<>>) = 0
    BY EmptySeq
  <2> QED
    BY <1>1, <2>1, <2>2, Zenon
<1>2. CASE r # NoByte
  <2>1. Register(r) = <<r>> /\ Held(r) = 1
    BY <1>2 DEF Register, Held
  <2>2. <<r>> \in Seq(Nat) /\ Len(<<r>>) = 1 /\ <<r>>[1] = r
    OBVIOUS
  <2> QED
    BY <2>1, <2>2, Zenon
<1> QED
  BY <1>1, <1>2

\* Appending the next numbers to a sequence that counts.
LEMMA CountOn ==
  ASSUME NEW s \in Seq(Nat), NEW t \in Seq(Nat),
         \A k \in 1 .. Len(s) : s[k] = k,
         \A k \in 1 .. Len(t) : t[k] = Len(s) + k
  PROVE  /\ s \o t \in Seq(Nat)
         /\ Len(s \o t) = Len(s) + Len(t)
         /\ \A k \in 1 .. Len(s \o t) : (s \o t)[k] = k
<1>1. Len(s) \in Nat /\ Len(t) \in Nat
  BY LenProperties
<1>2. /\ s \o t \in Seq(Nat)
      /\ Len(s \o t) = Len(s) + Len(t)
      /\ \A k \in 1 .. Len(s) + Len(t) :
            (s \o t)[k] = IF k <= Len(s) THEN s[k] ELSE t[k - Len(s)]
  BY ConcatProperties
<1> SUFFICES ASSUME NEW k \in 1 .. Len(s) + Len(t)
             PROVE  (s \o t)[k] = k
  BY <1>2
<1>3. CASE k <= Len(s)
  <2>1. k \in 1 .. Len(s) /\ (s \o t)[k] = s[k]
    BY <1>1, <1>2, <1>3
  <2> QED
    BY <2>1
<1>4. CASE ~ (k <= Len(s))
  <2>1. k - Len(s) \in 1 .. Len(t) /\ Len(s) + (k - Len(s)) = k
    BY <1>1, <1>4
  <2>2. (s \o t)[k] = t[k - Len(s)]
    BY <1>2, <1>4
  <2>3. t[k - Len(s)] = Len(s) + (k - Len(s))
    BY <2>1
  <2> QED
    BY <2>1, <2>2, <2>3
<1> QED
  BY <1>3, <1>4

-----------------------------------------------------------------------------
\* Bytes that left a ring, numbered from 1: w on the line, s in the shift
\* register and t in the holding register.
OutOf(w, s, t) == Len(w) + Held(s) + Held(t)

OutInOrder(w, s, t) ==
  /\ \A k \in 1 .. Len(w) : w[k] = k
  /\ s # NoByte => s = Len(w) + 1
  /\ t # NoByte => t = OutOf(w, s, t)

LEMMA HeldType ==
  ASSUME NEW r \in Nat
  PROVE  Held(r) \in 0 .. 1
BY DEF Held, NoByte

LEMMA OutOfType ==
  ASSUME NEW w \in Seq(Nat), NEW s \in Nat, NEW t \in Nat
  PROVE  Len(w) \in Nat /\ OutOf(w, s, t) \in Nat
<1>1. Len(w) \in Nat
  BY LenProperties
<1> QED
  BY <1>1, HeldType DEF OutOf

\* The holding register moves into the shift register.
LEMMA OutLoaded ==
  ASSUME NEW w \in Seq(Nat), NEW t \in Nat, t # NoByte, OutInOrder(w, NoByte, t)
  PROVE  OutInOrder(w, t, NoByte) /\ OutOf(w, t, NoByte) = OutOf(w, NoByte, t)
<1>1. Len(w) \in Nat /\ Held(t) = 1 /\ Held(NoByte) = 0
  BY OutOfType DEF Held
<1>2. OutOf(w, NoByte, t) = Len(w) + 1 /\ OutOf(w, t, NoByte) = Len(w) + 1
  BY <1>1 DEF OutOf
<1> QED
  BY <1>1, <1>2 DEF OutInOrder

\* The byte in the shift register leaves.
LEMMA OutShifted ==
  ASSUME NEW w \in Seq(Nat), NEW s \in Nat, NEW t \in Nat, s # NoByte, OutInOrder(w, s, t)
  PROVE  OutInOrder(Append(w, s), NoByte, t) /\ OutOf(Append(w, s), NoByte, t) = OutOf(w, s, t)
<1> DEFINE v == Append(w, s)
<1>1. /\ Len(w) \in Nat /\ Held(s) = 1 /\ Held(NoByte) = 0 /\ Held(t) \in 0 .. 1
      /\ s = Len(w) + 1
  BY OutOfType, HeldType DEF Held, OutInOrder
<1>2. /\ Len(v) = Len(w) + 1 /\ v[Len(w) + 1] = s
      /\ \A k \in 1 .. Len(w) : v[k] = w[k]
  BY AppendProperties
<1> HIDE DEF v
<1>3. OutOf(v, NoByte, t) = OutOf(w, s, t)
  BY <1>1, <1>2 DEF OutOf
<1>4. \A k \in 1 .. Len(v) : v[k] = k
  BY <1>1, <1>2 DEF OutInOrder
<1>5. OutInOrder(v, NoByte, t)
  BY <1>3, <1>4 DEF OutInOrder
<1> QED
  BY <1>3, <1>5 DEF v

\* A byte handed to the free holding register is the next one.
LEMMA OutTakes ==
  ASSUME NEW w \in Seq(Nat), NEW s \in Nat, OutInOrder(w, s, NoByte),
         NEW n, n = OutOf(w, s, NoByte) + 1
  PROVE  OutInOrder(w, s, n) /\ OutOf(w, s, n) = n
<1>1. /\ Len(w) \in Nat /\ OutOf(w, s, NoByte) \in Nat
      /\ Held(NoByte) = 0 /\ Held(s) \in 0 .. 1
  BY OutOfType, HeldType DEF Held, NoByte
<1>2. Held(n) = 1
  BY <1>1 DEF Held, NoByte
<1>3. OutOf(w, s, n) = n
  BY <1>1, <1>2 DEF OutOf
<1> QED
  BY <1>1, <1>3 DEF OutInOrder

\* What left, what the registers hold and what is in a ring, from its head on,
\* is a sequence that counts, if each cell holds what its place says.
LEMMA OutCounted ==
  ASSUME NEW w \in Seq(Nat), NEW s \in Nat, NEW t \in Nat, OutInOrder(w, s, t),
         NEW r, r.size \in Nat,
         \A i \in 1 .. r.size : r.buf[Ahead(r.head, i - 1)] = OutOf(w, s, t) + i
  PROVE  w \o Register(s) \o Register(t) \o FromHead(r) = [k \in 1 .. OutOf(w, s, t) + r.size |-> k]
<1> DEFINE a == w \o Register(s)
           b == a \o Register(t)
           q == FromHead(r)
           n == OutOf(w, s, t) + r.size
<1>1. w \in Seq(Nat) /\ Len(w) \in Nat /\ t \in Nat /\ s \in Nat /\ OutOf(w, s, t) \in Nat
  BY OutOfType
<1>2. n \in Nat
  BY <1>1
<1>3. /\ a \in Seq(Nat) /\ Len(a) = Len(w) + Held(s)
      /\ \A k \in 1 .. Len(a) : a[k] = k
  <2>1. \A k \in 1 .. Held(s) : Register(s)[k] = Len(w) + k
    BY <1>1, RegisterSeq DEF OutInOrder, Held
  <2>2. /\ Register(s) \in Seq(Nat) /\ Len(Register(s)) = Held(s)
        /\ \A k \in 1 .. Len(w) : w[k] = k
    BY <1>1, RegisterSeq DEF OutInOrder
  <2> QED
    BY <1>1, <2>1, <2>2, CountOn
<1>4. /\ b \in Seq(Nat) /\ Len(b) = OutOf(w, s, t)
      /\ \A k \in 1 .. Len(b) : b[k] = k
  <2> HIDE DEF a
  <2>1. /\ Register(t) \in Seq(Nat) /\ Len(Register(t)) = Held(t)
        /\ t # NoByte => Register(t)[1] = t
    BY <1>1, RegisterSeq
  <2>2. OutOf(w, s, t) = Len(a) + Held(t) /\ Len(a) \in Nat
    BY <1>1, <1>3, HeldType DEF OutOf
  <2>3. \A k \in 1 .. Len(Register(t)) : Register(t)[k] = Len(a) + k
    <3>1. CASE t = NoByte
      BY <2>1, <3>1 DEF Held
    <3>2. CASE t # NoByte
      <4>1. Held(t) = 1 /\ t = Len(a) + 1
        BY <2>2, <3>2 DEF Held, OutInOrder
      <4> QED
        BY <2>1, <3>2, <4>1
    <3> QED
      BY <3>1, <3>2
  <2> QED
    BY <1>3, <2>1, <2>2, <2>3, CountOn
<1>5. q \in Seq(Nat) /\ Len(q) = r.size /\ \A k \in 1 .. r.size : q[k] = OutOf(w, s, t) + k
  <2>1. q \in [1 .. r.size -> Nat]
    BY <1>1 DEF FromHead
  <2>2. q \in Seq(Nat) /\ Len(q) = r.size
    BY <2>1, CountingSeq
  <2> QED
    BY <2>2 DEF FromHead
<1>6. /\ b \o q \in Seq(Nat) /\ Len(b \o q) = n
      /\ \A k \in 1 .. n : (b \o q)[k] = k
  <2>1. n = OutOf(w, s, t) + r.size
    OBVIOUS
  <2> HIDE DEF b, q, n
  <2>2. /\ b \in Seq(Nat) /\ q \in Seq(Nat) /\ Len(b) + Len(q) = n
        /\ \A k \in 1 .. Len(q) : q[k] = Len(b) + k
    BY <1>4, <1>5, <2>1
  <2>3. /\ b \o q \in Seq(Nat) /\ Len(b \o q) = Len(b) + Len(q)
        /\ \A k \in 1 .. Len(b \o q) : (b \o q)[k] = k
    BY <1>4, <2>2, CountOn
  <2> QED
    BY <2>2, <2>3
<1>7. /\ [k \in 1 .. n |-> k] \in Seq(Nat) /\ Len([k \in 1 .. n |-> k]) = n
  <2> HIDE DEF n
  <2>1. [k \in 1 .. n |-> k] \in [1 .. n -> Nat]
    BY <1>2
  <2> QED
    BY <1>2, <2>1, CountingSeq
<1> HIDE DEF b, q, n
<1>8. b \o q = [k \in 1 .. n |-> k]
  <2>1. \A k \in 1 .. n : (b \o q)[k] = [j \in 1 .. n |-> j][k]
    BY <1>6
  <2> QED
    BY <1>6, <1>7, <2>1, SeqEqual
<1> QED
  BY <1>8 DEF b, q, n

-----------------------------------------------------------------------------
\* A ring as a sequence, counted back from its tail

LEMMA BehindType ==
  ASSUME NEW t \in Index, NEW k \in 0 .. Slots
  PROVE  Behind(t, k) \in Index
BY RingAssumption DEF Behind, Index

LEMMA BehindAhead ==
  ASSUME NEW h \in Index, NEW n \in 0 .. Slots
  PROVE  Behind(Ahead(h, n), n) = h
BY RingAssumption DEF Behind, Ahead, Index

LEMMA BehindAdvance ==
  ASSUME NEW t \in Index, NEW k \in Index
  PROVE  Behind(Advance(t), k + 1) = Behind(t, k)
BY RingAssumption DEF Behind, Advance, Index

LEMMA BehindZero ==
  ASSUME NEW t \in Index
  PROVE  Behind(t, 0) = t
BY RingAssumption DEF Behind, Index

LEMMA BehindDistinct ==
  ASSUME NEW t \in Index, NEW k \in Index, k # 0
  PROVE  Behind(t, k) # t
BY RingAssumption DEF Behind, Index

LEMMA UpToTailSeq ==
  ASSUME NEW r \in Ring, r.size <= Slots
  PROVE  /\ UpToTail(r) \in Seq(Nat)
         /\ Len(UpToTail(r)) = r.size
         /\ \A i \in 1 .. r.size : UpToTail(r)[i] = r.buf[Behind(r.tail, r.size + 1 - i)]
<1>1. r.size \in Nat /\ r.tail \in Index /\ r.buf \in [Index -> Nat]
  BY RingAssumption DEF Ring
<1>2. ASSUME NEW i \in 1 .. r.size
      PROVE  r.buf[Behind(r.tail, r.size + 1 - i)] \in Nat
  <2>1. r.size + 1 - i \in 0 .. Slots
    BY <1>1, RingAssumption
  <2> QED
    BY <1>1, <2>1, BehindType
<1>3. UpToTail(r) \in [1 .. r.size -> Nat]
  BY <1>2 DEF UpToTail
<1>4. UpToTail(r) \in Seq(Nat) /\ Len(UpToTail(r)) = r.size
  BY <1>1, <1>3, CountingSeq
<1> QED
  BY <1>4 DEF UpToTail

LEMMA UpToTailAppended ==
  ASSUME NEW r \in Ring, NEW b \in Nat, r.size < Limit, r.size < Slots, r.size + 1 < CountMod
  PROVE  UpToTail(Appended(r, b)) = Append(UpToTail(r), b)
<1> DEFINE q == Appended(r, b)
<1>1. /\ r.size \in Nat /\ r.size < Slots /\ r.tail \in Index /\ r.buf \in [Index -> Nat]
  BY RingAssumption DEF Ring
<1>2. q \in Ring
  BY AppendedType
<1>3. /\ q.size = r.size + 1 /\ q.tail = Advance(r.tail)
      /\ q.buf = [r.buf EXCEPT ![r.tail] = b]
  BY <1>1, RingAssumption
     DEF Appended, HasRoom, CountUp, AdvanceTail, Store, Ring
<1> HIDE DEF q
<1>4. /\ UpToTail(q) \in Seq(Nat) /\ Len(UpToTail(q)) = r.size + 1
      /\ \A i \in 1 .. r.size + 1 : UpToTail(q)[i] = q.buf[Behind(q.tail, r.size + 2 - i)]
  <2>1. q.size <= Slots /\ \A i \in 1 .. q.size : q.size + 1 - i = r.size + 2 - i
    BY <1>1, <1>3, RingAssumption
  <2>2. /\ UpToTail(q) \in Seq(Nat) /\ Len(UpToTail(q)) = q.size
        /\ \A i \in 1 .. q.size : UpToTail(q)[i] = q.buf[Behind(q.tail, q.size + 1 - i)]
    BY <1>2, <2>1, UpToTailSeq
  <2> QED
    BY <1>3, <2>1, <2>2
<1>5. /\ UpToTail(r) \in Seq(Nat) /\ Len(UpToTail(r)) = r.size
      /\ \A i \in 1 .. r.size : UpToTail(r)[i] = r.buf[Behind(r.tail, r.size + 1 - i)]
  BY <1>1, RingAssumption, UpToTailSeq
<1>6. /\ Append(UpToTail(r), b) \in Seq(Nat) /\ Len(Append(UpToTail(r), b)) = r.size + 1
      /\ \A i \in 1 .. r.size : Append(UpToTail(r), b)[i] = UpToTail(r)[i]
      /\ Append(UpToTail(r), b)[r.size + 1] = b
  BY <1>5, AppendProperties
<1>7. ASSUME NEW i \in 1 .. r.size + 1
      PROVE  UpToTail(q)[i] = Append(UpToTail(r), b)[i]
  <2> DEFINE k == r.size + 1 - i
  <2>1. k \in Index /\ r.size + 2 - i = k + 1
    <3>1. Slots \in Nat /\ r.size \in Nat /\ r.size < Slots /\ i \in 1 .. r.size + 1
      BY <1>1, RingAssumption
    <3> QED
      BY ONLY <3>1 DEF Index
  <2>2. Behind(q.tail, r.size + 2 - i) = Behind(r.tail, k)
    BY <1>1, <1>3, <2>1, BehindAdvance
  <2>3. UpToTail(q)[i] = q.buf[Behind(r.tail, k)]
    BY <1>4, <2>2
  <2>4. CASE i = r.size + 1
    <3>1. k = 0
      BY <1>1, <2>4
    <3>2. Behind(r.tail, k) = r.tail
      BY <1>1, <3>1, BehindZero
    <3> QED
      BY <1>1, <1>3, <1>6, <2>3, <2>4, <3>2
  <2>5. CASE i # r.size + 1
    <3>1. i \in 1 .. r.size /\ k # 0
      BY <1>1, <2>5
    <3>2. Behind(r.tail, k) # r.tail
      BY <1>1, <2>1, <3>1, BehindDistinct
    <3>3. Behind(r.tail, k) \in Index
      <4>1. k \in 0 .. Slots
        BY <2>1, RingAssumption DEF Index
      <4> QED
        BY <1>1, <4>1, BehindType
    <3>4. q.buf[Behind(r.tail, k)] = r.buf[Behind(r.tail, k)]
      BY <1>1, <1>3, <3>2, <3>3
    <3> QED
      BY <1>5, <1>6, <2>3, <3>1, <3>4
  <2> QED
    BY <2>4, <2>5
<1> QED
  BY <1>4, <1>6, <1>7, SeqEqual DEF q

LEMMA UpToTailCountDown ==
  ASSUME NEW r \in Ring, r.size > 0, r.size <= Slots
  PROVE  /\ UpToTail(r) # <<>>
         /\ Head(UpToTail(r)) = r.buf[Behind(r.tail, r.size)]
         /\ UpToTail(CountDown(r)) = Tail(UpToTail(r))
<1> DEFINE q == CountDown(r)
<1>1. r.size \in Nat /\ r.tail \in Index /\ r.buf \in [Index -> Nat]
  BY RingAssumption DEF Ring
<1>2. q \in Ring
  BY CountDownType
<1>3. q.size = r.size - 1 /\ q.tail = r.tail /\ q.buf = r.buf
  BY <1>1 DEF CountDown, Ring
<1> HIDE DEF q
<1>4. /\ UpToTail(q) \in Seq(Nat) /\ Len(UpToTail(q)) = r.size - 1
      /\ \A i \in 1 .. r.size - 1 : UpToTail(q)[i] = r.buf[Behind(r.tail, r.size - i)]
  <2>1. q.size <= Slots /\ \A i \in 1 .. q.size : q.size + 1 - i = r.size - i
    BY <1>1, <1>3, RingAssumption
  <2>2. /\ UpToTail(q) \in Seq(Nat) /\ Len(UpToTail(q)) = q.size
        /\ \A i \in 1 .. q.size : UpToTail(q)[i] = q.buf[Behind(q.tail, q.size + 1 - i)]
    BY <1>2, <2>1, UpToTailSeq
  <2> QED
    BY <1>3, <2>1, <2>2
<1>5. /\ UpToTail(r) \in Seq(Nat) /\ Len(UpToTail(r)) = r.size
      /\ \A i \in 1 .. r.size : UpToTail(r)[i] = r.buf[Behind(r.tail, r.size + 1 - i)]
  BY UpToTailSeq
<1>6. UpToTail(r) # <<>>
  BY <1>1, <1>5, EmptySeq
<1>7. /\ Tail(UpToTail(r)) \in Seq(Nat) /\ Len(Tail(UpToTail(r))) = r.size - 1
      /\ \A i \in 1 .. r.size - 1 : Tail(UpToTail(r))[i] = UpToTail(r)[i + 1]
  BY <1>5, <1>6, HeadTailProperties
<1>8. ASSUME NEW i \in 1 .. r.size - 1
      PROVE  UpToTail(q)[i] = Tail(UpToTail(r))[i]
  <2>1. i + 1 \in 1 .. r.size /\ r.size + 1 - (i + 1) = r.size - i
    BY <1>1
  <2> QED
    BY <1>4, <1>5, <1>7, <2>1
<1>9. UpToTail(q) = Tail(UpToTail(r))
  BY <1>4, <1>7, <1>8, SeqEqual
<1>10. Head(UpToTail(r)) = r.buf[Behind(r.tail, r.size)]
  <2>1. 1 \in 1 .. r.size /\ r.size + 1 - 1 = r.size
    BY <1>1
  <2>2. UpToTail(r)[1] = r.buf[Behind(r.tail, r.size)]
    BY <1>5, <2>1
  <2> QED
    BY <1>5, <1>6, <2>2
<1> QED
  BY <1>6, <1>9, <1>10 DEF q

-----------------------------------------------------------------------------
\* A whole sequence appended to a ring.  Induction is by the least
\* counterexample.

LEMMA LeastOne ==
  ASSUME NEW S, S \subseteq Nat, S # {}
  PROVE  \E n \in S : n = 0 \/ (n - 1 \in Nat /\ n - 1 \notin S)
<1>1. S \in SUBSET Nat
  OBVIOUS
<1>2. \E n \in S : \A m \in S : <<m, n>> \notin OpToRel(<, Nat)
  BY <1>1, NatLessThanWellFounded, WFMin
<1>3. \A n, m \in Nat : <<m, n>> \notin OpToRel(<, Nat) => n <= m
  BY DEF OpToRel
<1>4. PICK n \in S : \A m \in S : n <= m
  BY <1>1, <1>2, <1>3
<1>5. n = 0 \/ (n - 1 \in Nat /\ ~ (n <= n - 1))
  OBVIOUS
<1> QED
  BY <1>4, <1>5

\* Induction up to n, for a set.
LEMMA UpTo ==
  ASSUME NEW n \in Nat, NEW S, 0 \in S, \A k \in 0 .. n - 1 : k \in S => k + 1 \in S
  PROVE  n \in S
<1> DEFINE Bad == {k \in 0 .. n : k \notin S}
<1>1. ASSUME Bad # {} PROVE FALSE
  <2>1. Bad \subseteq Nat
    OBVIOUS
  <2>2. PICK k \in Bad : k = 0 \/ (k - 1 \in Nat /\ k - 1 \notin Bad)
    <3> HIDE DEF Bad
    <3> QED
      BY <1>1, <2>1, LeastOne
  <2>3. k \in 0 .. n /\ k \notin S /\ k # 0
    OBVIOUS
  <2>4. k - 1 \in 0 .. n - 1 /\ (k - 1) + 1 = k
    BY <2>3
  <2>5. k - 1 \in S
    BY <2>2, <2>3, <2>4
  <2> QED
    BY <2>3, <2>4, <2>5
<1>2. n \in 0 .. n
  OBVIOUS
<1> QED
  BY <1>1, <1>2

\* after is what the ring is after each of the appends.
Chain(r, s, n, after) ==
  after = [k \in 0 .. n |-> IF k = 0 THEN r ELSE Appended(after[k - 1], s[k])]

LEMMA ChainExists ==
  ASSUME NEW r, NEW s, NEW len \in Nat
  PROVE  \E after : Chain(r, s, len, after)
<1> DEFINE S == {n \in Nat : \E after : Chain(r, s, n, after)}
<1>1. 0 \in S
  <2>1. Chain(r, s, 0, [k \in 0 .. 0 |-> r])
    BY DEF Chain
  <2> QED
    BY <2>1
<1>2. ASSUME NEW m \in 0 .. len - 1, m \in S PROVE m + 1 \in S
  <2>1. PICK after : Chain(r, s, m, after)
    BY <1>2
  <2>2. PICK n \in Nat : n = m + 1 /\ n # 0 /\ n - 1 = m
    OBVIOUS
  <2> DEFINE last == Appended(after[n - 1], s[n])
             more == [k \in 0 .. n |-> IF k = n THEN last ELSE after[k]]
  <2> HIDE DEF last
  <2>3. ASSUME NEW k \in 0 .. n
        PROVE  more[k] = IF k = 0 THEN r ELSE Appended(more[k - 1], s[k])
    <3>1. CASE k = n
      <4>1. more[k] = last /\ more[k - 1] = after[n - 1]
        BY <2>2, <3>1
      <4> QED
        BY <2>2, <3>1, <4>1 DEF last
    <3>2. CASE k # n
      <4>1. k \in 0 .. m /\ more[k] = after[k]
        BY <2>2, <3>2
      <4>2. k # 0 => more[k - 1] = after[k - 1]
        BY <2>2, <4>1
      <4>3. after[k] = IF k = 0 THEN r ELSE Appended(after[k - 1], s[k])
        BY <2>1, <4>1 DEF Chain
      <4> QED
        BY <4>1, <4>2, <4>3
    <3> QED
      BY <3>1, <3>2
  <2>4. more = [k \in 0 .. n |-> more[k]]
    OBVIOUS
  <2> HIDE DEF more
  <2>5. Chain(r, s, n, more)
    BY <2>3, <2>4 DEF Chain
  <2> QED
    BY <2>2, <2>5
<1>3. len \in S
  <2> HIDE DEF S
  <2> QED
    BY <1>1, <1>2, UpTo
<1> QED
  BY <1>3

LEMMA AppendedAllChain ==
  ASSUME NEW r, NEW s \in Seq(Nat)
  PROVE  \E after : Chain(r, s, Len(s), after) /\ AppendedAll(r, s) = after[Len(s)]
<1> DEFINE f0 == CHOOSE f : Chain(r, s, Len(s), f)
<1>1. Len(s) \in Nat
  BY LenProperties
<1>2. Chain(r, s, Len(s), f0)
  BY <1>1, ChainExists
<1>3. AppendedAll(r, s) = f0[Len(s)]
  BY DEF AppendedAll, Chain
<1> QED
  BY <1>2, <1>3

LEMMA AppendedAllType ==
  ASSUME NEW r \in Ring, NEW s \in Seq(Nat)
  PROVE  AppendedAll(r, s) \in Ring
<1>1. Len(s) \in Nat
  BY LenProperties
<1>2. PICK after : Chain(r, s, Len(s), after) /\ AppendedAll(r, s) = after[Len(s)]
  BY AppendedAllChain
<1> DEFINE S == {k \in Nat : after[k] \in Ring}
<1>3. 0 \in S
  BY <1>1, <1>2 DEF Chain
<1>4. ASSUME NEW k \in 0 .. Len(s) - 1, k \in S PROVE k + 1 \in S
  <2>1. k + 1 \in 1 .. Len(s) /\ (k + 1) - 1 = k /\ after[k] \in Ring
    BY <1>1, <1>4
  <2>2. after[k + 1] = Appended(after[k], s[k + 1])
    BY <1>2, <2>1 DEF Chain
  <2>3. s[k + 1] \in Nat
    BY <2>1, ElementOfSeq
  <2> QED
    BY <2>1, <2>2, <2>3, AppendedType
<1>5. Len(s) \in S
  <2> HIDE DEF S
  <2> QED
    BY <1>1, <1>3, <1>4, UpTo
<1> QED
  BY <1>2, <1>5

\* q is r with the first k bytes of s appended.
Grown(r, s, k, q) ==
  /\ q \in Ring /\ q.size = r.size + k /\ q.head = r.head /\ q.tail = Ahead(r.tail, k)
  /\ UpToTail(q) = UpToTail(r) \o SubSeq(s, 1, k)
  /\ \A i \in Index : q.buf[i] = r.buf[i] \/ \E j \in 1 .. k : q.buf[i] = s[j]

LEMMA AppendedIs ==
  ASSUME NEW r \in Ring, NEW b \in Nat, r.size < Limit, r.size < Slots, r.size + 1 < CountMod
  PROVE  /\ Appended(r, b) \in Ring
         /\ Appended(r, b).size = r.size + 1
         /\ Appended(r, b).head = r.head
         /\ Appended(r, b).tail = Advance(r.tail)
         /\ Appended(r, b).buf = [r.buf EXCEPT ![r.tail] = b]
<1>1. r.size \in Nat
  BY RingAssumption DEF Ring
<1> DEFINE x == Store(r, b)
           y == AdvanceTail(x)
           z == CountUp(y)
<1>2. /\ x \in Ring /\ x.size = r.size /\ x.head = r.head /\ x.tail = r.tail
      /\ x.buf = [r.buf EXCEPT ![r.tail] = b]
  BY StoreType DEF Store, Ring
<1>3. Appended(r, b) = z
  BY DEF Appended, HasRoom
<1> HIDE DEF x
<1>4. y \in Ring /\ y.size = x.size /\ y.head = x.head /\ y.tail = Advance(x.tail) /\ y.buf = x.buf
  BY <1>2, AdvanceTailType DEF AdvanceTail, Ring
<1> HIDE DEF y
<1>5. z \in Ring /\ z.size = y.size + 1 /\ z.head = y.head /\ z.tail = y.tail /\ z.buf = y.buf
  <2>1. y.size + 1 # CountMod
    BY <1>1, <1>2, <1>4, RingAssumption
  <2>2. z = [y EXCEPT !.size = y.size + 1]
    BY <2>1 DEF CountUp
  <2> QED
    BY <1>4, <2>2, CountUpType DEF Ring
<1> HIDE DEF z
<1> QED
  BY <1>2, <1>3, <1>4, <1>5

LEMMA GrownStep ==
  ASSUME NEW r \in Ring, NEW s \in Seq(Nat), NEW k \in 0 .. Len(s) - 1, NEW q,
         Slots <= Limit, Slots < CountMod, r.size + Len(s) <= Slots, Grown(r, s, k, q)
  PROVE  Grown(r, s, k + 1, Appended(q, s[k + 1]))
<1> DEFINE p == Appended(q, s[k + 1])
<1>1. /\ Len(s) \in Nat /\ k + 1 \in 1 .. Len(s) /\ r.size \in Nat /\ Slots \in Nat
      /\ Limit \in Nat /\ CountMod \in Nat
  BY LenProperties, RingAssumption DEF Ring
<1>2. s[k + 1] \in Nat
  BY <1>1, ElementOfSeq
<1>3. q \in Ring /\ q.size = r.size + k /\ q.size < Limit /\ q.size < Slots /\ q.size + 1 < CountMod
  <2>1. q \in Ring /\ q.size = r.size + k
    BY DEF Grown
  <2>2. k + 1 \in Nat /\ r.size + (k + 1) <= Slots /\ r.size + (k + 1) = (r.size + k) + 1
    <3>1. /\ k \in 0 .. Len(s) - 1 /\ Len(s) \in Nat /\ r.size \in Nat /\ Slots \in Nat
          /\ r.size + Len(s) <= Slots
      BY <1>1
    <3> QED
      BY ONLY <3>1
  <2>3. r.size + k < Slots /\ (r.size + k) + 1 <= Slots
    BY <1>1, <2>2
  <2> QED
    BY <1>1, <2>1, <2>3
<1>4. /\ p \in Ring /\ p.size = q.size + 1 /\ p.head = q.head /\ p.tail = Advance(q.tail)
      /\ p.buf = [q.buf EXCEPT ![q.tail] = s[k + 1]]
  BY <1>2, <1>3, AppendedIs
<1>5. UpToTail(p) = Append(UpToTail(q), s[k + 1])
  BY <1>2, <1>3, UpToTailAppended
<1> HIDE DEF p
<1>6. p.tail = Ahead(r.tail, k + 1)
  <2>1. k \in Index /\ r.tail \in Index
    BY <1>1 DEF Index, Ring
  <2> QED
    BY <1>4, <2>1, AheadAdvance DEF Grown
<1>7. UpToTail(p) = UpToTail(r) \o SubSeq(s, 1, k + 1)
  <2> DEFINE u == UpToTail(r)
             t == SubSeq(s, 1, k)
             b == s[k + 1]
  <2>1. u \in Seq(Nat)
    BY <1>1, UpToTailSeq
  <2>2. t \in Seq(Nat)
    <3>1. \A i \in 1 .. k : s[i] \in Nat
      BY <1>1, ElementOfSeq
    <3> QED
      BY <3>1, SubSeqProperties
  <2>3. SubSeq(s, 1, k + 1) = t \o <<b>>
    <3>1. 1 \in 1 .. Len(s) /\ k + 1 \in 1 .. Len(s) /\ (k + 1) - 1 = k
      BY <1>1
    <3> QED
      BY <3>1, SubSeqRecursiveSecond
  <2>4. UpToTail(p) = Append(u \o t, b)
    BY <1>5 DEF Grown
  <2> HIDE DEF u, t, b
  <2>5. b \in Nat /\ u \o t \in Seq(Nat) /\ <<b>> \in Seq(Nat)
    BY <1>2, <2>1, <2>2, ConcatProperties DEF b
  <2>6. Append(u \o t, b) = (u \o t) \o <<b>>
    BY <2>5, AppendIsConcat
  <2>7. (u \o t) \o <<b>> = u \o (t \o <<b>>)
    BY <2>1, <2>2, <2>5, Regrouped
  <2> QED
    BY <2>3, <2>4, <2>6, <2>7 DEF u
<1>8. ASSUME NEW i \in Index
      PROVE  p.buf[i] = r.buf[i] \/ \E j \in 1 .. k + 1 : p.buf[i] = s[j]
  <2>1. q.buf \in [Index -> Nat]
    BY <1>3 DEF Ring
  <2>2. p.buf[i] = s[k + 1] \/ p.buf[i] = q.buf[i]
    BY <1>4, <2>1
  <2>3. q.buf[i] = r.buf[i] \/ \E j \in 1 .. k : q.buf[i] = s[j]
    BY DEF Grown
  <2>4. k + 1 \in 1 .. k + 1 /\ \A j \in 1 .. k : j \in 1 .. k + 1
    BY <1>1
  <2> QED
    BY <2>2, <2>3, <2>4
<1>9. p.size = r.size + (k + 1) /\ p.head = r.head
  <2>1. q.size = r.size + k /\ q.head = r.head
    BY DEF Grown
  <2>2. p.size = q.size + 1 /\ p.head = q.head
    BY <1>4
  <2>3. k \in Nat /\ r.size \in Nat
    BY <1>1
  <2>4. \A a, b \in Nat : (a + b) + 1 = a + (b + 1)
    OBVIOUS
  <2> QED
    BY ONLY <2>1, <2>2, <2>3, <2>4
<1>10. Grown(r, s, k + 1, p)
  BY <1>4, <1>6, <1>7, <1>8, <1>9 DEF Grown
<1> QED
  BY <1>10 DEF p

\* As long as it fits, the sequence follows the bytes of the ring.
LEMMA AppendedAllGrown ==
  ASSUME NEW r \in Ring, NEW s \in Seq(Nat),
         Slots <= Limit, Slots < CountMod, r.size + Len(s) <= Slots
  PROVE  Grown(r, s, Len(s), AppendedAll(r, s))
<1>1. Len(s) \in Nat /\ r.size \in Nat /\ r.tail \in Index
  BY LenProperties, RingAssumption DEF Ring
<1>2. PICK after : Chain(r, s, Len(s), after) /\ AppendedAll(r, s) = after[Len(s)]
  BY AppendedAllChain
<1> DEFINE S == {k \in Nat : Grown(r, s, k, after[k])}
<1>3. 0 \in S
  <2>1. after[0] = r
    BY <1>1, <1>2 DEF Chain
  <2>2. UpToTail(r) \in Seq(Nat) /\ SubSeq(s, 1, 0) = <<>>
    <3>1. r.size <= Slots
      BY <1>1, RingAssumption
    <3> QED
      BY <3>1, UpToTailSeq, SubSeqEmpty
  <2>3. UpToTail(r) = UpToTail(r) \o SubSeq(s, 1, 0)
    BY <2>2, ConcatEmptySeq
  <2>4. r.tail = Ahead(r.tail, 0) /\ r.size = r.size + 0
    BY <1>1, AheadZero
  <2>5. Grown(r, s, 0, r)
    BY <2>3, <2>4 DEF Grown
  <2> QED
    BY <2>1, <2>5
<1>4. ASSUME NEW k \in 0 .. Len(s) - 1, k \in S PROVE k + 1 \in S
  <2>1. k \in Nat /\ k + 1 \in 1 .. Len(s) /\ (k + 1) - 1 = k /\ Grown(r, s, k, after[k])
    BY <1>1, <1>4
  <2>2. after[k + 1] = Appended(after[k], s[k + 1])
    BY <1>2, <2>1 DEF Chain
  <2>3. Grown(r, s, k + 1, after[k + 1])
    BY <2>1, <2>2, GrownStep
  <2> QED
    BY <2>1, <2>3
<1>5. Len(s) \in S
  <2> HIDE DEF S
  <2> QED
    BY <1>1, <1>3, <1>4, UpTo
<1> QED
  BY <1>2, <1>5

-----------------------------------------------------------------------------
\* When the pointers agree with the count, the bytes from head on are those up
\* to tail.
LEMMA FromHeadIs ==
  ASSUME NEW r \in Ring, r.size <= Slots, r.tail = Ahead(r.head, r.size)
  PROVE  FromHead(r) = UpToTail(r)
<1>1. r.size \in Nat /\ r.head \in Index
  BY RingAssumption DEF Ring
<1>2. ASSUME NEW i \in 1 .. r.size
      PROVE  r.buf[Ahead(r.head, i - 1)] = r.buf[Behind(r.tail, r.size + 1 - i)]
  <2> DEFINE h == r.head
             n == r.size
  <2>1. h \in Index /\ n \in 0 .. Slots /\ i \in 1 .. n /\ r.tail = Ahead(h, n)
    BY <1>1, RingAssumption
  <2> HIDE DEF h, n
  <2>2. Behind(Ahead(h, n), n + 1 - i) = Ahead(h, i - 1)
    BY ONLY <2>1, RingAssumption DEF Behind, Ahead, Index
  <2> QED
    BY <2>1, <2>2 DEF h, n
<1> QED
  BY <1>2 DEF FromHead, UpToTail

LEMMA RemovedIs ==
  ASSUME NEW r \in Ring, r.size > 0, r.size <= Slots, r.tail = Ahead(r.head, r.size)
  PROVE  /\ Removed(r) \in Ring
         /\ Removed(r).size = r.size - 1
         /\ Removed(r).tail = Ahead(Removed(r).head, Removed(r).size)
         /\ UpToTail(r) # <<>> /\ First(r) = Head(UpToTail(r))
         /\ UpToTail(Removed(r)) = Tail(UpToTail(r))
<1> DEFINE q == AdvanceHead(r)
           p == CountDown(q)
<1>1. r.size \in Nat /\ r.head \in Index /\ r.size - 1 \in Index
  BY RingAssumption DEF Ring, Index
<1>2. Removed(r) = p
  BY DEF Removed
<1>3. /\ q \in Ring /\ q.size = r.size /\ q.tail = r.tail /\ q.buf = r.buf
      /\ q.head = Advance(r.head)
  BY AdvanceHeadType DEF AdvanceHead, Ring
<1>4. UpToTail(q) = UpToTail(r)
  BY <1>3 DEF UpToTail
<1> HIDE DEF q
<1>5. p \in Ring /\ p.size = q.size - 1 /\ p.head = q.head /\ p.tail = q.tail
  <2>1. q.size # 0
    BY <1>1, <1>3
  <2>2. p = [q EXCEPT !.size = q.size - 1]
    BY <2>1 DEF CountDown
  <2> QED
    BY <1>3, <2>2, CountDownType DEF Ring
<1>6. UpToTail(p) = Tail(UpToTail(r))
  BY <1>3, <1>4, UpToTailCountDown
<1> HIDE DEF p
<1>7. p.tail = Ahead(p.head, p.size)
  <2>1. Ahead(Advance(r.head), r.size - 1) = Ahead(r.head, (r.size - 1) + 1)
    BY <1>1, AheadAdvance
  <2>2. (r.size - 1) + 1 = r.size
    BY <1>1
  <2> QED
    BY <1>3, <1>5, <2>1, <2>2
<1>8. UpToTail(r) # <<>> /\ First(r) = Head(UpToTail(r))
  <2>1. Behind(Ahead(r.head, r.size), r.size) = r.head
    BY <1>1, BehindAhead
  <2> QED
    BY <2>1, UpToTailCountDown DEF First
<1> QED
  BY <1>2, <1>3, <1>5, <1>6, <1>7, <1>8

=============================================================================
