------------------------- MODULE UsbSerialRx_proofs -------------------------
(***************************************************************************)
(* Theorems about UsbSerialRx, for rings, buffers and counters of every    *)
(* size, any number of transfers of any length and any calls of read.      *)
(***************************************************************************)
EXTENDS UsbSerialRx, ByteRing_proofs

-----------------------------------------------------------------------------
\* The line the bytes wait in: those returned, the one in the hand of getc,
\* the ring, the rest of the current buffer and the other buffer.

Line(r, h, u, b, l) == (r \o h) \o ((u \o b) \o l)

Parts(r, h, u, b, l) ==
  r \in Seq(Nat) /\ h \in Seq(Nat) /\ u \in Seq(Nat) /\ b \in Seq(Nat) /\ l \in Seq(Nat)

LEMMA LineIs ==
  ASSUME NEW r, NEW h, NEW u, NEW b, NEW l, Parts(r, h, u, b, l)
  PROVE  /\ Line(r, h, u, b, l) \in Seq(Nat)
         /\ Len(Line(r, h, u, b, l)) = Len(r) + Len(h) + Len(u) + Len(b) + Len(l)
         /\ \A v : Occurs(v, Line(r, h, u, b, l))
                     <=> (Occurs(v, r) \/ Occurs(v, h) \/ Occurs(v, u) \/ Occurs(v, b) \/ Occurs(v, l))
<1> DEFINE rh == r \o h
           ub == u \o b
           ubl == ub \o l
<1>1. rh \in Seq(Nat) /\ Len(rh) = Len(r) + Len(h) /\ Len(r) \in Nat /\ Len(h) \in Nat
      /\ \A v : Occurs(v, rh) <=> Occurs(v, r) \/ Occurs(v, h)
  <2>1. r \in Seq(Nat) /\ h \in Seq(Nat)
    BY DEF Parts
  <2> QED
    BY ONLY <2>1, ConcatProperties, LenProperties, OccursConcat
<1>2. ub \in Seq(Nat) /\ Len(ub) = Len(u) + Len(b) /\ Len(u) \in Nat /\ Len(b) \in Nat
      /\ \A v : Occurs(v, ub) <=> Occurs(v, u) \/ Occurs(v, b)
  <2>1. u \in Seq(Nat) /\ b \in Seq(Nat)
    BY DEF Parts
  <2> QED
    BY ONLY <2>1, ConcatProperties, LenProperties, OccursConcat
<1> HIDE DEF rh, ub
<1>3. ubl \in Seq(Nat) /\ Len(ubl) = Len(ub) + Len(l) /\ Len(ub) \in Nat /\ Len(l) \in Nat
      /\ \A v : Occurs(v, ubl) <=> Occurs(v, ub) \/ Occurs(v, l)
  <2>1. ub \in Seq(Nat) /\ l \in Seq(Nat)
    BY <1>2 DEF Parts
  <2> QED
    BY ONLY <2>1, ConcatProperties, LenProperties, OccursConcat
<1> HIDE DEF ubl
<1>4. rh \o ubl \in Seq(Nat) /\ Len(rh \o ubl) = Len(rh) + Len(ubl)
      /\ \A v : Occurs(v, rh \o ubl) <=> Occurs(v, rh) \/ Occurs(v, ubl)
  <2>1. rh \in Seq(Nat) /\ ubl \in Seq(Nat)
    BY <1>1, <1>3
  <2> QED
    BY ONLY <2>1, ConcatProperties, OccursConcat
<1>5. Line(r, h, u, b, l) = rh \o ubl
  BY DEF Line, rh, ub, ubl
<1>6. Len(rh \o ubl) = Len(r) + Len(h) + Len(u) + Len(b) + Len(l)
  BY <1>1, <1>2, <1>3, <1>4
<1> QED
  BY <1>1, <1>2, <1>3, <1>4, <1>5, <1>6

\* Bytes that come in go to the end, into the other buffer or, when everything
\* before is read, into the ring and the current one.
LEMMA LineGrows ==
  ASSUME NEW r, NEW h, NEW u, NEW b, NEW g, Parts(r, h, u, b, g)
  PROVE  Line(r, h, u, b, g) = Line(r, h, u, b, <<>>) \o g
<1> DEFINE rh == r \o h
           ub == u \o b
<1>1. rh \in Seq(Nat) /\ ub \in Seq(Nat) /\ g \in Seq(Nat)
  BY ConcatProperties DEF Parts
<1>2. Line(r, h, u, b, g) = rh \o (ub \o g) /\ Line(r, h, u, b, <<>>) = rh \o (ub \o <<>>)
  BY DEF Line
<1> HIDE DEF rh, ub
<1>3. ub \o <<>> = ub
  BY ONLY <1>1, ConcatEmptySeq
<1>4. (rh \o ub) \o g = rh \o (ub \o g)
  BY ONLY <1>1, Regrouped
<1> QED
  BY <1>2, <1>3, <1>4

LEMMA LineFills ==
  ASSUME NEW r, NEW h, NEW u, NEW f, NEW g, Parts(r, h, u, f, g)
  PROVE  Line(r, h, u \o f, g, <<>>) = Line(r, h, u, <<>>, <<>>) \o (f \o g)
<1> DEFINE rh == r \o h
           fg == f \o g
           uf == u \o f
           ufg == uf \o g
<1>1. u \in Seq(Nat) /\ f \in Seq(Nat) /\ g \in Seq(Nat)
  BY DEF Parts
<1>2. rh \in Seq(Nat) /\ fg \in Seq(Nat) /\ uf \in Seq(Nat)
  BY ConcatProperties DEF Parts
<1>3. ufg = u \o fg
  BY ONLY <1>1, Regrouped
<1>4. Line(r, h, u \o f, g, <<>>) = rh \o (ufg \o <<>>)
      /\ Line(r, h, u, <<>>, <<>>) = rh \o ((u \o <<>>) \o <<>>)
  BY DEF Line
<1> HIDE DEF uf
<1>5. ufg \in Seq(Nat)
  BY ONLY <1>1, <1>2, ConcatProperties
<1> HIDE DEF rh, fg, ufg
<1>6. ufg \o <<>> = ufg /\ u \o <<>> = u
  BY ONLY <1>1, <1>5, ConcatEmptySeq
<1>7. (rh \o u) \o fg = rh \o (u \o fg)
  <2>1. rh \in Seq(Nat) /\ u \in Seq(Nat) /\ fg \in Seq(Nat)
    BY <1>1, <1>2
  <2> QED
    BY ONLY <2>1, Regrouped
<1>8. Line(r, h, u \o f, g, <<>>) = Line(r, h, u, <<>>, <<>>) \o fg
  BY <1>3, <1>4, <1>6, <1>7
<1> QED
  BY <1>8 DEF fg

\* A byte that read returns was the one in the hand, or else the first of the
\* ring.
LEMMA LineReturns ==
  ASSUME NEW r, NEW x \in Nat, NEW u, NEW b, NEW l, Parts(r, <<x>>, u, b, l)
  PROVE  Line(Append(r, x), <<>>, u, b, l) = Line(r, <<x>>, u, b, l)
<1>1. r \in Seq(Nat)
  BY DEF Parts
<1>2. Append(r, x) \in Seq(Nat) /\ Append(r, x) = r \o <<x>>
  BY <1>1, AppendProperties, AppendIsConcat
<1>3. Append(r, x) \o <<>> = r \o <<x>>
  BY <1>2, ConcatEmptySeq
<1> QED
  BY <1>3 DEF Line

LEMMA LineTakes ==
  ASSUME NEW r, NEW u, NEW b, NEW l, Parts(r, <<>>, u, b, l), u # <<>>
  PROVE  Line(Append(r, Head(u)), <<>>, Tail(u), b, l) = Line(r, <<>>, u, b, l)
<1> DEFINE x == Head(u)
           xs == <<x>>
           t == Tail(u)
           tb == t \o b
           tbl == tb \o l
<1>1. r \in Seq(Nat) /\ u \in Seq(Nat) /\ b \in Seq(Nat) /\ l \in Seq(Nat)
  BY DEF Parts
<1>2. x \in Nat /\ t \in Seq(Nat) /\ u = xs \o t
  BY <1>1, FirstAndRest
<1> HIDE DEF x, t
<1>3. Append(r, x) \in Seq(Nat) /\ Append(r, x) = r \o xs /\ xs \in Seq(Nat)
  BY <1>1, <1>2, AppendProperties, AppendIsConcat
<1>4. r \o <<>> = r /\ Append(r, x) \o <<>> = Append(r, x)
  BY ONLY <1>1, <1>3, ConcatEmptySeq
<1> HIDE DEF xs
<1>5. tb \in Seq(Nat) /\ u \o b = xs \o tb
  <2>1. xs \in Seq(Nat) /\ t \in Seq(Nat) /\ b \in Seq(Nat)
    BY <1>1, <1>2, <1>3
  <2>2. tb \in Seq(Nat)
    BY ONLY <2>1, ConcatProperties
  <2>3. (xs \o t) \o b = xs \o tb
    BY ONLY <2>1, Regrouped
  <2> QED
    BY <1>2, <2>2, <2>3
<1> HIDE DEF tb
<1>6. tbl \in Seq(Nat) /\ (xs \o tb) \o l = xs \o tbl
  <2>1. tb \in Seq(Nat) /\ xs \in Seq(Nat) /\ l \in Seq(Nat)
    BY <1>1, <1>3, <1>5
  <2>2. tbl \in Seq(Nat)
    BY ONLY <2>1, ConcatProperties
  <2>3. (xs \o tb) \o l = xs \o tbl
    BY ONLY <2>1, Regrouped
  <2> QED
    BY <2>2, <2>3
<1>7. Line(Append(r, x), <<>>, t, b, l) = (Append(r, x) \o <<>>) \o tbl
      /\ Line(r, <<>>, u, b, l) = (r \o <<>>) \o ((u \o b) \o l)
  BY DEF Line, tb
<1> HIDE DEF tbl
<1>8. (r \o xs) \o tbl = r \o (xs \o tbl)
  <2>1. r \in Seq(Nat) /\ xs \in Seq(Nat) /\ tbl \in Seq(Nat)
    BY <1>1, <1>3, <1>6
  <2> QED
    BY ONLY <2>1, Regrouped
<1>9. Line(Append(r, x), <<>>, t, b, l) = Line(r, <<>>, u, b, l)
  BY <1>3, <1>4, <1>5, <1>6, <1>7, <1>8
<1> QED
  BY <1>9 DEF x, t

\* Buffers that change roles and bytes that move into the ring keep their place.
LEMMA LineMoves ==
  ASSUME NEW r, NEW h, NEW u, NEW f, NEW g, Parts(r, h, u, f, g)
  PROVE  /\ Line(r, h, u, <<>>, g) = Line(r, h, u, g, <<>>)
         /\ Line(r, h, u \o f, g, <<>>) = Line(r, h, u, f \o g, <<>>)
<1>1. u \in Seq(Nat) /\ f \in Seq(Nat) /\ g \in Seq(Nat)
  BY DEF Parts
<1>2. u \o <<>> = u
  BY <1>1, ConcatEmptySeq
<1>3. u \o g \in Seq(Nat)
  BY <1>1, ConcatProperties
<1>4. (u \o g) \o <<>> = u \o g
  BY <1>3, ConcatEmptySeq
<1>5. (u \o f) \o g = u \o (f \o g)
  BY ONLY <1>1, Regrouped
<1> QED
  BY <1>2, <1>4, <1>5 DEF Line

\* getc takes the first byte of the current buffer: it keeps its place if the
\* ring is empty.
LEMMA LineHands ==
  ASSUME NEW r, NEW x \in Nat, NEW u, NEW b, NEW l, Parts(r, <<x>>, u, b, l)
  PROVE  /\ Line(r, <<x>>, <<>>, b, l) = Line(r, <<>>, <<>>, <<x>> \o b, l)
         /\ Len(Line(r, <<x>>, u, b, l)) = Len(Line(r, <<>>, u, <<x>> \o b, l))
         /\ \A v : Occurs(v, Line(r, <<x>>, u, b, l)) <=> Occurs(v, Line(r, <<>>, u, <<x>> \o b, l))
<1> DEFINE xs == <<x>>
           xb == xs \o b
           bl == b \o l
           none == <<>>
<1>1. xs \in Seq(Nat) /\ Len(xs) = 1 /\ r \in Seq(Nat) /\ u \in Seq(Nat) /\ b \in Seq(Nat) /\ l \in Seq(Nat)
  BY DEF Parts
<1>2. none \in Seq(Nat) /\ Len(none) = 0 /\ \A v : ~ Occurs(v, none)
  BY EmptySeq DEF Occurs
<1> HIDE DEF xs
<1>3. xb \in Seq(Nat) /\ Len(xb) = Len(xs) + Len(b) /\ bl \in Seq(Nat)
      /\ \A v : Occurs(v, xb) <=> Occurs(v, xs) \/ Occurs(v, b)
  BY ONLY <1>1, OccursConcat, ConcatProperties
<1>4. xb \o l = xs \o bl
  <2>1. xs \in Seq(Nat) /\ b \in Seq(Nat) /\ l \in Seq(Nat)
    BY <1>1
  <2> QED
    BY ONLY <2>1, Regrouped
<1>5. Line(r, xs, none, b, l) = (r \o xs) \o ((<<>> \o b) \o l)
      /\ Line(r, none, none, xb, l) = (r \o <<>>) \o ((<<>> \o xb) \o l)
  BY DEF Line
<1> HIDE DEF xb
<1>6. <<>> \o b = b /\ <<>> \o xb = xb /\ r \o <<>> = r
  BY ONLY <1>1, <1>3, ConcatEmptySeq
<1>7. Line(r, xs, none, b, l) = (r \o xs) \o bl
  BY <1>5, <1>6
<1> HIDE DEF bl, none
<1>8. (r \o xs) \o bl = r \o (xs \o bl)
  <2>1. r \in Seq(Nat) /\ xs \in Seq(Nat) /\ bl \in Seq(Nat)
    BY <1>1, <1>3
  <2> QED
    BY ONLY <2>1, Regrouped
<1>9. Line(r, xs, none, b, l) = Line(r, none, none, xb, l)
  BY <1>4, <1>5, <1>6, <1>7, <1>8
<1>10. Parts(r, xs, u, b, l) /\ Parts(r, none, u, xb, l)
  BY <1>1, <1>2, <1>3 DEF Parts
<1>11. Len(Line(r, xs, u, b, l)) = Len(Line(r, none, u, xb, l))
  <2>1. Len(Line(r, xs, u, b, l)) = Len(r) + Len(xs) + Len(u) + Len(b) + Len(l)
    BY <1>10, LineIs
  <2>2. Len(Line(r, none, u, xb, l)) = Len(r) + Len(none) + Len(u) + Len(xb) + Len(l)
    BY <1>10, LineIs
  <2>3. Len(r) \in Nat /\ Len(u) \in Nat /\ Len(b) \in Nat /\ Len(l) \in Nat
    BY <1>1, LenProperties
  <2> QED
    BY <1>1, <1>2, <1>3, <2>1, <2>2, <2>3
<1>12. \A v : Occurs(v, Line(r, xs, u, b, l)) <=> Occurs(v, Line(r, none, u, xb, l))
  <2>1. \A v : Occurs(v, Line(r, xs, u, b, l))
          <=> (Occurs(v, r) \/ Occurs(v, xs) \/ Occurs(v, u) \/ Occurs(v, b) \/ Occurs(v, l))
    BY <1>10, LineIs
  <2>2. \A v : Occurs(v, Line(r, none, u, xb, l))
          <=> (Occurs(v, r) \/ Occurs(v, none) \/ Occurs(v, u) \/ Occurs(v, xb) \/ Occurs(v, l))
    BY <1>10, LineIs
  <2> QED
    BY <1>2, <1>3, <2>1, <2>2
<1> QED
  BY <1>9, <1>11, <1>12 DEF xs, xb, none

-----------------------------------------------------------------------------
\* The inductive invariant

Buffers == [0 .. 1 -> Seq(Nat)]

Types == TypeOK /\ buf \in Buffers /\ returned \in Seq(Nat)

\* Between the two halves of rx_buffer_dequeue head is one ahead of the count,
\* and the byte under way is still the first of those before tail.
Pointers ==
  /\ rx.size <= Slots
  /\ pc # "r_count" => rx.tail = Ahead(rx.head, rx.size)
  /\ pc = "r_count" => /\ rx.size > 0
                       /\ rx.tail = Ahead(rx.head, rx.size - 1)
                       /\ byte = Head(UpToTail(rx))
  /\ pc = "r_head" => rx.size > 0

\* The endpoint fills only a buffer that is not read, and it rests while getc
\* changes the buffers.
Transfer ==
  /\ armed => ongoing
  /\ pc \in {"g_notify", "g_run"} => ongoing /\ ~armed
  /\ pc = "g_notify" => pos = 0

Holding == {"g_check", "g_load", "g_store"}

\* What getc saw stays: no interrupt changes the buffer while it has bytes.
Getting ==
  /\ pc \in Holding => Ready
  /\ pc \in {"g_load", "g_store"} => at = pos
  /\ pc = "g_store" => byte = buf[sel][pos + 1]

Rest == After(buf[sel], pos)
Over == IF ongoing THEN <<>> ELSE buf[Other]

InLine == Line(returned, Hand, UpToTail(rx), Rest, Over)

Conserved == Len(InLine) = sent /\ \A v : Occurs(v, InLine) <=> v \in 1 .. sent

InOrder == ~overtaken => \A k \in 1 .. Len(InLine) : InLine[k] = k

\* getc looks past the ring only when the ring is empty.
RingFirst ==
  ~overtaken => /\ pc \in Holding => rx.size = 0
                /\ pc = "r_ready" => rx.size = 0 \/ ~Ready

IInv == Types /\ Pointers /\ Transfer /\ Getting /\ Conserved /\ InOrder /\ RingFirst

LEMMA TypesAre ==
  ASSUME Types
  PROVE  /\ rx \in Ring /\ rx.size \in Nat /\ rx.head \in Index /\ rx.tail \in Index
         /\ sel \in 0 .. 1 /\ Other \in 0 .. 1 /\ pos \in Nat
         /\ buf[sel] \in Seq(Nat) /\ buf[Other] \in Seq(Nat)
         /\ Len(buf[sel]) \in Nat /\ Len(buf[Other]) \in Nat
         /\ Len(buf[sel]) <= BufSize /\ Len(buf[Other]) <= BufSize
         /\ byte \in Nat /\ sent \in Nat /\ BufSize \in Nat
<1>1. rx \in Ring /\ sel \in 0 .. 1 /\ buf \in Buffers /\ BufSize \in Nat
  BY UsbSerialAssumption, RingAssumption DEF Types, TypeOK
<1>2. Other \in 0 .. 1
  BY <1>1 DEF Other
<1>3. buf[sel] \in Seq(Nat) /\ buf[Other] \in Seq(Nat)
  BY <1>1, <1>2 DEF Buffers
<1>4. Len(buf[sel]) \in Nat /\ Len(buf[Other]) \in Nat
  BY <1>3, LenProperties
<1>5. \A b \in 0 .. 1 : Len(buf[b]) <= BufSize
  BY DEF Types, TypeOK
<1>6. sent \in Nat /\ byte \in Nat /\ pos \in Nat
  BY <1>1, UsbSerialAssumption DEF Types, TypeOK
<1>7. rx.size \in Nat /\ rx.head \in Index /\ rx.tail \in Index
  BY <1>1, RingAssumption DEF Ring
<1> QED
  BY <1>1, <1>2, <1>3, <1>4, <1>5, <1>6, <1>7

LEMMA PartsAre ==
  ASSUME Types, Pointers
  PROVE  /\ Parts(returned, Hand, UpToTail(rx), Rest, Over)
         /\ UpToTail(rx) \in Seq(Nat) /\ Len(UpToTail(rx)) = rx.size
         /\ InLine \in Seq(Nat)
<1>1. UpToTail(rx) \in Seq(Nat) /\ Len(UpToTail(rx)) = rx.size
  BY TypesAre, UpToTailSeq DEF Pointers
<1>2. <<>> \in Seq(Nat)
  BY EmptySeq
<1>3. <<byte>> \in Seq(Nat)
  BY TypesAre
<1>4. Hand \in Seq(Nat) /\ Over \in Seq(Nat)
  BY <1>2, <1>3, TypesAre DEF Hand, Over
<1>5. Rest \in Seq(Nat)
  BY TypesAre, AfterIs DEF Rest
<1>6. Parts(returned, Hand, UpToTail(rx), Rest, Over)
  BY <1>1, <1>4, <1>5 DEF Parts, Types
<1> QED
  BY <1>1, <1>6, LineIs DEF InLine

LEMMA Known ==
  ASSUME IInv, NEW v, Occurs(v, UpToTail(rx)) \/ Occurs(v, Rest)
  PROVE  v \in 1 .. sent
<1>1. Occurs(v, InLine)
  BY PartsAre, LineIs DEF IInv, InLine
<1> QED
  BY <1>1 DEF IInv, Conserved

LEMMA InitInv == Init => IInv
<1> SUFFICES ASSUME Init PROVE IInv
  OBVIOUS
<1>1. <<>> \in Seq(Nat) /\ Len(<<>>) = 0
  BY EmptySeq
<1>2. buf \in Buffers /\ \A b \in 0 .. 1 : buf[b] = <<>>
  BY <1>1 DEF Init, Buffers
<1>3. rx \in Ring /\ rx.size = 0 /\ rx.head = 0 /\ rx.tail = 0 /\ 0 \in Index
  BY EmptyRingType, RingAssumption DEF Init, EmptyRing, Index
<1>4. Types
  <2>1. \A b \in 0 .. 1 : Len(buf[b]) <= BufSize
    BY <1>1, <1>2, UsbSerialAssumption
  <2>2. sel \in 0 .. 1 /\ pos \in 0 .. BufSize /\ at \in 0 .. BufSize /\ byte \in 0 .. sent
        /\ sent \in 0 .. MaxSent
    BY UsbSerialAssumption DEF Init, NoByte
  <2> QED
    BY <1>1, <1>2, <1>3, <2>1, <2>2 DEF Init, Types, TypeOK
<1>5. Pointers
  BY <1>3, AheadZero, RingAssumption DEF Init, Pointers
<1>6. InLine = <<>>
  <2>1. UpToTail(rx) = <<>>
    <3>1. UpToTail(rx) \in Seq(Nat) /\ Len(UpToTail(rx)) = 0
      BY <1>3, <1>4, <1>5, PartsAre
    <3> QED
      BY <3>1, EmptySeq
  <2>2. Rest = <<>>
    <3>1. buf[sel] = <<>> /\ pos = 0
      BY <1>2 DEF Init
    <3> QED
      BY <1>1, <3>1, SubSeqEmpty DEF Rest, After
  <2>3. Hand = <<>> /\ Over = <<>> /\ returned = <<>>
    BY DEF Init, Hand, Over
  <2>4. <<>> \o <<>> = <<>>
    BY <1>1, ConcatEmptySeq
  <2> QED
    BY <2>1, <2>2, <2>3, <2>4 DEF InLine, Line
<1>7. Conserved /\ InOrder
  BY <1>1, <1>6 DEF Conserved, InOrder, Occurs, Init
<1> QED
  BY <1>4, <1>5, <1>7 DEF IInv, Transfer, Getting, Holding, RingFirst, Init

-----------------------------------------------------------------------------
\* The steps

LEMMA NotifyKeeps ==
  ASSUME Types, Pointers, NEW s \in Seq(Nat), Notify(s)
  PROVE  /\ pos' \in 0 .. Len(s) /\ pos' = Fits(s)
         /\ rx' \in Ring /\ rx'.size = rx.size + pos' /\ rx'.size <= Slots
         /\ rx'.head = rx.head /\ rx'.tail = Ahead(rx.tail, pos')
         /\ UpToTail(rx') = UpToTail(rx) \o SubSeq(s, 1, pos')
<1> DEFINE n == Fits(s)
           f == SubSeq(s, 1, n)
<1>1. /\ Len(s) \in Nat /\ rx \in Ring /\ rx.size \in Nat /\ rx.size <= Slots
      /\ Limit = Slots /\ Slots \in Nat /\ Slots < CountMod /\ CountMod \in Nat
  BY TypesAre, LenProperties, UsbSerialAssumption, RingAssumption DEF Pointers
<1>2. n \in 0 .. Len(s) /\ rx.size + n <= Slots
  BY <1>1 DEF Fits
<1>3. rx' = AppendedAll(rx, f) /\ pos' = n
  BY DEF Notify, Enqueued
<1> HIDE DEF n
<1>4. n \in Nat /\ n <= Len(s)
  BY <1>1, <1>2
<1>5. f \in Seq(Nat) /\ Len(f) = n
  BY <1>4, AfterIs
<1>6. SubSeq(f, 1, n) = f
  BY <1>5, SubSeqFull
<1> HIDE DEF f
<1>7. Slots <= Limit /\ rx.size + Len(f) <= Slots
  BY <1>1, <1>2, <1>5
<1>8. Grown(rx, f, n, rx')
  BY <1>1, <1>3, <1>5, <1>7, AppendedAllGrown
<1>9. /\ rx' \in Ring /\ rx'.size = rx.size + n /\ rx'.head = rx.head
      /\ rx'.tail = Ahead(rx.tail, n) /\ UpToTail(rx') = UpToTail(rx) \o f
  BY <1>6, <1>8 DEF Grown
<1> QED
  BY <1>2, <1>3, <1>9 DEF n, f

LEMMA PointersGrow ==
  ASSUME Types, Pointers, NEW s \in Seq(Nat), Notify(s), byte' = byte,
         pc' = "r_count" <=> pc = "r_count", pc' = "r_head" => pc = "r_head"
  PROVE  Pointers'
<1>1. /\ rx.size \in Nat /\ rx.size <= Slots /\ Slots \in Nat /\ rx.head \in Index
      /\ UpToTail(rx) \in Seq(Nat)
  BY TypesAre, PartsAre, RingAssumption DEF Pointers
<1>2. /\ pos' \in Nat /\ pos' <= Len(s) /\ rx'.size = rx.size + pos' /\ rx'.size <= Slots
      /\ rx'.head = rx.head /\ rx'.tail = Ahead(rx.tail, pos')
      /\ UpToTail(rx') = UpToTail(rx) \o SubSeq(s, 1, pos')
  BY NotifyKeeps
<1>3. CASE pc = "r_count"
  <2>1. rx.size > 0 /\ rx.tail = Ahead(rx.head, rx.size - 1) /\ byte = Head(UpToTail(rx))
    BY <1>3 DEF Pointers
  <2>2. rx.size - 1 \in 0 .. Slots /\ pos' \in 0 .. Slots /\ (rx.size - 1) + pos' <= Slots
        /\ (rx.size - 1) + pos' = rx'.size - 1 /\ rx'.size > 0
    <3> DEFINE n == rx.size
               k == pos'
    <3>1. n \in Nat /\ n > 0 /\ n <= Slots /\ Slots \in Nat /\ k \in Nat /\ n + k <= Slots
          /\ rx'.size = n + k
      BY <1>1, <1>2, <2>1
    <3> HIDE DEF n, k
    <3>2. n - 1 \in 0 .. Slots /\ k \in 0 .. Slots /\ (n - 1) + k <= Slots
          /\ (n - 1) + k = (n + k) - 1 /\ n + k > 0
      BY ONLY <3>1
    <3> QED
      BY <3>1, <3>2 DEF n, k
  <2>3. Ahead(Ahead(rx.head, rx.size - 1), pos') = Ahead(rx.head, (rx.size - 1) + pos')
    BY <1>1, <2>2, AheadAhead
  <2>4. rx'.tail = Ahead(rx'.head, rx'.size - 1)
    BY <1>2, <2>1, <2>2, <2>3
  <2>5. UpToTail(rx) # <<>>
    BY <1>1, <2>1, PartsAre, EmptySeq
  <2>6. Head(UpToTail(rx')) = Head(UpToTail(rx))
    <3>1. SubSeq(s, 1, pos') \in Seq(Nat)
      BY <1>2, AfterIs
    <3> QED
      BY <1>1, <1>2, <2>5, <3>1, HeadOfConcat
  <2> QED
    BY <1>2, <1>3, <2>1, <2>2, <2>4, <2>6 DEF Pointers
<1>4. CASE pc # "r_count"
  <2>1. rx.tail = Ahead(rx.head, rx.size)
    BY <1>4 DEF Pointers
  <2>2. rx.size \in 0 .. Slots /\ pos' \in 0 .. Slots /\ rx.size + pos' <= Slots
    BY <1>1, <1>2
  <2>3. Ahead(Ahead(rx.head, rx.size), pos') = Ahead(rx.head, rx.size + pos')
    BY <1>1, <2>2, AheadAhead
  <2>4. rx'.tail = Ahead(rx'.head, rx'.size)
    BY <1>2, <2>1, <2>3
  <2>5. pc' = "r_head" => rx'.size > 0
    BY <1>1, <1>2, <2>2 DEF Pointers
  <2> QED
    BY <1>2, <1>4, <2>4, <2>5 DEF Pointers
<1> QED
  BY <1>3, <1>4

LEMMA SameLine ==
  ASSUME Conserved, InOrder, InLine' = InLine, sent' = sent, overtaken' = overtaken
  PROVE  Conserved' /\ InOrder'
BY DEF Conserved, InOrder

\* Steps that change nothing but where the foreground is.
LEMMA LookKeeps ==
  ASSUME IInv, CallRead \/ ReadTest \/ ReadReady
  PROVE  IInv'
<1>1. UNCHANGED <<rx, buf, sel, pos, ongoing, armed, at, byte, sent, returned, overtaken>>
  BY DEF CallRead, ReadTest, ReadReady, Look, cdc, local, history
<1>2. \/ pc = "idle" /\ pc' = "r_test"
      \/ pc = "r_test" /\ pc' = (IF rx.size > 0 THEN "r_head" ELSE "r_ready")
      \/ pc = "r_ready" /\ pc' = (IF Ready THEN "g_check" ELSE "idle")
  BY DEF CallRead, ReadTest, ReadReady, Look, Goto
<1>3. rx.size \in Nat
  BY TypesAre DEF IInv
<1>4. Types'
  BY <1>1, <1>2 DEF IInv, Types, TypeOK, Buffers
<1>5. Pointers'
  BY <1>1, <1>2, <1>3 DEF IInv, Pointers
<1>6. Transfer' /\ Getting' /\ RingFirst'
  <2>1. Ready' = Ready
    BY <1>1 DEF Ready
  <2>2. pc' \in Holding => Ready /\ pc = "r_ready" /\ pc' = "g_check"
    BY <1>2 DEF Holding
  <2>3. pc' = "r_ready" => rx.size = 0
    BY <1>2, <1>3
  <2> QED
    BY <1>1, <1>2, <2>1, <2>2, <2>3 DEF IInv, Transfer, Getting, RingFirst
<1>7. Conserved' /\ InOrder'
  <2>1. Hand' = Hand
    BY <1>1, <1>2 DEF Hand
  <2>2. InLine' = InLine
    BY <1>1, <2>1 DEF InLine, Rest, Over, Other, UpToTail
  <2> QED
    BY <1>1, <2>2, SameLine DEF IInv
<1> QED
  BY <1>4, <1>5, <1>6, <1>7 DEF IInv

LEMMA FreshIs ==
  ASSUME NEW n \in Nat, sent \in Nat
  PROVE  Fresh(n) \in Seq(Nat) /\ Len(Fresh(n)) = n /\ \A k \in 1 .. n : Fresh(n)[k] = sent + k
<1>1. Fresh(n) \in [1 .. n -> Nat] /\ \A k \in 1 .. n : Fresh(n)[k] = sent + k
  BY DEF Fresh
<1> QED
  BY <1>1, CountingSeq

\* A line that the next n bytes follow.
LEMMA LongerLine ==
  ASSUME IInv, NEW n \in Nat, sent' = sent + n, InLine' = InLine \o Fresh(n),
         overtaken => overtaken'
  PROVE  Conserved' /\ InOrder'
<1> DEFINE f == Fresh(n)
           line == InLine
<1>1. sent \in Nat /\ line \in Seq(Nat) /\ Len(line) = sent
  BY TypesAre, PartsAre DEF IInv, Conserved
<1>2. f \in Seq(Nat) /\ Len(f) = n /\ \A k \in 1 .. n : f[k] = sent + k
  BY <1>1, FreshIs
<1>3. (\A v : Occurs(v, line) <=> v \in 1 .. sent) /\ (~ overtaken => \A k \in 1 .. Len(line) : line[k] = k)
  BY DEF IInv, Conserved, InOrder
<1>4. InLine' = line \o f
  OBVIOUS
<1> HIDE DEF f, line
<1>5. Len(line \o f) = sent + n
  BY <1>1, <1>2, ConcatProperties
<1>6. ASSUME NEW v PROVE Occurs(v, line \o f) <=> v \in 1 .. sent + n
  <2>1. Occurs(v, line \o f) <=> Occurs(v, line) \/ Occurs(v, f)
    BY <1>1, <1>2, OccursConcat
  <2>2. Occurs(v, f) <=> v \in sent + 1 .. sent + n
    <3>1. ASSUME v \in sent + 1 .. sent + n PROVE Occurs(v, f)
      <4>1. v - sent \in 1 .. n /\ f[v - sent] = v
        BY <1>1, <1>2, <3>1
      <4> QED
        BY <1>2, <4>1 DEF Occurs
    <3>2. ASSUME NEW k \in 1 .. n PROVE f[k] \in sent + 1 .. sent + n
      BY <1>1, <1>2
    <3> QED
      BY <1>2, <3>1, <3>2 DEF Occurs
  <2>3. v \in 1 .. sent + n <=> v \in 1 .. sent \/ v \in sent + 1 .. sent + n
    BY <1>1
  <2> QED
    BY <1>3, <2>1, <2>2, <2>3
<1>7. ASSUME ~ overtaken PROVE \A k \in 1 .. Len(line \o f) : (line \o f)[k] = k
  <2>1. \A k \in 1 .. Len(f) : f[k] = Len(line) + k
    BY <1>1, <1>2
  <2> QED
    BY <1>1, <1>2, <1>3, <1>7, <2>1, CountOn
<1>8. Conserved'
  BY <1>4, <1>5, <1>6 DEF Conserved
<1>9. InOrder'
  BY <1>4, <1>7 DEF InOrder
<1> QED
  BY <1>8, <1>9

\* Everything before is read: the other buffer becomes the current one at once.
LEMMA ReceivedSwaps ==
  ASSUME IInv, NEW n \in 1 .. BufSize, NEW filled, filled = [buf EXCEPT ![Other] = Fresh(n)],
         armed, sent + n <= MaxSent, sent' = sent + n, buf' = filled,
         MaySwap(FALSE, pos, filled), sel' = Other, Notify(Fresh(n)),
         overtaken' = (overtaken \/ (pc = "r_ready" /\ Fits(Fresh(n)) < n)),
         UNCHANGED <<ongoing, armed, pc, at, byte, returned>>
  PROVE  IInv'
<1> DEFINE f == Fresh(n)
           f1 == SubSeq(f, 1, pos')
<1>1. /\ Types /\ Pointers /\ Transfer /\ Getting
      /\ n \in Nat /\ sent \in Nat /\ sel \in 0 .. 1 /\ Other \in 0 .. 1 /\ buf \in Buffers
  BY TypesAre DEF IInv, Types
<1>2. f \in Seq(Nat) /\ Len(f) = n
  BY <1>1, FreshIs
<1>3. Notify(f) /\ filled = [buf EXCEPT ![Other] = f] /\ (Fits(f) < n <=> pos' < n)
  BY <1>1, <1>2, NotifyKeeps
<1>4. overtaken' = (overtaken \/ (pc = "r_ready" /\ pos' < n))
  BY <1>3
<1> HIDE DEF f
<1>5. /\ pos' \in Nat /\ pos' <= n /\ rx' \in Ring /\ rx'.size = rx.size + pos'
      /\ UpToTail(rx') = UpToTail(rx) \o f1
  <2>1. /\ pos' \in 0 .. Len(f) /\ rx' \in Ring /\ rx'.size = rx.size + pos'
        /\ UpToTail(rx') = UpToTail(rx) \o SubSeq(f, 1, pos')
    BY <1>1, <1>2, <1>3, NotifyKeeps
  <2>2. pos' \in Nat /\ pos' <= n
    BY <1>1, <1>2, <2>1
  <2> QED
    BY <2>1, <2>2
<1>6. /\ Other # sel /\ filled \in Buffers /\ filled[Other] = f /\ filled[sel] = buf[sel]
      /\ \A b \in 0 .. 1 : filled[b] = f \/ filled[b] = buf[b]
  BY <1>1, <1>2, <1>3 DEF Other, Buffers
<1>7. ~ Ready /\ pos >= Len(buf[sel])
  <2>1. pos >= Len(buf[sel])
    BY <1>6 DEF MaySwap
  <2> QED
    BY <1>1, <2>1, TypesAre DEF Ready
<1>8. pc \notin Holding /\ ongoing /\ pc \notin {"g_notify", "g_run"}
  BY <1>1, <1>7 DEF Getting, Transfer
<1>9. Types'
  <2>1. \A b \in 0 .. 1 : Len(buf'[b]) <= BufSize
    <3>1. \A b \in 0 .. 1 : Len(buf[b]) <= BufSize
      BY <1>1 DEF Types, TypeOK
    <3>2. Len(f) <= BufSize
      BY <1>2
    <3> QED
      BY <1>6, <3>1, <3>2
  <2>2. /\ pos' \in 0 .. BufSize /\ sel' \in 0 .. 1 /\ sent' \in 0 .. MaxSent /\ byte' \in 0 .. sent'
        /\ at' \in 0 .. BufSize
    BY <1>1, <1>5, UsbSerialAssumption, RingAssumption DEF Types, TypeOK
  <2>3. overtaken' \in BOOLEAN /\ ongoing' \in BOOLEAN /\ armed' \in BOOLEAN
    BY <1>1, <1>4 DEF Types, TypeOK
  <2>4. pc' \in {"idle", "r_test", "r_head", "r_count", "r_ready",
                 "g_check", "g_load", "g_store", "g_start", "g_notify", "g_run"}
    BY <1>1 DEF Types, TypeOK
  <2> QED
    BY <1>1, <1>5, <1>6, <2>1, <2>2, <2>3, <2>4 DEF Types, TypeOK
<1>10. Pointers'
  BY <1>1, <1>2, <1>3, PointersGrow
<1>11. Transfer' /\ Getting'
  BY <1>1, <1>8 DEF Transfer, Getting, Holding
<1>12. RingFirst'
  <2>1. Ready' <=> pos' < n
    BY <1>2, <1>6 DEF Ready
  <2> QED
    BY <1>4, <1>8, <2>1 DEF RingFirst
<1>13. Conserved' /\ InOrder'
  <2> DEFINE u == UpToTail(rx)
             g == After(f, pos')
  <2>1. f1 \in Seq(Nat) /\ g \in Seq(Nat) /\ f1 \o g = f
    BY <1>2, <1>5, AfterIs
  <2>2. Parts(returned, Hand, u, Rest, Over)
    BY <1>1, PartsAre
  <2>3. Rest = <<>> /\ Over = <<>>
    <3>1. buf[sel] \in Seq(Nat) /\ pos \in Nat
      BY <1>1, TypesAre
    <3> QED
      BY <1>7, <1>8, <3>1, AfterIs DEF Rest, Over
  <2>4. Hand' = Hand /\ Rest' = g /\ Over' = <<>> /\ UpToTail(rx') = u \o f1
    BY <1>5, <1>6, <1>8 DEF Hand, Rest, Over
  <2>5. InLine' = Line(returned, Hand, u \o f1, g, <<>>)
    BY <2>4 DEF InLine
  <2>6. InLine = Line(returned, Hand, u, <<>>, <<>>)
    BY <2>3 DEF InLine
  <2> HIDE DEF u, g, f1
  <2>7. Parts(returned, Hand, u, f1, g)
    BY <2>1, <2>2 DEF Parts
  <2>8. InLine' = InLine \o f
    <3>1. Line(returned, Hand, u \o f1, g, <<>>) = Line(returned, Hand, u, <<>>, <<>>) \o (f1 \o g)
      BY ONLY <2>7, LineFills
    <3> QED
      BY <2>1, <2>5, <2>6, <3>1
  <2>9. InLine' = InLine \o Fresh(n) /\ (overtaken => overtaken')
    BY <1>4, <2>8 DEF f
  <2> QED
    BY <1>1, <2>9, LongerLine
<1> QED
  BY <1>9, <1>10, <1>11, <1>12, <1>13 DEF IInv

\* The current buffer still has bytes: the other one waits.
LEMMA ReceivedWaits ==
  ASSUME IInv, NEW n \in 1 .. BufSize, NEW filled, filled = [buf EXCEPT ![Other] = Fresh(n)],
         armed, sent + n <= MaxSent, sent' = sent + n, buf' = filled,
         ongoing' = FALSE, armed' = FALSE,
         UNCHANGED <<sel, pos, rx, overtaken, pc, at, byte, returned>>
  PROVE  IInv'
<1> DEFINE f == Fresh(n)
<1>1. /\ Types /\ Pointers /\ Transfer /\ Getting
      /\ n \in Nat /\ sent \in Nat /\ sel \in 0 .. 1 /\ Other \in 0 .. 1 /\ buf \in Buffers
  BY TypesAre DEF IInv, Types
<1>2. f \in Seq(Nat) /\ Len(f) = n
  BY <1>1, FreshIs
<1>3. filled = [buf EXCEPT ![Other] = f]
  OBVIOUS
<1> HIDE DEF f
<1>4. /\ Other # sel /\ filled \in Buffers /\ filled[Other] = f /\ filled[sel] = buf[sel]
      /\ \A b \in 0 .. 1 : filled[b] = f \/ filled[b] = buf[b]
  BY <1>1, <1>2, <1>3 DEF Other, Buffers
<1>5. ongoing /\ pc \notin {"g_notify", "g_run"}
  BY <1>1 DEF Transfer
<1>6. buf'[sel'] = buf[sel] /\ Ready' = Ready /\ Other' = Other
  BY <1>4 DEF Ready, Other
<1>7. Types'
  <2>1. \A b \in 0 .. 1 : Len(buf'[b]) <= BufSize
    <3>1. \A b \in 0 .. 1 : Len(buf[b]) <= BufSize
      BY <1>1 DEF Types, TypeOK
    <3>2. Len(f) <= BufSize
      BY <1>2
    <3> QED
      BY <1>4, <3>1, <3>2
  <2>2. sent' \in 0 .. MaxSent /\ byte' \in 0 .. sent'
    BY <1>1, UsbSerialAssumption DEF Types, TypeOK
  <2> QED
    BY <1>1, <1>4, <2>1, <2>2 DEF Types, TypeOK
<1>8. Pointers'
  BY <1>1 DEF Pointers
<1>9. Transfer' /\ Getting' /\ RingFirst'
  BY <1>1, <1>5, <1>6 DEF IInv, Transfer, Getting, RingFirst
<1>10. Conserved' /\ InOrder'
  <2> DEFINE u == UpToTail(rx)
             b == Rest
  <2>1. Parts(returned, Hand, u, b, f)
    BY <1>1, <1>2, PartsAre DEF Parts
  <2>2. Over = <<>> /\ Over' = f /\ Hand' = Hand /\ Rest' = b
    BY <1>4, <1>5, <1>6 DEF Over, Hand, Rest
  <2>3. InLine' = Line(returned, Hand, u, b, f) /\ InLine = Line(returned, Hand, u, b, <<>>)
    BY <2>2 DEF InLine
  <2> HIDE DEF u, b
  <2>4. InLine' = InLine \o f
    BY <2>1, <2>3, LineGrows
  <2>5. InLine' = InLine \o Fresh(n) /\ (overtaken => overtaken')
    BY <2>4 DEF f
  <2> QED
    BY <1>1, <2>5, LongerLine
<1> QED
  BY <1>7, <1>8, <1>9, <1>10 DEF IInv

LEMMA ReceivedKeeps ==
  ASSUME IInv, Received
  PROVE  IInv'
<1> PICK n \in 1 .. BufSize :
      LET filled == [buf EXCEPT ![Other] = Fresh(n)] IN
      /\ armed
      /\ sent + n <= MaxSent
      /\ sent' = sent + n
      /\ buf' = filled
      /\ IF MaySwap(FALSE, pos, filled)
         THEN /\ sel' = Other
              /\ Notify(Fresh(n))
              /\ overtaken' = (overtaken \/ (pc = "r_ready" /\ Fits(Fresh(n)) < n))
              /\ UNCHANGED <<ongoing, armed>>
         ELSE /\ ongoing' = FALSE
              /\ armed' = FALSE
              /\ UNCHANGED <<sel, pos, rx, overtaken>>
      /\ UNCHANGED <<pc, local, returned>>
  BY DEF Received
<1> DEFINE filled == [buf EXCEPT ![Other] = Fresh(n)]
<1>1. UNCHANGED <<at, byte>>
  BY DEF local
<1>2. CASE MaySwap(FALSE, pos, filled)
  BY <1>1, <1>2, ReceivedSwaps
<1>3. CASE ~ MaySwap(FALSE, pos, filled)
  BY <1>1, <1>3, ReceivedWaits
<1> QED
  BY <1>2, <1>3

\* The first half of rx_buffer_dequeue
LEMMA ReadHeadKeeps ==
  ASSUME IInv, ReadHead
  PROVE  IInv'
<1> DEFINE u == UpToTail(rx)
<1>1. /\ Types /\ Pointers /\ rx \in Ring /\ rx.size \in Nat /\ rx.size <= Slots
      /\ rx.head \in Index /\ Slots \in Nat
  BY TypesAre, RingAssumption DEF IInv, Pointers
<1>2. /\ pc = "r_head" /\ pc' = "r_count" /\ byte' = First(rx) /\ rx' = AdvanceHead(rx)
      /\ UNCHANGED <<buf, sel, pos, ongoing, armed, at, sent, returned, overtaken>>
  BY DEF ReadHead, Goto, cdc, history
<1>3. /\ rx' \in Ring /\ rx'.size = rx.size /\ rx'.tail = rx.tail /\ rx'.buf = rx.buf
      /\ rx'.head = Advance(rx.head)
  BY <1>1, <1>2, AdvanceHeadType DEF AdvanceHead, Ring
<1>4. rx.size > 0 /\ rx.tail = Ahead(rx.head, rx.size)
  BY <1>1, <1>2 DEF Pointers
<1>5. UpToTail(rx') = u
  BY <1>3 DEF UpToTail
<1>6. u \in Seq(Nat) /\ u # <<>> /\ byte' = Head(u)
  <2>1. Behind(Ahead(rx.head, rx.size), rx.size) = rx.head
    BY <1>1, BehindAhead
  <2>2. u # <<>> /\ Head(u) = rx.buf[Behind(rx.tail, rx.size)]
    BY <1>1, <1>4, UpToTailCountDown
  <2> QED
    BY <1>1, <1>2, <1>4, <2>1, <2>2, PartsAre DEF First
<1> HIDE DEF u
<1>7. byte' \in 1 .. sent
  <2>1. Occurs(Head(u), u)
    <3>1. Len(u) \in Nat \ {0} /\ Head(u) = u[1]
      BY <1>6, EmptySeq
    <3>2. 1 \in 1 .. Len(u)
      BY <3>1
    <3> QED
      BY <3>1, <3>2 DEF Occurs
  <2> QED
    BY <1>6, <2>1, Known DEF u
<1>8. Types'
  <2>1. byte' \in 0 .. sent'
    BY <1>2, <1>7
  <2> QED
    BY <1>1, <1>2, <1>3, <2>1 DEF Types, TypeOK
<1>9. Pointers'
  <2>1. rx.size - 1 \in Index
    BY <1>1, <1>4 DEF Index
  <2>2. Ahead(Advance(rx.head), rx.size - 1) = Ahead(rx.head, (rx.size - 1) + 1)
    BY <1>1, <2>1, AheadAdvance
  <2>3. (rx.size - 1) + 1 = rx.size
    BY <1>1
  <2>4. rx'.tail = Ahead(rx'.head, rx'.size - 1)
    BY <1>3, <1>4, <2>2, <2>3
  <2>5. byte' = Head(UpToTail(rx'))
    BY <1>5, <1>6
  <2> QED
    BY <1>1, <1>2, <1>3, <1>4, <2>4, <2>5 DEF Pointers
<1>10. Transfer' /\ Getting' /\ RingFirst'
  <2>1. pc' \notin Holding
    BY <1>2 DEF Holding
  <2> QED
    BY <1>2, <1>3, <2>1 DEF IInv, Transfer, Getting, RingFirst, Holding
<1>11. Conserved' /\ InOrder'
  <2>1. Hand' = Hand
    BY <1>2 DEF Hand
  <2>2. InLine' = InLine
    BY <1>2, <1>5, <2>1 DEF InLine, Rest, Over, Other, u
  <2> QED
    BY <1>2, <2>2, SameLine DEF IInv
<1> QED
  BY <1>8, <1>9, <1>10, <1>11 DEF IInv

\* The second half: the byte is out of the ring.
LEMMA ReadCountKeeps ==
  ASSUME IInv, ReadCount
  PROVE  IInv'
<1> DEFINE u == UpToTail(rx)
<1>1. /\ Types /\ Pointers /\ rx \in Ring /\ rx.size \in Nat /\ rx.size <= Slots /\ byte \in Nat
      /\ returned \in Seq(Nat)
  BY TypesAre DEF IInv, Pointers, Types
<1>2. /\ pc = "r_count" /\ pc' = "idle" /\ rx' = CountDown(rx) /\ returned' = Append(returned, byte)
      /\ UNCHANGED <<buf, sel, pos, ongoing, armed, at, byte, sent, overtaken>>
  BY DEF ReadCount, Goto, Return, cdc, local
<1>3. rx.size > 0 /\ rx.tail = Ahead(rx.head, rx.size - 1) /\ byte = Head(u)
  BY <1>1, <1>2 DEF Pointers
<1>4. /\ rx' \in Ring /\ rx'.size = rx.size - 1 /\ rx'.tail = rx.tail /\ rx'.head = rx.head
  <2>1. rx' \in Ring
    BY <1>1, <1>2, CountDownType
  <2>2. rx' = [rx EXCEPT !.size = rx.size - 1]
    BY <1>1, <1>2, <1>3 DEF CountDown
  <2> QED
    BY <1>1, <2>1, <2>2 DEF Ring
<1>5. u # <<>> /\ UpToTail(rx') = Tail(u)
  BY <1>1, <1>2, <1>3, UpToTailCountDown
<1>6. Types'
  <2>1. returned' \in Seq(Nat)
    BY <1>1, <1>2, AppendProperties
  <2> QED
    BY <1>1, <1>2, <1>4, <2>1 DEF Types, TypeOK
<1>7. Pointers'
  <2>1. rx.size - 1 <= Slots
    BY <1>1, RingAssumption
  <2> QED
    BY <1>2, <1>3, <1>4, <2>1 DEF Pointers
<1>8. Transfer' /\ Getting' /\ RingFirst'
  BY <1>2 DEF IInv, Transfer, Getting, RingFirst, Holding
<1>9. Conserved' /\ InOrder'
  <2>1. Parts(returned, Hand, u, Rest, Over)
    BY <1>1, PartsAre
  <2>2. Hand = <<>> /\ Hand' = <<>> /\ Rest' = Rest /\ Over' = Over
    BY <1>2 DEF Hand, Rest, Over, Other
  <2>3. InLine' = Line(Append(returned, byte), <<>>, Tail(u), Rest, Over)
    BY <1>2, <1>5, <2>2 DEF InLine
  <2>4. InLine = Line(returned, <<>>, u, Rest, Over)
    BY <2>2 DEF InLine
  <2> HIDE DEF u
  <2>5. Line(Append(returned, Head(u)), <<>>, Tail(u), Rest, Over) = Line(returned, <<>>, u, Rest, Over)
    BY <1>5, <2>1, <2>2, LineTakes
  <2>6. InLine' = InLine
    BY <1>3, <2>3, <2>4, <2>5 DEF u
  <2> QED
    BY <1>2, <2>6, SameLine DEF IInv
<1> QED
  BY <1>6, <1>7, <1>8, <1>9 DEF IInv

LEMMA GetCheckKeeps ==
  ASSUME IInv, GetCheck
  PROVE  IInv'
<1>1. /\ Ready /\ pc = "g_check" /\ pc' = "g_load" /\ at' = pos
      /\ UNCHANGED <<rx, buf, sel, pos, ongoing, armed, byte, sent, returned, overtaken>>
  BY DEF GetCheck, Goto, cdc, history
<1>2. Types'
  BY <1>1 DEF IInv, Types, TypeOK
<1>3. Pointers' /\ Transfer'
  BY <1>1 DEF IInv, Pointers, Transfer
<1>4. Getting' /\ RingFirst'
  <2>1. Ready' = Ready
    BY <1>1 DEF Ready
  <2> QED
    BY <1>1, <2>1 DEF IInv, Getting, RingFirst, Holding
<1>5. Conserved' /\ InOrder'
  <2>1. Hand' = Hand
    BY <1>1 DEF Hand
  <2>2. InLine' = InLine
    BY <1>1, <2>1 DEF InLine, Rest, Over, Other
  <2> QED
    BY <1>1, <2>2, SameLine DEF IInv
<1> QED
  BY <1>2, <1>3, <1>4, <1>5 DEF IInv

\* The first byte of the rest of the current buffer
LEMMA NextByte ==
  ASSUME IInv, Ready
  PROVE  /\ buf[sel][pos + 1] \in 1 .. sent
         /\ pos + 1 <= Len(buf[sel])
         /\ Rest = <<buf[sel][pos + 1]>> \o After(buf[sel], pos + 1)
<1> DEFINE s == buf[sel]
           x == s[pos + 1]
<1>1. s \in Seq(Nat) /\ Len(s) \in Nat /\ pos \in Nat /\ pos < Len(s)
  BY TypesAre DEF IInv, Ready
<1>2. x \in Nat /\ Rest = <<x>> \o After(s, pos + 1)
  BY <1>1, AfterIs DEF Rest
<1> HIDE DEF s, x
<1>3. After(s, pos + 1) \in Seq(Nat)
  <2>1. pos + 1 \in Nat
    BY <1>1
  <2> QED
    BY <1>1, <2>1, AfterIs
<1>4. Occurs(x, <<x>> \o After(s, pos + 1))
  <2> DEFINE xs == <<x>>
  <2>1. xs \in Seq(Nat) /\ Occurs(x, xs)
    BY <1>2 DEF Occurs
  <2> HIDE DEF xs
  <2>2. Occurs(x, xs \o After(s, pos + 1))
    BY <1>3, <2>1, OccursConcat
  <2> QED
    BY <2>2 DEF xs
<1>5. x \in 1 .. sent
  BY <1>2, <1>4, Known
<1> QED
  BY <1>1, <1>2, <1>5 DEF s, x

LEMMA GetLoadKeeps ==
  ASSUME IInv, GetLoad
  PROVE  IInv'
<1>1. /\ pc = "g_load" /\ pc' = "g_store" /\ byte' = buf[sel][at + 1]
      /\ UNCHANGED <<rx, buf, sel, pos, ongoing, armed, at, sent, returned, overtaken>>
  BY DEF GetLoad, Goto, cdc, history
<1>2. Ready /\ at = pos
  BY <1>1 DEF IInv, Getting, Holding
<1>3. byte' = buf[sel][pos + 1] /\ byte' \in 0 .. sent
  <2>1. buf[sel][pos + 1] \in 1 .. sent
    BY <1>2, NextByte
  <2>2. sent \in Nat
    BY TypesAre DEF IInv
  <2> QED
    BY <1>1, <1>2, <2>1, <2>2
<1>4. Types'
  BY <1>1, <1>3 DEF IInv, Types, TypeOK
<1>5. Pointers' /\ Transfer'
  BY <1>1 DEF IInv, Pointers, Transfer
<1>6. Getting' /\ RingFirst'
  <2>1. Ready' = Ready
    BY <1>1 DEF Ready
  <2> QED
    BY <1>1, <1>2, <1>3, <2>1 DEF IInv, Getting, RingFirst, Holding
<1>7. Conserved' /\ InOrder'
  <2>1. Hand' = Hand
    BY <1>1 DEF Hand
  <2>2. InLine' = InLine
    BY <1>1, <2>1 DEF InLine, Rest, Over, Other
  <2> QED
    BY <1>1, <2>2, SameLine DEF IInv
<1> QED
  BY <1>4, <1>5, <1>6, <1>7 DEF IInv

\* The byte leaves the buffer.  If the ring has bytes, which it has only when
\* transfers overtook the read, it leaves its place in the line as well.
LEMMA GetStoreKeeps ==
  ASSUME IInv, GetStore
  PROVE  IInv'
<1> DEFINE u == UpToTail(rx)
           b == After(buf[sel], pos + 1)
           l == Over
<1>1. /\ pc = "g_store" /\ pc' = "g_start" /\ pos' = at + 1
      /\ UNCHANGED <<rx, buf, sel, ongoing, armed, at, byte, sent, returned, overtaken>>
  BY DEF GetStore, Goto, local, history
<1>2. Ready /\ at = pos /\ byte = buf[sel][pos + 1] /\ pos' = pos + 1
  BY <1>1 DEF IInv, Getting, Holding
<1>3. /\ Types /\ Pointers /\ pos \in Nat /\ byte \in Nat /\ buf[sel] \in Seq(Nat) /\ sel \in 0 .. 1
      /\ rx.size \in Nat
  BY TypesAre DEF IInv
<1>4. Rest = <<byte>> \o b /\ pos + 1 <= Len(buf[sel])
  BY <1>2, NextByte
<1>5. Types'
  <2>1. pos' \in 0 .. BufSize
    <3>1. Len(buf[sel]) <= BufSize /\ Len(buf[sel]) \in Nat /\ BufSize \in Nat
      BY <1>3, TypesAre
    <3> QED
      BY <1>2, <1>3, <1>4, <3>1
  <2> QED
    BY <1>1, <2>1 DEF IInv, Types, TypeOK
<1>6. Pointers' /\ Transfer' /\ Getting' /\ RingFirst'
  BY <1>1 DEF IInv, Pointers, Transfer, Getting, RingFirst, Holding
<1>7. Conserved' /\ InOrder'
  <2>1. Hand = <<>> /\ Hand' = <<byte>> /\ Rest' = b /\ Over' = l
    BY <1>1, <1>2 DEF Hand, Rest, Over, Other
  <2>2. InLine = Line(returned, <<>>, u, <<byte>> \o b, l)
    BY <1>4, <2>1 DEF InLine
  <2>3. InLine' = Line(returned, <<byte>>, u, b, l)
    BY <1>1, <2>1 DEF InLine
  <2>4. Parts(returned, <<byte>>, u, b, l)
    <3>1. <<byte>> \in Seq(Nat)
      BY <1>3
    <3>2. b \in Seq(Nat)
      <4>1. pos + 1 \in Nat
        BY <1>3
      <4> QED
        BY <1>3, <4>1, AfterIs
    <3>3. Parts(returned, Hand, u, Rest, l)
      BY <1>3, PartsAre
    <3> QED
      BY <3>1, <3>2, <3>3 DEF Parts
  <2>5. ~ overtaken => u = <<>>
    <3>1. u \in Seq(Nat) /\ Len(u) = rx.size
      BY <1>3, PartsAre
    <3>2. ~ overtaken => rx.size = 0
      BY <1>1 DEF IInv, RingFirst, Holding
    <3> QED
      BY <3>1, <3>2, EmptySeq
  <2> HIDE DEF u, b, l
  <2>6. /\ Len(InLine') = Len(InLine)
        /\ \A v : Occurs(v, InLine') <=> Occurs(v, InLine)
        /\ ~ overtaken => InLine' = InLine
    <3>1. /\ Line(returned, <<byte>>, <<>>, b, l) = Line(returned, <<>>, <<>>, <<byte>> \o b, l)
          /\ Len(Line(returned, <<byte>>, u, b, l)) = Len(Line(returned, <<>>, u, <<byte>> \o b, l))
          /\ \A v : Occurs(v, Line(returned, <<byte>>, u, b, l))
                      <=> Occurs(v, Line(returned, <<>>, u, <<byte>> \o b, l))
      BY <1>3, <2>4, LineHands
    <3> QED
      BY <2>2, <2>3, <2>5, <3>1
  <2> HIDE DEF InLine
  <2>7. Conserved'
    BY <1>1, <2>6 DEF IInv, Conserved
  <2>8. InOrder'
    BY <1>1, <2>6 DEF IInv, InOrder
  <2> QED
    BY <2>7, <2>8
<1> QED
  BY <1>5, <1>6, <1>7 DEF IInv

\* udi_cdc_rx_start: nothing else to do, or the buffers change roles.
LEMMA GetStartKeeps ==
  ASSUME IInv, GetStart
  PROVE  IInv'
<1>1. /\ Types /\ Pointers /\ byte \in Nat /\ sel \in 0 .. 1 /\ Other \in 0 .. 1 /\ pos \in Nat
      /\ buf[sel] \in Seq(Nat) /\ buf[Other] \in Seq(Nat) /\ returned \in Seq(Nat)
      /\ Parts(returned, <<byte>>, UpToTail(rx), Rest, Over)
  <2>1. pc = "g_start"
    BY DEF GetStart
  <2>2. Hand = <<byte>>
    BY <2>1 DEF Hand
  <2> QED
    BY <2>2, TypesAre, PartsAre DEF IInv, Types
<1>2. /\ pc = "g_start" /\ UNCHANGED <<rx, buf, armed, at, byte>>
  BY DEF GetStart, local
<1>3. CASE MaySwap(ongoing, pos, buf)
  <2>1. /\ pc' = "g_notify" /\ sel' = Other /\ pos' = 0 /\ ongoing' = TRUE
        /\ UNCHANGED <<sent, returned, overtaken>>
    BY <1>3 DEF GetStart, history
  <2>2. ~ ongoing /\ pos >= Len(buf[sel])
    BY <1>3 DEF MaySwap
  <2>3. Types'
    BY <1>1, <1>2, <2>1, UsbSerialAssumption, RingAssumption DEF Types, TypeOK
  <2>4. Pointers' /\ Transfer' /\ Getting' /\ RingFirst'
    BY <1>2, <2>1, <2>2 DEF IInv, Pointers, Transfer, Getting, RingFirst, Holding
  <2>5. Conserved' /\ InOrder'
    <3> DEFINE u == UpToTail(rx)
               g == buf[Other]
    <3>1. Rest = <<>> /\ Over = g
      BY <1>1, <2>2, AfterIs DEF Rest, Over
    <3>2. Rest' = g /\ Over' = <<>> /\ Hand = <<byte>> /\ Hand' = <<byte>>
      BY <1>1, <1>2, <2>1, AfterIs DEF Rest, Over, Hand
    <3>3. InLine = Line(returned, <<byte>>, u, <<>>, g) /\ InLine' = Line(returned, <<byte>>, u, g, <<>>)
      BY <1>2, <2>1, <3>1, <3>2 DEF InLine
    <3>4. Parts(returned, <<byte>>, u, <<>>, g)
      BY <1>1, <3>1
    <3> HIDE DEF u, g
    <3>5. Line(returned, <<byte>>, u, <<>>, g) = Line(returned, <<byte>>, u, g, <<>>)
      BY ONLY <3>4, LineMoves
    <3> QED
      BY <2>1, <3>3, <3>5, SameLine DEF IInv
  <2> QED
    BY <2>3, <2>4, <2>5 DEF IInv
<1>4. CASE ~ MaySwap(ongoing, pos, buf)
  <2>1. /\ pc' = "idle" /\ returned' = Append(returned, byte)
        /\ UNCHANGED <<sel, pos, ongoing, sent, overtaken>>
    BY <1>4 DEF GetStart, Return
  <2>2. Types'
    <3>1. returned' \in Seq(Nat)
      BY <1>1, <2>1, AppendProperties
    <3> QED
      BY <1>1, <1>2, <2>1, <3>1 DEF Types, TypeOK
  <2>3. Pointers' /\ Transfer' /\ Getting' /\ RingFirst'
    BY <1>2, <2>1 DEF IInv, Pointers, Transfer, Getting, RingFirst, Holding
  <2>4. Conserved' /\ InOrder'
    <3> DEFINE u == UpToTail(rx)
               b == Rest
               l == Over
    <3>1. Rest' = b /\ Over' = l /\ Hand = <<byte>> /\ Hand' = <<>>
      BY <1>2, <2>1 DEF Rest, Over, Hand, Other
    <3>2. InLine = Line(returned, <<byte>>, u, b, l)
          /\ InLine' = Line(Append(returned, byte), <<>>, u, b, l)
      BY <1>2, <2>1, <3>1 DEF InLine
    <3> HIDE DEF u, b, l
    <3>3. Parts(returned, <<byte>>, u, b, l)
      BY <1>1 DEF u, b, l
    <3>4. InLine' = InLine
      BY <1>1, <3>2, <3>3, LineReturns
    <3> QED
      BY <2>1, <3>4, SameLine DEF IInv
  <2> QED
    BY <2>2, <2>3, <2>4 DEF IInv
<1> QED
  BY <1>3, <1>4

\* udd_ep_run, and read returns.
LEMMA GetRunKeeps ==
  ASSUME IInv, GetRun
  PROVE  IInv'
<1>1. /\ pc = "g_run" /\ pc' = "idle" /\ armed' = TRUE /\ returned' = Append(returned, byte)
      /\ UNCHANGED <<rx, buf, sel, pos, ongoing, at, byte, sent, overtaken>>
  BY DEF GetRun, Goto, Return, local
<1>2. Types /\ Pointers /\ byte \in Nat /\ returned \in Seq(Nat)
  BY TypesAre DEF IInv, Types
<1>3. Types'
  <2>1. returned' \in Seq(Nat)
    BY <1>1, <1>2, AppendProperties
  <2> QED
    BY <1>1, <1>2, <2>1 DEF Types, TypeOK
<1>4. Pointers' /\ Transfer' /\ Getting' /\ RingFirst'
  BY <1>1 DEF IInv, Pointers, Transfer, Getting, RingFirst, Holding
<1>5. Conserved' /\ InOrder'
  <2> DEFINE u == UpToTail(rx)
             b == Rest
             l == Over
  <2>1. Rest' = b /\ Over' = l /\ Hand = <<byte>> /\ Hand' = <<>>
    BY <1>1 DEF Rest, Over, Hand, Other
  <2>2. InLine = Line(returned, <<byte>>, u, b, l)
        /\ InLine' = Line(Append(returned, byte), <<>>, u, b, l)
    BY <1>1, <2>1 DEF InLine
  <2>3. Parts(returned, <<byte>>, u, b, l)
    BY <1>2, <2>1, PartsAre
  <2> HIDE DEF u, b, l
  <2>4. InLine' = InLine
    BY <1>2, <2>2, <2>3, LineReturns
  <2> QED
    BY <1>1, <2>4, SameLine DEF IInv
<1> QED
  BY <1>3, <1>4, <1>5 DEF IInv

\* rx_callback in getc: the bytes of the other buffer go into the ring.
LEMMA GetNotifyKeeps ==
  ASSUME IInv, GetNotify
  PROVE  IInv'
<1> DEFINE s == buf[sel]
           f == SubSeq(s, 1, pos')
           u == UpToTail(rx)
<1>1. /\ pc = "g_notify" /\ pc' = "g_run" /\ Notify(s)
      /\ UNCHANGED <<buf, sel, ongoing, armed, at, byte, sent, returned, overtaken>>
  BY DEF GetNotify, Goto, local, history
<1>2. /\ Types /\ Pointers /\ byte \in Nat /\ s \in Seq(Nat) /\ Len(s) \in Nat /\ Len(s) <= BufSize
      /\ BufSize \in Nat
  BY TypesAre DEF IInv
<1>3. pos = 0 /\ ongoing /\ ~ armed
  BY <1>1 DEF IInv, Transfer
<1> HIDE DEF s
<1>4. /\ pos' \in 0 .. Len(s) /\ rx' \in Ring /\ UpToTail(rx') = u \o f
  BY <1>1, <1>2, NotifyKeeps
<1>5. Types'
  <2>1. pos' \in 0 .. BufSize
    BY <1>2, <1>4
  <2> QED
    BY <1>1, <1>2, <1>4, <2>1 DEF Types, TypeOK
<1>6. Pointers'
  BY <1>1, <1>2, PointersGrow
<1>7. Transfer' /\ Getting' /\ RingFirst'
  BY <1>1, <1>3 DEF IInv, Transfer, Getting, RingFirst, Holding
<1>8. Conserved' /\ InOrder'
  <2> DEFINE g == After(s, pos')
  <2>1. f \in Seq(Nat) /\ g \in Seq(Nat) /\ f \o g = s
    <3>1. pos' \in Nat /\ pos' <= Len(s)
      BY <1>2, <1>4
    <3> QED
      BY <1>2, <3>1, AfterIs
  <2>2. Parts(returned, Hand, u, Rest, Over)
    BY <1>2, PartsAre
  <2>3. Rest = s /\ Over = <<>> /\ Hand = <<byte>>
    BY <1>1, <1>2, <1>3, AfterIs DEF Rest, Over, Hand, s
  <2>4. Rest' = g /\ Over' = <<>> /\ Hand' = <<byte>>
    BY <1>1, <1>3 DEF Rest, Over, Hand, s
  <2>5. InLine = Line(returned, <<byte>>, u, s, <<>>)
    BY <2>3 DEF InLine
  <2>6. InLine' = Line(returned, <<byte>>, u \o f, g, <<>>)
    BY <1>1, <1>4, <2>4 DEF InLine
  <2> HIDE DEF f, g, u
  <2>7. Parts(returned, <<byte>>, u, f, g)
    BY <2>1, <2>2, <2>3 DEF Parts
  <2>8. Line(returned, <<byte>>, u \o f, g, <<>>) = Line(returned, <<byte>>, u, f \o g, <<>>)
    BY ONLY <2>7, LineMoves
  <2>9. InLine' = InLine
    BY <2>1, <2>5, <2>6, <2>8
  <2> QED
    BY <1>1, <2>9, SameLine DEF IInv
<1> QED
  BY <1>5, <1>6, <1>7, <1>8 DEF IInv

-----------------------------------------------------------------------------
\* The theorems

LEMMA Inductive == Spec => []IInv
<1>1. Init => IInv
  BY InitInv
<1>2. IInv /\ [Next]_vars => IInv'
  <2> SUFFICES ASSUME IInv, [Next]_vars PROVE IInv'
    OBVIOUS
  <2>1. CASE CallRead \/ ReadTest \/ ReadReady
    BY <2>1, LookKeeps
  <2>2. CASE ReadHead
    BY <2>2, ReadHeadKeeps
  <2>3. CASE ReadCount
    BY <2>3, ReadCountKeeps
  <2>4. CASE GetCheck
    BY <2>4, GetCheckKeeps
  <2>5. CASE GetLoad
    BY <2>5, GetLoadKeeps
  <2>6. CASE GetStore
    BY <2>6, GetStoreKeeps
  <2>7. CASE GetStart
    BY <2>7, GetStartKeeps
  <2>8. CASE GetNotify
    BY <2>8, GetNotifyKeeps
  <2>9. CASE GetRun
    BY <2>9, GetRunKeeps
  <2>10. CASE Received
    BY <2>10, ReceivedKeeps
  <2>11. CASE UNCHANGED vars
    <3>1. UNCHANGED <<pc, rx, buf, sel, pos, ongoing, armed, at, byte, sent, returned, overtaken>>
      BY <2>11 DEF vars, cdc, local, history
    <3>2. Types' /\ Pointers' /\ Transfer' /\ Getting' /\ RingFirst'
      BY <3>1 DEF IInv, Types, TypeOK, Pointers, Transfer, Getting, RingFirst, Ready
    <3>3. InLine' = InLine
      BY <3>1 DEF InLine, Hand, Rest, Over, Other
    <3> QED
      BY <3>1, <3>2, <3>3, SameLine DEF IInv
  <2> QED
    BY <2>1, <2>2, <2>3, <2>4, <2>5, <2>6, <2>7, <2>8, <2>9, <2>10, <2>11 DEF Next, Foreground
<1> QED
  BY <1>1, <1>2, PTL DEF Spec

\* The positions stay inside the two buffers, and the indexes of the ring
\* inside its array, whatever interrupts read, getc and rx_callback.
THEOREM TypeCorrect == Spec => []TypeOK
<1>1. IInv => TypeOK
  BY DEF IInv, Types
<1> QED
  BY <1>1, Inductive, PTL

\* For every size of the ring and of the transfers and however read, getc and
\* the USB interrupt meet: each byte of the host is in exactly one place until
\* it is returned, and returned once.
THEOREM NothingIsLost == Spec => []NothingLost
<1>1. IInv => NothingLost
  <2> SUFFICES ASSUME IInv PROVE NothingLost
    OBVIOUS
  <2> DEFINE all == returned \o Hand \o Pending
  <2>1. all = InLine
    BY DEF Pending, InLine, Line, Rest, Over, After
  <2>2. Len(InLine) = sent /\ \A v : Occurs(v, InLine) <=> v \in 1 .. sent
    BY DEF IInv, Conserved
  <2>3. Len(all) = sent /\ \A v \in 1 .. sent : \E k \in 1 .. Len(all) : all[k] = v
    BY <2>1, <2>2 DEF Occurs
  <2> QED
    BY <2>3 DEF NothingLost
<1> QED
  BY <1>1, Inductive, PTL

\* As long as no transfer filled the ring between the two looks of read, the
\* program reads what the host sent, in order.
THEOREM OrderUnlessOvertaken == Spec => []ReadsInOrderUnlessOvertaken
<1>1. IInv => ReadsInOrderUnlessOvertaken
  <2> SUFFICES ASSUME IInv, ~ overtaken
               PROVE  returned = [k \in 1 .. Len(returned) |-> k]
    BY DEF ReadsInOrderUnlessOvertaken
  <2> DEFINE h == Hand
             p == (UpToTail(rx) \o Rest) \o Over
             rest == h \o p
  <2>1. returned \in Seq(Nat) /\ Len(returned) \in Nat
    BY LenProperties DEF IInv, Types
  <2>2. h \in Seq(Nat) /\ p \in Seq(Nat) /\ InLine = (returned \o h) \o p
    <3>1. Parts(returned, Hand, UpToTail(rx), Rest, Over)
      BY PartsAre DEF IInv
    <3>2. Hand \in Seq(Nat) /\ UpToTail(rx) \o Rest \in Seq(Nat) /\ Over \in Seq(Nat)
      BY <3>1, ConcatProperties DEF Parts
    <3>3. p \in Seq(Nat)
      BY <3>2, ConcatProperties
    <3> QED
      BY <3>2, <3>3 DEF InLine, Line
  <2> HIDE DEF h, p
  <2>3. rest \in Seq(Nat) /\ Len(rest) \in Nat
    BY <2>2, ConcatProperties, LenProperties
  <2>4. InLine = returned \o rest
    BY <2>1, <2>2, Regrouped
  <2> HIDE DEF rest
  <2>5. /\ Len(returned \o rest) = Len(returned) + Len(rest)
        /\ \A i \in 1 .. Len(returned) : (returned \o rest)[i] = returned[i]
    BY <2>1, <2>3, ConcatProperties
  <2>6. \A i \in 1 .. Len(returned) : returned[i] = i
    BY <2>1, <2>3, <2>4, <2>5 DEF IInv, InOrder
  <2> QED
    BY <2>1, <2>6, LenProperties
<1> QED
  BY <1>1, Inductive, PTL

\* What udi_cdc_is_rx_ready saw is still there when getc looks: read never
\* waits for the host.
THEOREM GetcFindsItsByte == Spec => []GetcNeverWaits
<1>1. IInv => GetcNeverWaits
  BY DEF IInv, Getting, Holding, GetcNeverWaits
<1> QED
  BY <1>1, Inductive, PTL

=============================================================================
