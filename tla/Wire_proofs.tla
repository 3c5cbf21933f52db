---------------------------- MODULE Wire_proofs ----------------------------
(***************************************************************************)
(* Theorems about Wire, for any slaves, rings of every size, any number of *)
(* bytes, time-outs of any length and any sequence of calls.               *)
(***************************************************************************)
EXTENDS Wire, ByteRing_proofs

-----------------------------------------------------------------------------
\* The inductive invariant

Types ==
  /\ TypeOK
  /\ written \in Nat /\ first \in Nat /\ taken \in Nat /\ got \in Nat
  /\ meant \in Seq(Addresses) /\ Len(meant) = written
  /\ stored \in Seq(Nat)
  /\ abandoned \in BOOLEAN /\ late \in BOOLEAN /\ overrun \in BOOLEAN

\* The loops end with their last byte.
Counter ==
  /\ pc \in {"w_send", "w_put"} => cnt > 0 /\ cnt <= Len(packet)
  /\ pc \in {"w_last", "w_ask", "w_stop"} => cnt = 0
  /\ pc \in {"r_loop", "r_ask", "r_take"} => cnt > 0

\* Byte b was written, and for the slave that is addressed now.
Meant(b) == b \in 1 .. written /\ (~abandoned => meant[b] = txAddress)

AllMeant(s) == \A k \in 1 .. Len(s) : Meant(s[k])

Gathered ==
  /\ tx.size <= SendSize
  /\ tx.tail = Ahead(tx.head, tx.size)
  /\ AllMeant(UpToTail(tx))
  /\ pc \in Writing => AllMeant(packet)

\* The ring holds what was stored and not taken.
RxInOrder ==
  ~overrun =>
    /\ rx.size <= Slots
    /\ rx.tail = Ahead(rx.head, rx.size)
    /\ taken <= Len(stored)
    /\ UpToTail(rx) = After(stored, taken)
    /\ taken > 0 => got = stored[taken]

\* Between calls the peripheral is idle unless a call gave up before it was.
Quiet ==
  pc = "idle" /\ ~late =>
    bus = "free" /\ thr = Nothing /\ shift = Nothing /\ rhr = Nothing /\ ~nack

\* The bytes that left the packet: accepted, in the shift and in the holding
\* register.
Out == Len(delivered) + Held(shift) + Held(thr)

OutAsMeant ==
  /\ \A j \in 1 .. Len(delivered) : delivered[j] = <<txAddress, packet[j]>>
  /\ shift # Nothing => shift = packet[Len(delivered) + 1]
  /\ thr # Nothing => thr = packet[Len(delivered) + Held(shift) + 1]

\* Only a refusal empties the registers while twi_master_write sends, and it
\* sets NACK.
Sending ==
  pc \in Writing /\ ~late =>
    /\ rhr = Nothing
    /\ bus \in {"free", "write"}
    /\ OutAsMeant
    /\ Out + cnt <= Len(packet)
    /\ nack => bus = "free"
    /\ bus = "free" => thr = Nothing /\ shift = Nothing
    /\ bus = "write" => target = txAddress /\ Out + cnt = Len(packet)
    /\ bus = "write" /\ pc # "w_stop" => ~stop
    /\ pc \in {"w_send", "w_put"} /\ bus = "free" /\ ~nack => delivered = <<>> /\ cnt = Len(packet)
    /\ pc = "w_put" => thr = Nothing
    /\ pc = "w_last" /\ ~nack => bus = "write"
    /\ pc \in {"w_ask", "w_stop"} => thr = Nothing /\ Len(delivered) + 1 >= Len(packet)

\* The slave is exactly the bytes ahead that are in the packet and in RHR.
Receiving ==
  pc \in Reading /\ ~late =>
    /\ thr = Nothing /\ shift = Nothing
    /\ bus \in {"free", "read"}
    /\ \A k \in 1 .. Len(packet) : packet[k] = first + k
    /\ heard = first + Len(packet) + Held(rhr)
    /\ rhr # Nothing => rhr = heard
    /\ nack => bus = "free" /\ rhr = Nothing
    /\ bus = "read" /\ ~addressed => rhr = Nothing
    /\ pc = "r_take" \/ (pc = "r_ask" /\ ready) => rhr # Nothing
    /\ pc = "r_stop" => bus = "free" /\ rhr = Nothing

\* STOP is under way exactly while the last byte is awaited.
Stopping ==
  pc \in {"r_loop", "r_ask", "r_take"} /\ ~late =>
    /\ stopSent => cnt = 1
    /\ ~stopSent /\ ~nack => bus = "read" /\ ~stop
    /\ stopSent /\ ~nack /\ rhr = Nothing => bus = "read" /\ stop
    /\ stopSent /\ rhr # Nothing => bus = "free"
    /\ pc = "r_ask" => cnt = 1 /\ ~stopSent
    /\ pc = "r_take" /\ cnt = 1 => stopSent

IInv ==
  /\ Types /\ Counter /\ Gathered /\ RxInOrder
  /\ Quiet /\ Sending /\ Receiving /\ Stopping

LEMMA TypesAre ==
  ASSUME Types
  PROVE  /\ tx \in Ring /\ tx.size \in Nat /\ rx \in Ring /\ rx.size \in Nat
         /\ packet \in Seq(Nat) /\ Len(packet) \in Nat /\ cnt \in Nat
         /\ delivered \in Seq(Addresses \X Nat) /\ Len(delivered) \in Nat
         /\ thr \in Nat /\ shift \in Nat /\ rhr \in Nat /\ heard \in Nat
         /\ txAddress \in Addresses /\ target \in Addresses
         /\ Held(shift) \in 0 .. 1 /\ Held(thr) \in 0 .. 1 /\ Held(rhr) \in 0 .. 1 /\ Out \in Nat
<1>1. /\ tx \in Ring /\ rx \in Ring /\ packet \in Seq(Nat) /\ cnt \in Nat
      /\ delivered \in Seq(Addresses \X Nat)
      /\ thr \in Nat /\ shift \in Nat /\ rhr \in Nat /\ heard \in Nat
      /\ txAddress \in Addresses /\ target \in Addresses
  BY RingAssumption DEF Types, TypeOK, PeripheralTypeOK
<1>2. tx.size \in Nat /\ rx.size \in Nat
  BY <1>1, RingAssumption DEF Ring
<1>3. Len(packet) \in Nat /\ Len(delivered) \in Nat
  BY <1>1, LenProperties
<1>4. Held(shift) \in 0 .. 1 /\ Held(thr) \in 0 .. 1 /\ Held(rhr) \in 0 .. 1
  BY DEF Held
<1>5. Out \in Nat
  BY <1>3, <1>4 DEF Out
<1> QED
  BY <1>1, <1>2, <1>3, <1>4, <1>5

LEMMA HeldIs == Held(Nothing) = 0 /\ \A b : b # Nothing => Held(b) = 1
BY DEF Held, Nothing, NoByte

LEMMA EmptyRingIs ==
  /\ EmptyRing \in Ring /\ EmptyRing.size = 0 /\ UpToTail(EmptyRing) = <<>>
  /\ EmptyRing.tail = Ahead(EmptyRing.head, EmptyRing.size)
<1>1. EmptyRing.size = 0 /\ EmptyRing.tail = 0 /\ EmptyRing.head = 0 /\ 0 \in Index /\ 0 <= Slots
  BY RingAssumption DEF EmptyRing, Index
<1>2. EmptyRing.tail = Ahead(EmptyRing.head, EmptyRing.size)
  BY <1>1, AheadZero
<1>3. UpToTail(EmptyRing) \in Seq(Nat) /\ Len(UpToTail(EmptyRing)) = 0
  BY <1>1, EmptyRingType, UpToTailSeq
<1> QED
  BY <1>1, <1>2, <1>3, EmptyRingType, EmptySeq

\* Nothing is in the rings.
LEMMA FreshRings ==
  ASSUME tx = EmptyRing, rx = EmptyRing, stored = <<>>, taken = 0, pc = "idle"
  PROVE  Gathered /\ RxInOrder
<1>1. <<>> \in Seq(Nat) /\ Len(<<>>) = 0
  BY EmptySeq
<1>2. Gathered
  BY <1>1, EmptyRingIs, WireAssumption DEF Gathered, AllMeant, Writing
<1>3. RxInOrder
  <2>1. After(stored, taken) = <<>> /\ Len(stored) = 0
    BY <1>1, AfterIs
  <2> QED
    BY <2>1, EmptyRingIs, RingAssumption DEF RxInOrder
<1> QED
  BY <1>2, <1>3

LEMMA InitInv == Init => IInv
<1> SUFFICES ASSUME Init PROVE IInv
  OBVIOUS
<1>1. \A S : <<>> \in Seq(S) /\ Len(<<>>) = 0
  BY EmptySeq
<1>2. tx = EmptyRing /\ rx = EmptyRing /\ EmptyRing \in Ring
  BY EmptyRingType DEF Init
<1>3. PeripheralTypeOK
  <2>1. delivered = <<>> /\ <<>> \in Seq(Addresses \X Nat)
    BY <1>1 DEF Init, PeripheralInit
  <2>2. /\ bus \in {"free", "write", "read"} /\ target \in Addresses
        /\ addressed \in BOOLEAN /\ stop \in BOOLEAN /\ nack \in BOOLEAN
    BY DEF Init, PeripheralInit
  <2>3. thr \in Nat /\ shift \in Nat /\ rhr \in 0 .. heard /\ heard \in Nat
    <3>1. thr = 0 /\ shift = 0 /\ rhr = 0 /\ heard = 0
      BY DEF Init, PeripheralInit, Nothing
    <3> QED
      BY <3>1
  <2> QED
    BY <2>1, <2>2, <2>3 DEF PeripheralTypeOK
<1>4. Types
  <2>1. cnt \in 0 .. CountMod - 1 /\ timeout \in 0 .. Timeout + WriteTimeout
    BY RingAssumption, WireAssumption DEF Init
  <2> QED
    BY <1>1, <1>2, <1>3, <2>1 DEF Init, Types, TypeOK
<1>5. Gathered /\ RxInOrder
  BY <1>2, FreshRings DEF Init
<1> QED
  BY <1>4, <1>5
  DEF Init, PeripheralInit, IInv, Counter, Quiet, Sending, Receiving, Stopping, Writing, Reading

-----------------------------------------------------------------------------
\* What happens on the bus

Still == UNCHANGED <<pc, rings, txAddress, local, history>>

LEMMA StillIs ==
  ASSUME Still
  PROVE  /\ UNCHANGED <<pc, tx, rx, txAddress, packet, cnt, stopSent, ready, timeout>>
         /\ UNCHANGED <<written, meant, first, stored, taken, got, abandoned, late, overrun>>
BY DEF Still, rings, local, history, reads

LEMMA StillKeeps ==
  ASSUME IInv, Still, PeripheralTypeOK'
  PROVE  Types' /\ Counter' /\ Gathered' /\ RxInOrder'
<1>1. Types'
  BY StillIs DEF IInv, Types, TypeOK
<1>2. Counter' /\ RxInOrder'
  BY StillIs DEF IInv, Counter, RxInOrder
<1>3. Gathered'
  BY StillIs DEF IInv, Gathered, AllMeant, Meant
<1> QED
  BY <1>1, <1>2, <1>3

LEMMA AnswerKeeps ==
  ASSUME IInv, Answer, Still
  PROVE  IInv'
<1>1. /\ bus # "free" /\ ~ addressed /\ addressed' = TRUE
      /\ UNCHANGED <<bus, target, stop, thr, shift, rhr, nack, heard, delivered>>
  BY DEF Answer, line
<1>2. PeripheralTypeOK'
  BY <1>1 DEF IInv, Types, TypeOK, PeripheralTypeOK
<1>3. Quiet' /\ Stopping'
  BY <1>1, StillIs DEF IInv, Quiet, Stopping
<1>4. Sending'
  BY <1>1, StillIs DEF IInv, Sending, OutAsMeant, Out
<1>5. Receiving'
  BY <1>1, StillIs DEF IInv, Receiving
<1> QED
  BY <1>2, <1>3, <1>4, <1>5, StillKeeps DEF IInv

LEMMA RefuseKeeps ==
  ASSUME IInv, Refuse, Still
  PROVE  IInv'
<1>1. /\ (bus # "free" /\ ~ addressed) \/ shift # Nothing
      /\ nack' = TRUE /\ bus' = "free" /\ thr' = Nothing /\ shift' = Nothing /\ stop' = FALSE
      /\ UNCHANGED <<target, addressed, rhr, heard, delivered>>
  BY DEF Refuse, line
<1>2. PeripheralTypeOK'
  BY <1>1 DEF IInv, Types, TypeOK, PeripheralTypeOK, Nothing
<1>3. Quiet'
  BY <1>1, StillIs DEF IInv, Quiet
<1>4. Sending'
  <2>1. Out' = Len(delivered) /\ Len(delivered) <= Out /\ Len(delivered) \in Nat /\ Out \in Nat
        /\ cnt \in Nat /\ Len(packet) \in Nat
    BY <1>1, HeldIs, TypesAre DEF IInv, Out
  <2> QED
    BY <1>1, <2>1, StillIs DEF IInv, Sending, OutAsMeant
<1>5. Receiving' /\ Stopping'
  <2>1. pc \in Reading /\ ~ late => rhr = Nothing
    BY <1>1 DEF IInv, Receiving
  <2> QED
    BY <1>1, <2>1, StillIs DEF IInv, Receiving, Stopping, Reading
<1> QED
  BY <1>2, <1>3, <1>4, <1>5, StillKeeps DEF IInv

LEMMA LoadKeeps ==
  ASSUME IInv, Load, Still
  PROVE  IInv'
<1>1. /\ bus = "write" /\ addressed /\ thr # Nothing /\ shift = Nothing
      /\ shift' = thr /\ thr' = Nothing
      /\ UNCHANGED <<bus, target, addressed, stop, rhr, nack, heard, delivered>>
  BY DEF Load, line
<1>2. PeripheralTypeOK'
  BY <1>1 DEF IInv, Types, TypeOK, PeripheralTypeOK, Nothing
<1>3. Quiet' /\ Receiving' /\ Stopping'
  BY <1>1, StillIs DEF IInv, Quiet, Receiving, Stopping, Reading
<1>4. Sending'
  <2>1. Held(shift) = 0 /\ Held(thr) = 1 /\ Held(shift') = 1 /\ Held(thr') = 0 /\ Len(delivered) \in Nat
    BY <1>1, HeldIs, TypesAre DEF IInv
  <2>2. Out' = Out
    BY <1>1, <2>1 DEF Out
  <2>3. OutAsMeant => OutAsMeant'
    <3>1. Len(delivered) + Held(shift) + 1 = Len(delivered) + 1
      BY <2>1
    <3> QED
      BY <1>1, <3>1, StillIs DEF OutAsMeant
  <2> QED
    BY <1>1, <2>2, <2>3, StillIs DEF IInv, Sending
<1> QED
  BY <1>2, <1>3, <1>4, StillKeeps DEF IInv

LEMMA AcceptKeeps ==
  ASSUME IInv, Accept, Still
  PROVE  IInv'
<1> DEFINE n == Len(delivered)
           d == <<target, shift>>
<1>1. /\ bus = "write" /\ addressed /\ shift # Nothing
      /\ delivered' = Append(delivered, d) /\ shift' = Nothing
      /\ UNCHANGED <<bus, target, addressed, stop, thr, rhr, nack, heard>>
  BY DEF Accept
<1>2. /\ delivered \in Seq(Addresses \X Nat) /\ n \in Nat /\ d \in Addresses \X Nat
      /\ cnt \in Nat /\ Len(packet) \in Nat
  BY TypesAre DEF IInv
<1>3. /\ delivered' \in Seq(Addresses \X Nat) /\ Len(delivered') = n + 1
      /\ \A j \in 1 .. n : delivered'[j] = delivered[j]
      /\ delivered'[n + 1] = d
  BY <1>1, <1>2, AppendProperties
<1>4. PeripheralTypeOK'
  BY <1>1, <1>3 DEF IInv, Types, TypeOK, PeripheralTypeOK, Nothing
<1>5. Quiet' /\ Receiving' /\ Stopping'
  BY <1>1, StillIs DEF IInv, Quiet, Receiving, Stopping, Reading
<1>6. Sending'
  <2> SUFFICES ASSUME pc \in Writing, ~ late PROVE Sending'
    BY StillIs DEF Sending
  <2>1. Held(shift) = 1 /\ Held(shift') = 0 /\ Held(thr) \in 0 .. 1
    BY <1>1, HeldIs, TypesAre DEF IInv
  <2>2. Out' = Out
    BY <1>1, <1>2, <1>3, <2>1 DEF Out
  <2>3. OutAsMeant /\ target = txAddress
    BY <1>1 DEF IInv, Sending
  <2>4. OutAsMeant'
    <3>1. \A j \in 1 .. n + 1 : delivered'[j] = <<txAddress, packet[j]>>
      BY <1>1, <1>2, <1>3, <2>3 DEF OutAsMeant
    <3>2. n + Held(shift) + 1 = (n + 1) + Held(shift') + 1
      BY <1>2, <2>1
    <3> QED
      BY <1>1, <1>3, <2>3, <3>1, <3>2, StillIs DEF OutAsMeant
  <2> QED
    BY <1>1, <1>2, <1>3, <2>2, <2>3, <2>4, StillIs DEF IInv, Sending
<1> QED
  BY <1>4, <1>5, <1>6, StillKeeps DEF IInv

LEMMA CompleteKeeps ==
  ASSUME IInv, Complete, Still
  PROVE  IInv'
<1>1. /\ bus = "write" /\ addressed /\ stop /\ thr = Nothing /\ shift = Nothing
      /\ bus' = "free" /\ stop' = FALSE
      /\ UNCHANGED <<target, addressed, thr, shift, rhr, nack, heard, delivered>>
  BY DEF Complete, line
<1>2. PeripheralTypeOK'
  BY <1>1 DEF IInv, Types, TypeOK, PeripheralTypeOK
<1>3. Quiet' /\ Receiving' /\ Stopping'
  BY <1>1, StillIs DEF IInv, Quiet, Receiving, Stopping, Reading
<1>4. Sending'
  <2>1. Out' = Out
    BY <1>1 DEF Out
  <2>2. pc \in Writing /\ ~ late => pc = "w_stop"
    BY <1>1 DEF IInv, Sending, Writing
  <2> QED
    BY <1>1, <2>1, <2>2, StillIs DEF IInv, Sending, OutAsMeant
<1> QED
  BY <1>2, <1>3, <1>4, StillKeeps DEF IInv

LEMMA ReceiveKeeps ==
  ASSUME IInv, Receive, Still
  PROVE  IInv'
<1>1. /\ bus = "read" /\ addressed /\ rhr = Nothing
      /\ heard' = heard + 1 /\ rhr' = heard + 1
      /\ bus' = (IF stop THEN "free" ELSE "read") /\ stop' = FALSE
      /\ UNCHANGED <<target, addressed, thr, shift, nack, delivered>>
  BY DEF Receive
<1>2. /\ heard \in Nat /\ first \in Nat /\ Len(packet) \in Nat /\ rhr' # Nothing
      /\ Held(rhr) = 0 /\ Held(rhr') = 1
  BY <1>1, TypesAre, HeldIs DEF IInv, Types, Nothing
<1>3. PeripheralTypeOK'
  <2>1. rhr' \in 0 .. heard' /\ heard' \in Nat
    BY <1>1, <1>2
  <2>2. bus' \in {"free", "write", "read"} /\ stop' \in BOOLEAN
    BY <1>1
  <2> QED
    BY <1>1, <2>1, <2>2 DEF IInv, Types, TypeOK, PeripheralTypeOK
<1>4. Quiet' /\ Sending'
  BY <1>1, StillIs DEF IInv, Quiet, Sending
<1>5. Receiving'
  <2> SUFFICES ASSUME pc \in Reading, ~ late PROVE Receiving'
    BY StillIs DEF Receiving
  <2>1. pc \in {"r_loop", "r_ask"} /\ ~ nack
    BY <1>1 DEF IInv, Receiving, Reading
  <2>2. heard' = first + Len(packet) + Held(rhr')
    BY <1>1, <1>2 DEF IInv, Receiving
  <2> QED
    BY <1>1, <2>1, <2>2, StillIs DEF IInv, Receiving
<1>6. Stopping'
  <2> SUFFICES ASSUME pc \in {"r_loop", "r_ask", "r_take"}, ~ late PROVE Stopping'
    BY StillIs DEF Stopping
  <2>1. ~ nack
    BY <1>1 DEF IInv, Receiving, Reading
  <2> QED
    BY <1>1, <1>2, <2>1, StillIs DEF IInv, Stopping
<1> QED
  BY <1>3, <1>4, <1>5, <1>6, StillKeeps DEF IInv

LEMMA BusKeeps ==
  ASSUME IInv, Bus, Still
  PROVE  IInv'
BY RefuseKeeps, AnswerKeeps, LoadKeeps, AcceptKeeps, CompleteKeeps, ReceiveKeeps DEF Bus

-----------------------------------------------------------------------------
\* The calls that only touch the rings

LEMMA BeginKeeps ==
  ASSUME IInv, Begin
  PROVE  IInv'
<1>1. /\ pc = "idle" /\ pc' = "idle" /\ tx' = EmptyRing /\ rx' = EmptyRing
      /\ stored' = <<>> /\ taken' = 0 /\ got' = 0
      /\ abandoned' = FALSE /\ late' = FALSE /\ overrun' = FALSE
      /\ UNCHANGED <<txAddress, packet, cnt, stopSent, ready, timeout, written, meant, first, heard, delivered>>
  BY DEF Begin, local, line
<1>2. /\ bus' = "free" /\ addressed' = FALSE /\ stop' = FALSE /\ thr' = Nothing /\ shift' = Nothing
      /\ rhr' = Nothing /\ nack' = FALSE /\ target' = target
  BY DEF Begin, Reset
<1>3. Types'
  <2>1. PeripheralTypeOK'
    <3>1. thr' \in Nat /\ shift' \in Nat /\ rhr' \in 0 .. heard' /\ heard' \in Nat
      <4>1. thr' = 0 /\ shift' = 0 /\ rhr' = 0 /\ heard' = heard /\ heard \in Nat
        BY <1>1, <1>2, TypesAre DEF IInv, Nothing
      <4> QED
        BY <4>1
    <3> QED
      BY <1>1, <1>2, <3>1 DEF IInv, Types, TypeOK, PeripheralTypeOK
  <2>2. <<>> \in Seq(Nat)
    BY EmptySeq
  <2> QED
    BY <1>1, <2>1, <2>2, EmptyRingIs DEF IInv, Types, TypeOK
<1>4. Gathered'
  <2>1. Len(<<>>) = 0
    BY EmptySeq
  <2> QED
    BY <1>1, <2>1, EmptyRingIs, WireAssumption DEF Gathered, AllMeant, Writing
<1>5. RxInOrder'
  <2>1. <<>> \in Seq(Nat) /\ Len(<<>>) = 0
    BY EmptySeq
  <2>2. After(stored', taken') = <<>> /\ Len(stored') = 0
    BY <1>1, <2>1, AfterIs
  <2> QED
    BY <1>1, <2>2, EmptyRingIs, RingAssumption DEF RxInOrder
<1>6. Counter' /\ Quiet' /\ Sending' /\ Receiving' /\ Stopping'
  BY <1>1, <1>2 DEF Counter, Quiet, Sending, Receiving, Stopping, Writing, Reading
<1> QED
  BY <1>3, <1>4, <1>5, <1>6 DEF IInv

LEMMA PeripheralKept ==
  ASSUME PeripheralTypeOK, UNCHANGED <<peripheral, line>>
  PROVE  PeripheralTypeOK'
BY DEF PeripheralTypeOK, peripheral, line

\* Between calls, a step that leaves the peripheral alone.
LEMMA IdleKeeps ==
  ASSUME IInv, pc = "idle", pc' = "idle", UNCHANGED <<peripheral, line>>, late' = late
  PROVE  Counter' /\ Quiet' /\ Sending' /\ Receiving' /\ Stopping'
BY DEF IInv, Counter, Quiet, Sending, Receiving, Stopping, Writing, Reading, peripheral, line

\* Unless bytes of an earlier transmission are in the ring, all bytes that
\* will be in it are for the new slave.
LEMMA BeginTransmissionKeeps ==
  ASSUME IInv, BeginTransmission
  PROVE  IInv'
<1>1. /\ pc = "idle" /\ pc' = "idle" /\ txAddress' \in Addresses
      /\ abandoned' = (abandoned \/ tx.size > 0)
      /\ UNCHANGED <<tx, rx, packet, cnt, stopSent, ready, timeout, written, meant, late, peripheral, line>>
      /\ UNCHANGED <<first, stored, taken, got, overrun>>
  BY DEF BeginTransmission, rings, local, reads
<1>2. Types'
  <2>1. PeripheralTypeOK'
    BY <1>1, PeripheralKept DEF IInv, Types, TypeOK
  <2>2. abandoned' \in BOOLEAN
    BY <1>1 DEF IInv, Types
  <2> QED
    BY <1>1, <2>1, <2>2 DEF IInv, Types, TypeOK
<1>3. Gathered'
  <2>1. tx.size = 0 => UpToTail(tx) = <<>>
    BY DEF UpToTail
  <2>2. tx.size \in Nat /\ Len(<<>>) = 0
    BY TypesAre, EmptySeq DEF IInv
  <2>3. CASE tx.size = 0
    BY <1>1, <2>1, <2>2, <2>3 DEF IInv, Gathered, AllMeant, Writing
  <2>4. CASE tx.size > 0
    BY <1>1, <2>4 DEF IInv, Gathered, AllMeant, Meant, Writing
  <2> QED
    BY <2>2, <2>3, <2>4
<1>4. RxInOrder'
  BY <1>1 DEF IInv, RxInOrder
<1> QED
  BY <1>1, <1>2, <1>3, <1>4, IdleKeeps DEF IInv

LEMMA WriteKeeps ==
  ASSUME IInv, Write
  PROVE  IInv'
<1> PICK b : b = written + 1
  OBVIOUS
<1> PICK u : u = UpToTail(tx)
  OBVIOUS
<1>1. /\ pc = "idle" /\ pc' = "idle" /\ tx.size < SendSize /\ written' = b
      /\ meant' = Append(meant, txAddress) /\ tx' = Appended(tx, b)
      /\ UNCHANGED <<rx, txAddress, packet, cnt, stopSent, ready, timeout, abandoned, late, peripheral, line>>
      /\ UNCHANGED <<first, stored, taken, got, overrun>>
  BY DEF Write, local, reads
<1>2. /\ tx \in Ring /\ tx.size \in Nat /\ written \in Nat /\ b \in Nat /\ txAddress \in Addresses
      /\ meant \in Seq(Addresses) /\ Len(meant) = written
  BY TypesAre DEF IInv, Types
<1>3. /\ tx.size < Limit /\ tx.size < Slots /\ tx.size + 1 < CountMod /\ tx.size \in Index
  BY <1>1, <1>2, WireAssumption, RingAssumption DEF Index
<1>4. /\ tx' \in Ring /\ tx'.size = tx.size + 1 /\ tx'.head = tx.head /\ tx'.tail = Advance(tx.tail)
  BY <1>1, <1>2, <1>3, AppendedIs
<1>5. UpToTail(tx') = Append(u, b) /\ u \in Seq(Nat)
  <2>1. tx.size <= Slots
    BY <1>2, <1>3, RingAssumption
  <2> QED
    BY <1>1, <1>2, <1>3, <2>1, UpToTailAppended, UpToTailSeq
<1>6. /\ meant' \in Seq(Addresses) /\ Len(meant') = b /\ meant'[b] = txAddress
      /\ \A k \in 1 .. written : meant'[k] = meant[k]
  BY <1>1, <1>2, AppendProperties
<1>7. Types'
  <2>1. PeripheralTypeOK'
    BY <1>1, PeripheralKept DEF IInv, Types, TypeOK
  <2> QED
    BY <1>1, <1>2, <1>4, <1>6, <2>1 DEF IInv, Types, TypeOK
<1>8. Gathered'
  <2>1. tx'.size <= SendSize
    BY <1>1, <1>2, <1>4, WireAssumption, RingAssumption
  <2>2. tx'.tail = Ahead(tx'.head, tx'.size)
    <3>1. tx.head \in Index /\ tx.tail = Ahead(tx.head, tx.size)
      BY <1>2 DEF IInv, Gathered, Ring
    <3> QED
      BY <1>3, <1>4, <3>1, AheadAdvance
  <2>3. AllMeant(UpToTail(tx))'
    <3>1. /\ Len(u) \in Nat /\ Len(Append(u, b)) = Len(u) + 1
          /\ \A k \in 1 .. Len(u) : Append(u, b)[k] = u[k]
          /\ Append(u, b)[Len(u) + 1] = b
      BY <1>2, <1>5, AppendProperties, LenProperties
    <3>2. \A k \in 1 .. Len(u) : Meant(u[k])
      BY DEF IInv, Gathered, AllMeant
    <3>3. \A c : Meant(c) => Meant(c)'
      BY <1>1, <1>2, <1>6 DEF Meant
    <3>4. Meant(b)'
      BY <1>1, <1>2, <1>6 DEF Meant
    <3>5. ASSUME NEW k \in 1 .. Len(u) + 1 PROVE Meant(Append(u, b)[k])'
      <4>1. CASE k = Len(u) + 1
        BY <3>1, <3>4, <4>1
      <4>2. CASE k # Len(u) + 1
        <5>1. k \in 1 .. Len(u)
          BY <3>1, <4>2
        <5> QED
          BY <3>1, <3>2, <3>3, <5>1
      <4> QED
        BY <4>1, <4>2
    <3> QED
      BY <1>5, <3>1, <3>5 DEF AllMeant
  <2> QED
    BY <1>1, <2>1, <2>2, <2>3 DEF Gathered, Writing
<1>9. RxInOrder'
  BY <1>1 DEF IInv, RxInOrder
<1> QED
  BY <1>1, <1>7, <1>8, <1>9, IdleKeeps DEF IInv

LEMMA ReadKeeps ==
  ASSUME IInv, Read
  PROVE  IInv'
<1> DEFINE u == UpToTail(rx)
<1>1. /\ pc = "idle" /\ pc' = "idle" /\ rx.size > 0 /\ got' = First(rx) /\ taken' = taken + 1
      /\ rx' = Removed(rx)
      /\ UNCHANGED <<tx, txAddress, packet, cnt, stopSent, ready, timeout, abandoned, late, peripheral, line>>
      /\ UNCHANGED <<written, meant, first, stored, overrun>>
  BY DEF Read, local
<1>2. /\ rx \in Ring /\ rx.size \in Nat /\ taken \in Nat /\ stored \in Seq(Nat) /\ Len(stored) \in Nat
  BY TypesAre, LenProperties DEF IInv, Types
<1>3. Types'
  <2>1. PeripheralTypeOK'
    BY <1>1, PeripheralKept DEF IInv, Types, TypeOK
  <2>2. rx' \in Ring /\ got' \in Nat /\ taken' \in Nat
    BY <1>1, <1>2, RemovedType, FirstType
  <2> QED
    BY <1>1, <2>1, <2>2 DEF IInv, Types, TypeOK
<1>4. Gathered'
  BY <1>1 DEF IInv, Gathered, AllMeant, Meant, Writing
<1>5. ASSUME ~ overrun PROVE RxInOrder'
  <2>1. /\ rx.size <= Slots /\ rx.tail = Ahead(rx.head, rx.size) /\ taken <= Len(stored)
        /\ u = After(stored, taken)
    BY <1>5 DEF IInv, RxInOrder
  <2>2. /\ rx'.size = rx.size - 1 /\ rx'.tail = Ahead(rx'.head, rx'.size)
        /\ u # <<>> /\ First(rx) = Head(u) /\ UpToTail(rx') = Tail(u)
    BY <1>1, <1>2, <2>1, RemovedIs
  <2> HIDE DEF u
  <2>3. taken < Len(stored)
    <3>1. taken >= Len(stored) => After(stored, taken) = <<>>
      BY <1>2, AfterIs
    <3> QED
      BY <1>2, <2>1, <2>2, <3>1
  <2>4. /\ stored[taken + 1] \in Nat /\ u = <<stored[taken + 1]>> \o After(stored, taken + 1)
        /\ After(stored, taken + 1) \in Seq(Nat)
    <3>1. taken + 1 \in Nat
      BY <1>2
    <3> QED
      BY <1>2, <2>1, <2>3, <3>1, AfterIs
  <2>5. Head(u) = stored[taken + 1] /\ Tail(u) = After(stored, taken + 1)
    BY <2>4, HeadTailOfConcat
  <2> QED
    BY <1>1, <1>2, <2>1, <2>2, <2>3, <2>5, RingAssumption DEF RxInOrder
<1>6. RxInOrder'
  BY <1>1, <1>5 DEF RxInOrder
<1> QED
  BY <1>1, <1>3, <1>4, <1>6, IdleKeeps DEF IInv

-----------------------------------------------------------------------------
\* endTransmission

LEMMA EndTransmissionKeeps ==
  ASSUME IInv, EndTransmission
  PROVE  IInv'
<1> PICK u : u = UpToTail(tx)
  OBVIOUS
<1>1. /\ pc = "idle" /\ pc' = "w_send" /\ tx.size > 0 /\ packet' = FromHead(tx) /\ cnt' = tx.size
      /\ tx' = Drained(tx) /\ timeout' = WriteTimeout /\ delivered' = <<>>
      /\ UNCHANGED <<rx, txAddress, stopSent, ready, written, meant, abandoned, late, heard>>
      /\ UNCHANGED <<first, stored, taken, got, overrun>>
      /\ UNCHANGED <<bus, target, addressed, stop, thr, shift, rhr, nack>>
  BY DEF EndTransmission, Goto, history, reads, peripheral
<1>2. /\ tx \in Ring /\ tx.size \in Nat /\ tx.size <= Slots /\ tx.head \in Index
      /\ tx.tail = Ahead(tx.head, tx.size) /\ Slots \in Nat
  <2>1. tx \in Ring /\ tx.size \in Nat
    BY TypesAre DEF IInv
  <2>2. tx.head \in Index
    BY <2>1 DEF Ring
  <2>3. tx.size <= SendSize /\ tx.tail = Ahead(tx.head, tx.size)
    BY DEF IInv, Gathered
  <2>4. tx.size <= Slots /\ Slots \in Nat
    BY <2>1, <2>3, WireAssumption, RingAssumption
  <2> QED
    BY <2>1, <2>2, <2>3, <2>4
<1>3. packet' = u /\ u \in Seq(Nat) /\ Len(u) = tx.size
  BY <1>1, <1>2, FromHeadIs, UpToTailSeq
<1>4. /\ tx' \in Ring /\ tx'.size = 0 /\ tx'.tail = Ahead(tx'.head, 0) /\ UpToTail(tx') = <<>>
  <2>1. Ahead(tx.head, tx.size) \in Index
    BY <1>2, AheadType
  <2>2. /\ tx' \in Ring /\ tx'.size = 0 /\ tx'.tail = tx.tail /\ tx'.head = Ahead(tx.head, tx.size)
    <3>1. tx' = [tx EXCEPT !.head = Ahead(tx.head, tx.size), !.size = 0]
      BY <1>1 DEF Drained
    <3>2. 0 \in 0 .. CountMod - 1
      BY RingAssumption
    <3>3. tx' \in Ring
      BY <1>2, <2>1, <3>1, <3>2 DEF Ring
    <3>4. tx'.size = 0 /\ tx'.tail = tx.tail /\ tx'.head = Ahead(tx.head, tx.size)
      BY <1>2, <3>1 DEF Ring
    <3> QED
      BY <3>3, <3>4
  <2>3. tx'.tail = Ahead(tx'.head, 0)
    BY <1>2, <2>1, <2>2, AheadZero
  <2>4. UpToTail(tx') \in Seq(Nat) /\ Len(UpToTail(tx')) = 0
    BY <1>2, <2>2, UpToTailSeq
  <2> QED
    BY <2>2, <2>3, <2>4, EmptySeq
<1>5. Types'
  <2>1. PeripheralTypeOK'
    <3>1. delivered' \in Seq(Addresses \X Nat)
      BY <1>1, EmptySeq
    <3> QED
      BY <1>1, <3>1 DEF IInv, Types, TypeOK, PeripheralTypeOK
  <2>2. timeout' \in 0 .. Timeout + WriteTimeout
    BY <1>1, WireAssumption
  <2>3. cnt' \in 0 .. CountMod - 1
    BY <1>1, <1>2 DEF Ring
  <2> QED
    BY <1>1, <1>3, <1>4, <2>1, <2>2, <2>3 DEF IInv, Types, TypeOK, Writing
<1>6. Counter'
  BY <1>1, <1>2, <1>3 DEF Counter
<1>7. Gathered'
  <2>1. Len(<<>>) = 0
    BY EmptySeq
  <2>2. AllMeant(UpToTail(tx))'
    BY <1>4, <2>1 DEF AllMeant
  <2>3. AllMeant(packet)'
    BY <1>1, <1>3 DEF IInv, Gathered, AllMeant, Meant
  <2>4. tx'.size <= SendSize /\ tx'.tail = Ahead(tx'.head, tx'.size)
    BY <1>4, WireAssumption
  <2> QED
    BY <2>2, <2>3, <2>4 DEF Gathered
<1>8. RxInOrder'
  BY <1>1 DEF IInv, RxInOrder
<1>9. Quiet' /\ Receiving' /\ Stopping'
  BY <1>1 DEF Quiet, Receiving, Stopping, Reading
<1>10. Sending'
  <2> SUFFICES ASSUME ~ late PROVE Sending'
    BY <1>1 DEF Sending
  <2>1. bus = "free" /\ thr = Nothing /\ shift = Nothing /\ rhr = Nothing /\ ~ nack
    BY <1>1 DEF IInv, Quiet
  <2>2. Len(delivered') = 0
    BY <1>1, EmptySeq
  <2>3. Out' = 0
    BY <1>1, <2>1, <2>2, HeldIs DEF Out
  <2>4. OutAsMeant'
    BY <1>1, <2>1, <2>2 DEF OutAsMeant
  <2> QED
    BY <1>1, <1>2, <1>3, <2>1, <2>3, <2>4 DEF Sending
<1> QED
  BY <1>5, <1>6, <1>7, <1>8, <1>9, <1>10 DEF IInv

\* What every call leaves when it returns, whatever it did
LEMMA ReturnKeeps ==
  ASSUME IInv, Return, ReadStatus,
         UNCHANGED <<tx, txAddress, written, meant, abandoned>>,
         UNCHANGED <<bus, target, addressed, stop, thr, shift, rhr>>,
         late' \in BOOLEAN, overrun' \in BOOLEAN, rx' \in Ring, stored' \in Seq(Nat),
         UNCHANGED <<taken, got>>,
         ~late' => bus = "free" /\ thr = Nothing /\ shift = Nothing /\ rhr = Nothing
  PROVE  /\ Types' /\ Counter' /\ Gathered'
         /\ Quiet' /\ Sending' /\ Receiving' /\ Stopping'
<1>1. /\ pc' = "idle" /\ packet' = <<>> /\ cnt' = 0 /\ stopSent' = FALSE /\ ready' = FALSE /\ timeout' = 0
      /\ first' = heard /\ heard' = heard /\ delivered' = delivered /\ nack' = FALSE
  BY DEF Return, ReadStatus, line
<1>2. Types'
  <2>1. PeripheralTypeOK'
    BY <1>1 DEF IInv, Types, TypeOK, PeripheralTypeOK
  <2>2. packet' \in Seq(Nat) /\ cnt' \in 0 .. CountMod - 1 /\ timeout' \in 0 .. Timeout + WriteTimeout
    BY <1>1, EmptySeq, WireAssumption, RingAssumption
  <2>3. first' \in Nat
    BY <1>1, TypesAre DEF IInv
  <2>4. pc' = "idle" /\ stopSent' \in BOOLEAN /\ ready' \in BOOLEAN
    BY <1>1
  <2> QED
    BY <2>1, <2>2, <2>3, <2>4 DEF IInv, Types, TypeOK
<1>3. Counter' /\ Sending' /\ Receiving' /\ Stopping'
  BY <1>1 DEF Counter, Sending, Receiving, Stopping, Writing, Reading
<1>4. Quiet'
  BY <1>1 DEF Quiet
<1>5. Gathered'
  BY <1>1 DEF IInv, Gathered, AllMeant, Meant, Writing
<1> QED
  BY <1>2, <1>3, <1>4, <1>5

\* A loop gives up: after a refusal the bus is free, otherwise who knows.
LEMMA GiveUpKeeps ==
  ASSUME IInv, GiveUp
  PROVE  IInv'
<1>1. /\ pc \in {"w_send", "w_last", "r_loop"} /\ Return /\ ReadStatus
      /\ late' = (late \/ ~ nack)
      /\ UNCHANGED <<tx, rx, txAddress, written, meant, stored, taken, got, overrun, abandoned>>
      /\ UNCHANGED <<bus, target, addressed, stop, thr, shift, rhr>>
  BY DEF GiveUp, rings
<1>2. late' \in BOOLEAN /\ overrun' \in BOOLEAN /\ rx' \in Ring /\ stored' \in Seq(Nat)
  BY <1>1 DEF IInv, Types, TypeOK
<1>3. ~ late' => bus = "free" /\ thr = Nothing /\ shift = Nothing /\ rhr = Nothing
  BY <1>1 DEF IInv, Sending, Receiving, Writing, Reading
<1>4. RxInOrder'
  BY <1>1 DEF IInv, RxInOrder
<1> QED
  BY <1>1, <1>2, <1>3, <1>4, ReturnKeeps DEF IInv

LEMMA SendCompleteKeeps ==
  ASSUME IInv, SendComplete
  PROVE  IInv'
<1>1. /\ pc = "w_stop" /\ bus = "free" /\ Return /\ ReadStatus
      /\ UNCHANGED <<tx, rx, txAddress, written, meant, stored, taken, got, overrun, abandoned, late>>
      /\ UNCHANGED <<bus, target, addressed, stop, thr, shift, rhr>>
  BY DEF SendComplete, TXCOMP, rings
<1>2. late' \in BOOLEAN /\ overrun' \in BOOLEAN /\ rx' \in Ring /\ stored' \in Seq(Nat)
  BY <1>1 DEF IInv, Types, TypeOK
<1>3. ~ late' => bus = "free" /\ thr = Nothing /\ shift = Nothing /\ rhr = Nothing
  BY <1>1 DEF IInv, Sending, Writing
<1>4. RxInOrder'
  BY <1>1 DEF IInv, RxInOrder
<1> QED
  BY <1>1, <1>2, <1>3, <1>4, ReturnKeeps DEF IInv

\* The first loop of twi_master_write reads the status.
LEMMA PollSendKeeps ==
  ASSUME IInv, PollSend
  PROVE  IInv'
<1>1. /\ pc = "w_send" /\ ~ nack /\ nack' = FALSE /\ timeout > 0 /\ timeout' = timeout - 1
      /\ pc' \in {"w_send", "w_put"} /\ (pc' = "w_put" => thr = Nothing)
      /\ UNCHANGED <<tx, rx, txAddress, packet, cnt, stopSent, ready, heard, delivered>>
      /\ UNCHANGED <<written, meant, first, stored, taken, got, abandoned, late, overrun>>
      /\ UNCHANGED <<bus, target, addressed, stop, thr, shift, rhr>>
  BY DEF PollSend, Polls, ReadStatus, TXRDY, rings, history, reads, line
<1>2. Types'
  <2>1. timeout' \in 0 .. Timeout + WriteTimeout
    BY <1>1, WireAssumption DEF IInv, Types, TypeOK
  <2>2. PeripheralTypeOK'
    BY <1>1 DEF IInv, Types, TypeOK, PeripheralTypeOK
  <2> QED
    BY <1>1, <2>1, <2>2 DEF IInv, Types, TypeOK, Writing
<1>3. Counter' /\ RxInOrder' /\ Quiet' /\ Receiving' /\ Stopping'
  BY <1>1 DEF IInv, Counter, RxInOrder, Quiet, Receiving, Stopping, Reading
<1>4. Gathered'
  BY <1>1 DEF IInv, Gathered, AllMeant, Meant, Writing
<1>5. Sending'
  <2>1. Out' = Out /\ OutAsMeant' = OutAsMeant
    BY <1>1 DEF Out, OutAsMeant
  <2> QED
    BY <1>1, <2>1 DEF IInv, Sending, Writing
<1> QED
  BY <1>2, <1>3, <1>4, <1>5 DEF IInv

\* And hands the next byte to the peripheral: when nothing was refused since,
\* the bus is as the status said.
LEMMA PutByteKeeps ==
  ASSUME IInv, PutByte
  PROVE  IInv'
<1> PICK b : b = packet[Len(packet) - cnt + 1]
  OBVIOUS
<1>1. /\ pc = "w_put" /\ late' = (late \/ nack) /\ cnt' = cnt - 1 /\ thr' = b
      /\ pc' = (IF cnt = 1 THEN "w_last" ELSE "w_send")
      /\ timeout' = (IF cnt = 1 THEN Timeout ELSE timeout)
      /\ bus = "free" => bus' = "write" /\ target' = txAddress /\ addressed' = FALSE /\ stop' = FALSE
      /\ bus # "free" => UNCHANGED <<bus, target, addressed, stop>>
      /\ UNCHANGED <<tx, rx, txAddress, packet, stopSent, ready, shift, rhr, nack, heard, delivered>>
      /\ UNCHANGED <<written, meant, first, stored, taken, got, abandoned, overrun>>
  BY DEF PutByte, Transmit, Begins, rings, reads, line
<1>2. /\ cnt \in Nat /\ cnt > 0 /\ cnt <= Len(packet) /\ Len(packet) \in Nat /\ packet \in Seq(Nat)
      /\ Len(delivered) \in Nat /\ Held(shift) \in 0 .. 1 /\ txAddress \in Addresses
  BY <1>1, TypesAre DEF IInv, Counter
<1>3. b \in Nat /\ cnt' \in Nat /\ cnt' < cnt
  <2>1. Len(packet) - cnt + 1 \in 1 .. Len(packet)
    BY <1>2
  <2>2. b \in Nat
    BY <1>2, <2>1, ElementOfSeq
  <2> QED
    BY <1>1, <1>2, <2>2
<1>4. Types'
  <2>1. bus' \in {"free", "write", "read"} /\ target' \in Addresses /\ stop' \in BOOLEAN
        /\ addressed' \in BOOLEAN
    BY <1>1, <1>2 DEF IInv, Types, TypeOK, PeripheralTypeOK
  <2>2. PeripheralTypeOK'
    BY <1>1, <1>3, <2>1 DEF IInv, Types, TypeOK, PeripheralTypeOK
  <2>3. cnt' \in 0 .. CountMod - 1
    BY <1>2, <1>3, RingAssumption DEF IInv, Types, TypeOK
  <2>4. timeout' \in 0 .. Timeout + WriteTimeout
    BY <1>1, WireAssumption DEF IInv, Types, TypeOK
  <2>5. late' \in BOOLEAN
    BY <1>1 DEF IInv, Types, TypeOK, PeripheralTypeOK
  <2> QED
    BY <1>1, <2>2, <2>3, <2>4, <2>5 DEF IInv, Types, TypeOK, Writing
<1>5. Counter'
  BY <1>1, <1>2 DEF Counter
<1>6. RxInOrder' /\ Quiet' /\ Receiving' /\ Stopping'
  BY <1>1 DEF IInv, RxInOrder, Quiet, Receiving, Stopping, Reading
<1>7. Gathered'
  BY <1>1 DEF IInv, Gathered, AllMeant, Meant, Writing
<1>8. Sending'
  <2> SUFFICES ASSUME ~ late, ~ nack PROVE Sending'
    BY <1>1 DEF Sending
  <2>1. /\ rhr = Nothing /\ bus \in {"free", "write"} /\ OutAsMeant /\ thr = Nothing
        /\ bus = "free" => shift = Nothing /\ delivered = <<>> /\ cnt = Len(packet)
        /\ bus = "write" => target = txAddress /\ Out + cnt = Len(packet) /\ ~ stop
    BY <1>1 DEF IInv, Sending, Writing
  <2>2. bus' = "write" /\ target' = txAddress /\ stop' = FALSE
    BY <1>1, <2>1 DEF IInv, Types, TypeOK, PeripheralTypeOK
  <2>3. Len(delivered) + Held(shift) + cnt = Len(packet)
    <3>1. CASE bus = "free"
      <4>1. Len(delivered) = 0
        BY <2>1, <3>1, EmptySeq
      <4>2. Held(shift) = 0 /\ cnt = Len(packet)
        BY <2>1, <3>1, HeldIs
      <4> QED
        BY <1>2, <4>1, <4>2
    <3>2. CASE bus = "write"
      <4>1. Held(thr) = 0
        BY <2>1, HeldIs
      <4> QED
        BY <1>2, <2>1, <3>2, <4>1 DEF Out
    <3> QED
      BY <2>1, <3>1, <3>2
  <2>4. b # Nothing
    <3>1. Len(packet) - cnt + 1 \in 1 .. Len(packet)
      BY <1>2
    <3>2. b \in 1 .. written
      BY <1>1, <3>1 DEF IInv, Gathered, AllMeant, Meant, Writing
    <3> QED
      BY <3>2 DEF Nothing
  <2>5. Out' + cnt' = Len(packet')
    <3>1. /\ Len(delivered') = Len(delivered) /\ Held(shift') = Held(shift)
          /\ Len(packet') = Len(packet) /\ cnt' = cnt - 1 /\ Held(thr') = 1
          /\ Len(delivered) + Held(shift) + cnt = Len(packet)
      BY <1>1, <2>3, <2>4, HeldIs
    <3>2. Len(delivered) \in Nat /\ Held(shift) \in 0 .. 1 /\ cnt \in Nat /\ Len(packet) \in Nat
      BY <1>2
    <3>3. Out' = Len(delivered') + Held(shift') + Held(thr')
      BY DEF Out
    <3> QED
      BY ONLY <3>1, <3>2, <3>3
  <2>6. OutAsMeant'
    <3>1. Len(packet) - cnt + 1 = Len(delivered) + Held(shift) + 1
      BY <1>2, <2>3
    <3> QED
      BY <1>1, <2>1, <3>1 DEF OutAsMeant
  <2>7. Out' + cnt' <= Len(packet')
    BY <1>1, <1>2, <2>5
  <2>8. pc' \in {"w_send", "w_last"}
    BY <1>1
  <2> QED
    BY <1>1, <2>1, <2>2, <2>5, <2>6, <2>7, <2>8 DEF Sending
<1> QED
  BY <1>4, <1>5, <1>6, <1>7, <1>8 DEF IInv

\* The second loop: all bytes but the one in the shift register are accepted
\* once the holding register is empty.
LEMMA PollLastKeeps ==
  ASSUME IInv, PollLast
  PROVE  IInv'
<1>1. /\ pc = "w_last" /\ ~ nack /\ nack' = FALSE
      /\ UNCHANGED <<tx, rx, txAddress, packet, cnt, stopSent, ready, heard, delivered>>
      /\ UNCHANGED <<written, meant, first, stored, taken, got, abandoned, late, overrun>>
      /\ UNCHANGED <<bus, target, addressed, stop, thr, shift, rhr>>
  BY DEF PollLast, ReadStatus, rings, history, reads, line
<1>2. \/ thr = Nothing /\ pc' = "w_ask" /\ timeout' = timeout
      \/ timeout > 0 /\ timeout' = timeout - 1 /\ pc' = pc
  BY DEF PollLast, TXRDY
<1>3. Types'
  <2>1. timeout' \in 0 .. Timeout + WriteTimeout
    BY <1>2, WireAssumption DEF IInv, Types, TypeOK
  <2>2. PeripheralTypeOK'
    BY <1>1 DEF IInv, Types, TypeOK, PeripheralTypeOK
  <2>3. pc' \in Writing
    BY <1>1, <1>2 DEF Writing
  <2> QED
    BY <1>1, <2>1, <2>2, <2>3 DEF IInv, Types, TypeOK
<1>4. Counter' /\ RxInOrder' /\ Quiet' /\ Receiving' /\ Stopping'
  BY <1>1, <1>2 DEF IInv, Counter, RxInOrder, Quiet, Receiving, Stopping, Reading
<1>5. Gathered'
  BY <1>1, <1>2 DEF IInv, Gathered, AllMeant, Meant, Writing
<1>6. Sending'
  <2> SUFFICES ASSUME ~ late PROVE Sending'
    BY <1>1 DEF Sending
  <2>1. Out' = Out /\ OutAsMeant' = OutAsMeant
    BY <1>1 DEF Out, OutAsMeant
  <2>2. /\ rhr = Nothing /\ bus = "write" /\ OutAsMeant /\ Out + cnt = Len(packet) /\ ~ stop
        /\ target = txAddress /\ Out + cnt <= Len(packet)
    BY <1>1 DEF IInv, Sending, Writing
  <2>3. thr = Nothing => Len(delivered) + 1 >= Len(packet)
    <3>1. cnt = 0 /\ Len(delivered) \in Nat /\ Held(shift) \in 0 .. 1
      BY <1>1, TypesAre DEF IInv, Counter
    <3> QED
      BY <2>2, <3>1, HeldIs DEF Out
  <2> QED
    BY <1>1, <1>2, <2>1, <2>2, <2>3 DEF Sending
<1> QED
  BY <1>3, <1>4, <1>5, <1>6 DEF IInv

\* STOP, with the last byte in the shift register or accepted or refused.
LEMMA SendStopKeeps ==
  ASSUME IInv, SendStop
  PROVE  IInv'
<1>1. /\ pc = "w_ask" /\ pc' = "w_stop" /\ stop' = (stop \/ bus # "free")
      /\ UNCHANGED <<tx, rx, txAddress, packet, cnt, stopSent, ready, timeout, heard, delivered>>
      /\ UNCHANGED <<written, meant, first, stored, taken, got, abandoned, late, overrun>>
      /\ UNCHANGED <<bus, target, addressed, thr, shift, rhr, nack>>
  BY DEF SendStop, AskStop, Goto, rings, local, history, reads, line
<1>2. Types'
  <2>1. PeripheralTypeOK'
    BY <1>1 DEF IInv, Types, TypeOK, PeripheralTypeOK
  <2> QED
    BY <1>1, <2>1 DEF IInv, Types, TypeOK, Writing
<1>3. Counter' /\ RxInOrder' /\ Quiet' /\ Receiving' /\ Stopping'
  BY <1>1 DEF IInv, Counter, RxInOrder, Quiet, Receiving, Stopping, Reading
<1>4. Gathered'
  BY <1>1 DEF IInv, Gathered, AllMeant, Meant, Writing
<1>5. Sending'
  <2>1. Out' = Out /\ OutAsMeant' = OutAsMeant
    BY <1>1 DEF Out, OutAsMeant
  <2> QED
    BY <1>1, <2>1 DEF IInv, Sending, Writing
<1> QED
  BY <1>2, <1>3, <1>4, <1>5 DEF IInv

-----------------------------------------------------------------------------
\* requestFrom

LEMMA RequestFromKeeps ==
  ASSUME IInv, RequestFrom
  PROVE  IInv'
<1>1. /\ pc = "idle" /\ pc' = "r_loop"
      /\ bus' = "read" /\ target' = target /\ addressed' = FALSE
      /\ packet' = <<>> /\ timeout' = Timeout /\ first' = heard
      /\ UNCHANGED <<tx, rx, txAddress, ready, written, meant, stored, taken, got, abandoned, late, overrun>>
      /\ UNCHANGED <<thr, shift, rhr, nack, heard, delivered>>
  BY DEF RequestFrom, Goto, Begins, rings, line
<1>2. PICK quantity \in 1 .. MaxQuantity :
        cnt' = quantity /\ stopSent' = (quantity = 1) /\ stop' = (quantity = 1)
  BY DEF RequestFrom
<1>3. cnt' \in 0 .. CountMod - 1 /\ cnt' > 0
  BY <1>2, WireAssumption, RingAssumption
<1>4. stopSent' = (cnt' = 1) /\ stop' = (cnt' = 1)
  BY <1>2
<1>5. Types'
  <2>1. packet' \in Seq(Nat) /\ first' \in Nat
    BY <1>1, EmptySeq, TypesAre DEF IInv
  <2>2. timeout' \in 0 .. Timeout + WriteTimeout
    BY <1>1, WireAssumption
  <2>3. PeripheralTypeOK'
    BY <1>1, <1>4 DEF IInv, Types, TypeOK, PeripheralTypeOK
  <2> QED
    BY <1>1, <1>3, <1>4, <2>1, <2>2, <2>3 DEF IInv, Types, TypeOK, Reading
<1>6. Counter' /\ Quiet' /\ Sending'
  BY <1>1, <1>3 DEF Counter, Quiet, Sending, Writing
<1>7. Gathered'
  BY <1>1 DEF IInv, Gathered, AllMeant, Meant, Writing
<1>8. RxInOrder'
  BY <1>1 DEF IInv, RxInOrder
<1>9. Receiving' /\ Stopping'
  <2> SUFFICES ASSUME ~ late PROVE Receiving' /\ Stopping'
    BY <1>1 DEF Receiving, Stopping
  <2>1. thr = Nothing /\ shift = Nothing /\ rhr = Nothing /\ ~ nack
    BY <1>1 DEF IInv, Quiet
  <2>2. Len(packet') = 0 /\ Held(rhr') = 0 /\ heard \in Nat
    BY <1>1, <2>1, EmptySeq, HeldIs, TypesAre DEF IInv
  <2>3. heard' = first' + Len(packet') + Held(rhr')
    BY <1>1, <2>2
  <2>4. \A k \in 1 .. Len(packet') : packet'[k] = first' + k
    BY <2>2
  <2>5. Receiving'
    BY <1>1, <2>1, <2>3, <2>4 DEF Receiving
  <2>6. Stopping'
    BY <1>1, <1>4, <2>1 DEF Stopping
  <2> QED
    BY <2>5, <2>6
<1> QED
  BY <1>5, <1>6, <1>7, <1>8, <1>9 DEF IInv

\* The loop in twi_master_read reads the status.
LEMMA PollReadKeeps ==
  ASSUME IInv, PollRead
  PROVE  IInv'
<1>1. /\ pc = "r_loop" /\ ~ nack /\ nack' = FALSE /\ timeout > 0 /\ timeout' = timeout - 1
      /\ ready' = (rhr # Nothing)
      /\ \/ pc' = "r_ask" /\ cnt = 1 /\ ~ stopSent
         \/ pc' = "r_take" /\ ~ (cnt = 1 /\ ~ stopSent) /\ rhr # Nothing
         \/ pc' = "r_loop"
      /\ UNCHANGED <<tx, rx, txAddress, packet, cnt, stopSent, heard, delivered>>
      /\ UNCHANGED <<written, meant, first, stored, taken, got, abandoned, late, overrun>>
      /\ UNCHANGED <<bus, target, addressed, stop, thr, shift, rhr>>
  BY DEF PollRead, Polls, ReadStatus, StopDue, RXRDY, rings, history, reads, line
<1>2. Types'
  <2>1. timeout' \in 0 .. Timeout + WriteTimeout
    BY <1>1, WireAssumption DEF IInv, Types, TypeOK
  <2>2. PeripheralTypeOK'
    BY <1>1 DEF IInv, Types, TypeOK, PeripheralTypeOK
  <2> QED
    BY <1>1, <2>1, <2>2 DEF IInv, Types, TypeOK, Reading
<1>3. Counter' /\ RxInOrder' /\ Quiet' /\ Sending'
  BY <1>1 DEF IInv, Counter, RxInOrder, Quiet, Sending, Writing
<1>4. Gathered'
  BY <1>1 DEF IInv, Gathered, AllMeant, Meant, Writing
<1>5. Receiving'
  BY <1>1 DEF IInv, Receiving, Reading
<1>6. Stopping'
  BY <1>1 DEF IInv, Stopping, Types, TypeOK
<1> QED
  BY <1>2, <1>3, <1>4, <1>5, <1>6 DEF IInv

\* STOP while the last byte is awaited.
LEMMA ReadStopKeeps ==
  ASSUME IInv, ReadStop
  PROVE  IInv'
<1>1. /\ pc = "r_ask" /\ pc' = (IF ready THEN "r_take" ELSE "r_loop")
      /\ stop' = (stop \/ bus # "free") /\ stopSent' = TRUE /\ late' = (late \/ rhr # Nothing)
      /\ UNCHANGED <<tx, rx, txAddress, packet, cnt, ready, timeout, heard, delivered>>
      /\ UNCHANGED <<written, meant, first, stored, taken, got, abandoned, overrun>>
      /\ UNCHANGED <<bus, target, addressed, thr, shift, rhr, nack>>
  BY DEF ReadStop, AskStop, RXRDY, rings, reads, line
<1>2. Types'
  <2>1. PeripheralTypeOK'
    BY <1>1 DEF IInv, Types, TypeOK, PeripheralTypeOK
  <2>2. late' \in BOOLEAN /\ pc' \in Reading
    BY <1>1 DEF IInv, Types, Reading
  <2> QED
    BY <1>1, <2>1, <2>2 DEF IInv, Types, TypeOK
<1>3. Counter' /\ RxInOrder' /\ Quiet' /\ Sending'
  BY <1>1 DEF IInv, Counter, RxInOrder, Quiet, Sending, Writing
<1>4. Gathered'
  BY <1>1 DEF IInv, Gathered, AllMeant, Meant, Writing
<1>5. Receiving' /\ Stopping'
  <2> SUFFICES ASSUME ~ late, rhr = Nothing PROVE Receiving' /\ Stopping'
    BY <1>1 DEF Receiving, Stopping
  <2>1. pc' = "r_loop" /\ cnt = 1 /\ (~ nack => bus = "read")
    BY <1>1 DEF IInv, Receiving, Stopping, Reading
  <2>2. Receiving'
    BY <1>1, <2>1 DEF IInv, Receiving, Reading
  <2>3. Stopping'
    BY <1>1, <2>1 DEF IInv, Stopping
  <2> QED
    BY <2>2, <2>3
<1> QED
  BY <1>2, <1>3, <1>4, <1>5 DEF IInv

\* The byte in RHR is the next one of the slave; when it is the last of the
\* request, STOP was under way when it came and the bus is free.
LEMMA TakeByteKeeps ==
  ASSUME IInv, TakeByte
  PROVE  IInv'
<1>1. /\ pc = "r_take" /\ pc' = (IF cnt = 1 THEN "r_stop" ELSE "r_loop")
      /\ packet' = Append(packet, rhr) /\ rhr' = Nothing /\ cnt' = cnt - 1
      /\ timeout' = Timeout /\ ready' = FALSE
      /\ UNCHANGED <<tx, rx, txAddress, stopSent, written, meant, first, stored, taken, got>>
      /\ UNCHANGED <<abandoned, late, overrun>>
      /\ UNCHANGED <<bus, target, addressed, stop, thr, shift, nack, heard, delivered>>
  BY DEF TakeByte, rings, history, reads, line
<1>2. /\ cnt \in Nat /\ cnt > 0 /\ Len(packet) \in Nat /\ packet \in Seq(Nat)
      /\ first \in Nat /\ heard \in Nat /\ rhr \in Nat
  BY <1>1, TypesAre DEF IInv, Counter, Types
<1>3. /\ packet' \in Seq(Nat) /\ Len(packet') = Len(packet) + 1 /\ packet'[Len(packet) + 1] = rhr
      /\ \A k \in 1 .. Len(packet) : packet'[k] = packet[k]
  BY <1>1, <1>2, AppendProperties
<1>4. cnt' \in 0 .. CountMod - 1 /\ pc' \in Reading /\ (pc' = "r_loop" => cnt' > 0)
  <2>1. cnt \in 0 .. CountMod - 1
    BY DEF IInv, Types, TypeOK
  <2> QED
    BY <1>1, <1>2, <2>1, RingAssumption DEF Reading
<1>5. Types'
  <2>1. timeout' \in 0 .. Timeout + WriteTimeout
    BY <1>1, WireAssumption
  <2>2. rhr' \in 0 .. heard'
    BY <1>1, <1>2 DEF Nothing
  <2>3. PeripheralTypeOK'
    BY <1>1, <2>2 DEF IInv, Types, TypeOK, PeripheralTypeOK
  <2> QED
    BY <1>1, <1>3, <1>4, <2>1, <2>3 DEF IInv, Types, TypeOK
<1>6. Counter' /\ RxInOrder' /\ Quiet' /\ Sending'
  BY <1>1, <1>4 DEF IInv, Counter, RxInOrder, Quiet, Sending, Reading, Writing
<1>7. Gathered'
  BY <1>1, <1>4 DEF IInv, Gathered, AllMeant, Meant, Reading, Writing
<1>8. Receiving' /\ Stopping'
  <2> SUFFICES ASSUME ~ late PROVE Receiving' /\ Stopping'
    BY <1>1 DEF Receiving, Stopping
  <2>1. /\ thr = Nothing /\ shift = Nothing /\ bus \in {"free", "read"} /\ ~ nack
        /\ \A k \in 1 .. Len(packet) : packet[k] = first + k
        /\ heard = first + Len(packet) + Held(rhr) /\ rhr # Nothing /\ rhr = heard
    BY <1>1 DEF IInv, Receiving, Reading
  <2>2. /\ stopSent => cnt = 1 /\ bus = "free"
        /\ ~ stopSent => bus = "read" /\ ~ stop
        /\ cnt = 1 => stopSent
    BY <1>1, <2>1 DEF IInv, Stopping
  <2>3. Held(rhr) = 1 /\ Held(rhr') = 0
    BY <1>1, <2>1, HeldIs
  <2>4. heard' = first' + Len(packet') + Held(rhr')
    BY <1>1, <1>2, <1>3, <2>1, <2>3
  <2>5. \A k \in 1 .. Len(packet') : packet'[k] = first' + k
    <3>1. rhr = first + (Len(packet) + 1)
      BY <1>2, <2>1, <2>3
    <3>2. \A k \in 1 .. Len(packet) : packet'[k] = first' + k
      BY <1>1, <1>3, <2>1
    <3>3. \A k \in 1 .. Len(packet) + 1 : k = Len(packet) + 1 \/ k \in 1 .. Len(packet)
      BY <1>2
    <3> QED
      BY <1>1, <1>3, <3>1, <3>2, <3>3
  <2>6. Receiving'
    BY <1>1, <2>1, <2>2, <2>4, <2>5 DEF Receiving
  <2>7. Stopping'
    BY <1>1, <2>1, <2>2 DEF Stopping
  <2> QED
    BY <2>6, <2>7
<1> QED
  BY <1>5, <1>6, <1>7, <1>8 DEF IInv

\* The call fills the rx ring with what it read.
LEMMA StoredInOrder ==
  ASSUME IInv, rx' = AppendedAll(rx, packet), stored' = stored \o packet,
         taken' = taken, got' = got, overrun' = (overrun \/ rx.size + Len(packet) > Slots)
  PROVE  RxInOrder'
<1> SUFFICES ASSUME ~ overrun' PROVE RxInOrder'
  BY DEF RxInOrder
<1> PICK n : n = Len(packet)
  OBVIOUS
<1>1. /\ rx \in Ring /\ rx.size \in Nat /\ packet \in Seq(Nat) /\ n \in Nat
      /\ stored \in Seq(Nat) /\ Len(stored) \in Nat /\ taken \in Nat
  BY TypesAre, LenProperties DEF IInv, Types
<1>2. ~ overrun /\ rx.size + n <= Slots
  <2>1. ~ overrun /\ ~ (rx.size + n > Slots)
    OBVIOUS
  <2>2. Slots \in Nat
    BY RingAssumption
  <2> QED
    BY <1>1, <2>1, <2>2
<1>3. /\ rx.tail = Ahead(rx.head, rx.size) /\ taken <= Len(stored)
      /\ UpToTail(rx) = After(stored, taken) /\ (taken > 0 => got = stored[taken])
  BY <1>2 DEF IInv, RxInOrder
<1>4. Slots <= Limit /\ Slots < CountMod /\ Slots \in Nat
  BY WireAssumption, RingAssumption
<1>5. Grown(rx, packet, n, rx')
  BY <1>1, <1>2, <1>4, AppendedAllGrown
<1>6. /\ rx'.size = rx.size + n /\ rx'.head = rx.head /\ rx'.tail = Ahead(rx.tail, n)
      /\ UpToTail(rx') = UpToTail(rx) \o packet
  <2>1. SubSeq(packet, 1, n) = packet
    BY <1>1, SubSeqFull
  <2> QED
    BY <1>5, <2>1 DEF Grown
<1>7. rx'.tail = Ahead(rx'.head, rx'.size)
  <2>1. rx.head \in Index /\ rx.size \in 0 .. Slots /\ n \in 0 .. Slots
    <3>1. rx.head \in Index
      BY <1>1 DEF Ring
    <3> QED
      BY <1>1, <1>2, <1>4, <3>1
  <2> QED
    BY <1>2, <1>3, <1>6, <2>1, AheadAhead
<1>8. UpToTail(rx') = After(stored', taken')
  BY <1>1, <1>3, <1>6, AfterConcat
<1>9. taken' <= Len(stored') /\ (taken' > 0 => got' = stored'[taken'])
  <2>1. /\ Len(stored') = Len(stored) + n
        /\ \A k \in 1 .. Len(stored) + n :
             stored'[k] = IF k <= Len(stored) THEN stored[k] ELSE packet[k - Len(stored)]
    BY <1>1, ConcatProperties
  <2> QED
    BY <1>1, <1>3, <2>1
<1> QED
  BY <1>1, <1>2, <1>6, <1>7, <1>8, <1>9 DEF RxInOrder

LEMMA ReadCompleteKeeps ==
  ASSUME IInv, ReadComplete
  PROVE  IInv'
<1>1. /\ pc = "r_stop" /\ bus = "free" /\ Return /\ ReadStatus
      /\ rx' = AppendedAll(rx, packet) /\ stored' = stored \o packet
      /\ overrun' = (overrun \/ rx.size + Len(packet) > Slots)
      /\ UNCHANGED <<tx, txAddress, written, meant, taken, got, abandoned, late>>
      /\ UNCHANGED <<bus, target, addressed, stop, thr, shift, rhr>>
  BY DEF ReadComplete, TXCOMP
<1>2. late' \in BOOLEAN /\ overrun' \in BOOLEAN
  BY <1>1 DEF IInv, Types
<1>3. rx' \in Ring /\ stored' \in Seq(Nat)
  <2>1. rx \in Ring /\ packet \in Seq(Nat) /\ stored \in Seq(Nat)
    BY TypesAre DEF IInv, Types
  <2> QED
    BY <1>1, <2>1, AppendedAllType, ConcatProperties
<1>4. ~ late' => bus = "free" /\ thr = Nothing /\ shift = Nothing /\ rhr = Nothing
  BY <1>1 DEF IInv, Receiving, Reading
<1>5. RxInOrder'
  BY <1>1, StoredInOrder
<1> QED
  BY <1>1, <1>2, <1>3, <1>4, <1>5, ReturnKeeps DEF IInv

-----------------------------------------------------------------------------
\* The invariant, and what it says

LEMMA StutterKeeps ==
  ASSUME IInv, UNCHANGED vars
  PROVE  IInv'
<1>1. Still /\ UNCHANGED <<peripheral, line>>
  BY DEF vars, Still
<1>2. PeripheralTypeOK'
  BY <1>1, PeripheralKept DEF IInv, Types, TypeOK
<1>3. Quiet' /\ Sending' /\ Receiving' /\ Stopping'
  BY <1>1, StillIs
  DEF IInv, Quiet, Sending, OutAsMeant, Out, Receiving, Stopping, peripheral, line
<1> QED
  BY <1>1, <1>2, <1>3, StillKeeps DEF IInv

LEMMA NextKeeps ==
  ASSUME IInv, Next
  PROVE  IInv'
<1>1. CASE Call
  BY <1>1, BeginKeeps, BeginTransmissionKeeps, WriteKeeps, ReadKeeps, EndTransmissionKeeps,
     RequestFromKeeps DEF Call
<1>2. CASE Loop
  BY <1>2, GiveUpKeeps, PollSendKeeps, PutByteKeeps, PollLastKeeps, SendStopKeeps,
     SendCompleteKeeps, PollReadKeeps, ReadStopKeeps, TakeByteKeeps, ReadCompleteKeeps DEF Loop
<1>3. CASE Bus /\ Still
  BY <1>3, BusKeeps
<1> QED
  BY <1>1, <1>2, <1>3 DEF Next, Still

LEMMA Inductive == Spec => []IInv
<1>1. IInv /\ [Next]_vars => IInv'
  BY NextKeeps, StutterKeeps
<1> QED
  BY InitInv, <1>1, PTL DEF Spec

\* The two rings stay rings, and the counters of the loops do not run below
\* zero.
THEOREM TypeCorrect == Spec => []TypeOK
<1>1. IInv => TypeOK
  BY DEF IInv, Types
<1> QED
  BY Inductive, <1>1, PTL

\* requestFrom collects what its slave sends during the call, in order, and no
\* byte that an earlier call left in the receive register, unless a time-out or
\* a STOP that came too late left one there.
THEOREM RequestsOwnBytes == Spec => []OwnBytes
<1>1. IInv => OwnBytes
  <2> SUFFICES ASSUME IInv, pc \in Reading, ~ late
               PROVE  packet = [k \in 1 .. Len(packet) |-> first + k]
    BY DEF OwnBytes
  <2> PICK n : n = Len(packet)
    OBVIOUS
  <2> DEFINE f == [k \in 1 .. n |-> first + k]
  <2>1. packet \in Seq(Nat) /\ n \in Nat /\ first \in Nat
    BY TypesAre DEF IInv, Types
  <2>2. \A k \in 1 .. n : packet[k] = first + k
    BY DEF IInv, Receiving, Reading
  <2>3. f \in [1 .. n -> Nat]
    BY <2>1
  <2>4. f \in Seq(Nat) /\ Len(f) = n /\ \A k \in 1 .. n : packet[k] = f[k]
    <3>1. \A k \in 1 .. n : packet[k] = f[k]
      BY <2>2
    <3> HIDE DEF f
    <3> QED
      BY <2>1, <2>3, <3>1, CountingSeq
  <2> HIDE DEF f
  <2>5. packet = f
    BY <2>1, <2>4, SeqEqual
  <2> QED
    BY <2>5 DEF f
<1> QED
  BY Inductive, <1>1, PTL

\* Unless requestFrom was called with too little room left, read returns the
\* bytes of the requests in order and the ring holds those not read yet.
THEOREM RequestsReadInOrder == Spec => []ReadsInOrder
<1>1. IInv => ReadsInOrder
  <2> SUFFICES ASSUME IInv, ~ overrun
               PROVE  /\ FromHead(rx) = After(stored, taken)
                      /\ taken > 0 => got = stored[taken]
    BY DEF ReadsInOrder, After
  <2>1. /\ rx.size <= Slots /\ rx.tail = Ahead(rx.head, rx.size)
        /\ UpToTail(rx) = After(stored, taken) /\ (taken > 0 => got = stored[taken])
    BY DEF IInv, RxInOrder
  <2>2. rx \in Ring
    BY TypesAre DEF IInv
  <2> QED
    BY <2>1, <2>2, FromHeadIs
<1> QED
  BY Inductive, <1>1, PTL

\* A slave accepts only bytes that were written for it, each once and in
\* order, unless a transmission was abandoned, or a time-out or a byte written
\* on top of a refusal left the bus occupied.
THEOREM DeliveredToItsSlave == Spec => []OnlyToItsSlave
<1>1. IInv => OnlyToItsSlave
  <2> SUFFICES ASSUME IInv, pc \in Writing, ~ late, ~ abandoned,
                      NEW j \in 1 .. Len(delivered)
               PROVE  delivered[j] = <<meant[packet[j]], packet[j]>>
    BY DEF OnlyToItsSlave, Writing
  <2>1. delivered[j] = <<txAddress, packet[j]>> /\ Out + cnt <= Len(packet)
    BY DEF IInv, Sending, OutAsMeant
  <2>2. j \in 1 .. Len(packet)
    <3>1. /\ Len(delivered) \in Nat /\ Len(packet) \in Nat /\ cnt \in Nat
          /\ Held(shift) \in 0 .. 1 /\ Held(thr) \in 0 .. 1
      BY TypesAre DEF IInv
    <3> QED
      BY <2>1, <3>1 DEF Out
  <2>3. meant[packet[j]] = txAddress
    BY <2>2 DEF IInv, Gathered, AllMeant, Meant
  <2> QED
    BY <2>1, <2>3
<1> QED
  BY Inductive, <1>1, PTL

\* When endTransmission succeeds, the slave has accepted all bytes but perhaps
\* the last one.
THEOREM AllButLastAccepted == Spec => []AcceptedButLast
<1>1. IInv => AcceptedButLast
  <2> SUFFICES ASSUME IInv, pc = "w_stop", ~ late
               PROVE  Len(delivered) >= Len(packet) - 1
    BY DEF AcceptedButLast
  <2>1. Len(delivered) + 1 >= Len(packet)
    BY DEF IInv, Sending, Writing
  <2>2. Len(delivered) \in Nat /\ Len(packet) \in Nat
    BY TypesAre DEF IInv
  <2> QED
    BY <2>1, <2>2
<1> QED
  BY Inductive, <1>1, PTL

=============================================================================
