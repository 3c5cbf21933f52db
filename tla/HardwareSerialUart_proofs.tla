---------------------- MODULE HardwareSerialUart_proofs ----------------------
(***************************************************************************)
(* Theorems about HardwareSerialUart, for arrays and counters of every     *)
(* width, any number of bytes and any calls, further ones of begin and     *)
(* flush included.                                                         *)
(***************************************************************************)
EXTENDS HardwareSerialUart, ByteRing_proofs

-----------------------------------------------------------------------------
\* Bytes that left the tx ring: on the wire, in the shift and holding registers.

Out == OutOf(wire, shift, thr)

RegistersInOrder == OutInOrder(wire, shift, thr)

LEMMA OutType ==
  ASSUME PeripheralTypeOK
  PROVE  Len(wire) \in Nat /\ Out \in Nat
BY OutOfType DEF PeripheralTypeOK, Out

\* The peripheral moves bytes from register to register and onto the wire.
LEMMA RegistersMove ==
  ASSUME PeripheralTypeOK, RegistersInOrder, LoadShift \/ ShiftOut \/ Receive
  PROVE  RegistersInOrder' /\ Out' = Out
<1>1. wire \in Seq(Nat) /\ shift \in Nat /\ thr \in Nat /\ OutInOrder(wire, shift, thr)
  BY DEF PeripheralTypeOK, RegistersInOrder
<1>2. CASE LoadShift
  BY <1>1, <1>2, OutLoaded DEF LoadShift, RegistersInOrder, Out
<1>3. CASE ShiftOut
  BY <1>1, <1>3, OutShifted DEF ShiftOut, RegistersInOrder, Out
<1>4. CASE Receive
  BY <1>4 DEF Receive, RegistersInOrder, Out
<1> QED
  BY <1>2, <1>3, <1>4

\* A byte handed to the free holding register is the next one.
LEMMA RegistersTake ==
  ASSUME PeripheralTypeOK, RegistersInOrder, TXRDY, thr' = Out + 1, UNCHANGED <<shift, wire>>
  PROVE  RegistersInOrder' /\ Out' = Out + 1
<1>1. /\ wire \in Seq(Nat) /\ shift \in Nat /\ OutInOrder(wire, shift, NoByte)
      /\ thr' = OutOf(wire, shift, NoByte) + 1 /\ Out + 1 = thr'
  BY DEF PeripheralTypeOK, RegistersInOrder, TXRDY, Out
<1>2. OutInOrder(wire, shift, thr') /\ OutOf(wire, shift, thr') = thr'
  BY <1>1, OutTakes
<1> QED
  BY <1>1, <1>2 DEF RegistersInOrder, Out

\* What left and what is in a ring, when each cell holds what its place says.
LEMMA CountedOut ==
  ASSUME PeripheralTypeOK, RegistersInOrder, NEW r, r.size \in Nat,
         \A i \in 1 .. r.size : r.buf[Ahead(r.head, i - 1)] = Out + i
  PROVE  wire \o Register(shift) \o Register(thr) \o FromHead(r) = [k \in 1 .. Out + r.size |-> k]
<1>1. wire \in Seq(Nat) /\ shift \in Nat /\ thr \in Nat /\ OutInOrder(wire, shift, thr)
  BY DEF PeripheralTypeOK, RegistersInOrder
<1>2. \A i \in 1 .. r.size : r.buf[Ahead(r.head, i - 1)] = OutOf(wire, shift, thr) + i
  BY DEF Out
<1>3. wire \o Register(shift) \o Register(thr) \o FromHead(r)
        = [k \in 1 .. OutOf(wire, shift, thr) + r.size |-> k]
  BY <1>1, <1>2, OutCounted
<1> QED
  BY <1>3 DEF Out

-----------------------------------------------------------------------------
\* Where the pointers are set.  begin sets them one after the other, with the
\* receive interrupt unmasked; tx bytes are there only after it.
Placed ==
  /\ pc \notin BeginSteps => {tx.head, tx.tail, rx.head, rx.tail} \subseteq Index
  /\ tx.size > 0 => tx.head \in Index
  /\ pc \in {"b_rxtail", "b_txsize", "b_txhead", "b_txtail"} => rx.head \in Index
  /\ pc \in {"b_txsize", "b_txhead", "b_txtail"} => rx.tail \in Index
  /\ pc = "b_txtail" => tx.head \in Index

PlacedInv == TypeOK /\ Placed

LEMMA PointerAdvance ==
  ASSUME NEW p \in Pointer
  PROVE  Advance(p) \in Index
BY RingAssumption DEF Pointer, Null, Advance, Index

LEMMA StaticSteps ==
  ASSUME NEW r \in StaticRing
  PROVE  /\ r.buf \in [Index -> Nat] /\ r.head \in Pointer /\ r.tail \in Pointer
         /\ r.size \in 0 .. Slots /\ Slots + 1 = CountMod /\ Slots \in Nat
         /\ AdvanceTail(r) \in StaticRing /\ AdvanceTail(r).tail = Advance(r.tail)
         /\ AdvanceHead(r) \in StaticRing /\ AdvanceHead(r).head = Advance(r.head)
         /\ CountUp(r) \in StaticRing /\ CountDown(r) \in StaticRing
<1>1. /\ r.buf \in [Index -> Nat] /\ r.head \in Pointer /\ r.tail \in Pointer
      /\ r.size \in 0 .. CountMod - 1 /\ Slots + 1 = CountMod /\ Slots \in Nat
  BY UartAssumption, RingAssumption DEF StaticRing
<1>2. AdvanceTail(r) \in StaticRing /\ AdvanceTail(r).tail = Advance(r.tail)
  BY <1>1, PointerAdvance DEF AdvanceTail, StaticRing, Pointer
<1>3. AdvanceHead(r) \in StaticRing /\ AdvanceHead(r).head = Advance(r.head)
  BY <1>1, PointerAdvance DEF AdvanceHead, StaticRing, Pointer
<1>4. CountUp(r) \in StaticRing
  BY RingAssumption DEF CountUp, StaticRing
<1>5. CountDown(r) \in StaticRing
  BY RingAssumption DEF CountDown, StaticRing
<1> QED
  BY <1>1, <1>2, <1>3, <1>4, <1>5

LEMMA StaticAssign ==
  ASSUME NEW r \in StaticRing
  PROVE  /\ 0 \in Index
         /\ [r EXCEPT !.head = 0] \in StaticRing
         /\ [r EXCEPT !.tail = 0] \in StaticRing
         /\ [r EXCEPT !.size = 0] \in StaticRing
<1>1. 0 \in Index /\ 0 \in Pointer /\ 0 \in 0 .. CountMod - 1
  BY RingAssumption DEF Index, Pointer
<1> QED
  BY <1>1 DEF StaticRing

LEMMA StaticStore ==
  ASSUME NEW r \in StaticRing, NEW b \in Nat
  PROVE  Store(r, b) \in StaticRing
BY DEF Store, StaticRing

-----------------------------------------------------------------------------
\* Types

LEMMA PlacedInit == Init => PlacedInv
<1> SUFFICES ASSUME Init PROVE PlacedInv
  OBVIOUS
<1>1. PeripheralTypeOK
  <2>1. <<>> \in Seq(Nat)
    BY EmptySeq
  <2>2. wire \in Seq(Nat)
    BY <2>1, Zenon DEF Init, PeripheralInit
  <2>3. arrived \in 0 .. MaxArrivals /\ thr \in Nat /\ shift \in Nat /\ rhr \in Nat
    BY ArrivalsAssumption, SMT DEF Init, PeripheralInit, NoByte
  <2>4. enabled \in BOOLEAN /\ txIrq \in BOOLEAN /\ rxIrq \in BOOLEAN
    BY DEF Init, PeripheralInit
  <2> QED
    BY <2>2, <2>3, <2>4, Zenon DEF PeripheralTypeOK
<1>2. tx \in StaticRing /\ rx \in StaticRing /\ tx.size = 0
  <2> DEFINE e == [i \in Index |-> NoByte]
  <2>1. EmptyRing = [buf |-> e, head |-> 0, tail |-> 0, size |-> 0]
    BY Zenon DEF EmptyRing
  <2>2. e \in [Index -> Nat] /\ Null \in Pointer /\ 0 \in 0 .. CountMod - 1
    BY RingAssumption DEF NoByte, Pointer
  <2> HIDE DEF e
  <2>3. tx = [EmptyRing EXCEPT !.head = Null, !.tail = Null] /\ rx = tx
    BY Zenon DEF Init
  <2> QED
    BY <2>1, <2>2, <2>3 DEF StaticRing
<1>3. pc = "b_init" /\ pc \in Steps
  BY DEF Init, Steps, BeginSteps
<1>4. {accepted, taken, got} \subseteq Nat /\ spoiled \subseteq {"tx", "rx"} /\ missed \in BOOLEAN
  <2>1. {accepted, taken, got} \subseteq Nat
    BY DEF Init, NoByte
  <2>2. spoiled \subseteq {"tx", "rx"} /\ missed \in BOOLEAN
    BY DEF Init
  <2> QED
    BY <2>1, <2>2
<1>5. Placed
  BY <1>2, <1>3 DEF Placed, BeginSteps
<1> QED
  BY <1>1, <1>2, <1>3, <1>4, <1>5 DEF PlacedInv, TypeOK

\* Steps of the foreground that leave both rings alone.
LEMMA PlacedLook ==
  ASSUME PlacedInv,
         \/ Call \/ WriteTestSize \/ WriteTestReady \/ WriteDirect \/ WriteWait \/ WriteEnable
         \/ WriteAppend \/ ReadTest \/ FlushWait \/ BeginPeripheral \/ BeginEnable
  PROVE  PlacedInv'
<1> USE DEF Call, CallWrite, CallRead, CallFlush, CallBegin, WriteTestSize, WriteTestReady,
            WriteDirect, WriteWait, WriteEnable, WriteAppend, ReadTest, FlushWait,
            BeginPeripheral, BeginEnable, Look, Goto, rings, results, history
<1>1. tx' = tx /\ rx' = rx
  OBVIOUS
<1>2. PeripheralTypeOK'
  <2> USE DEF PlacedInv, TypeOK, PeripheralTypeOK, registers
  <2>1. CASE WriteDirect
    BY <2>1 DEF Transmit
  <2>2. CASE WriteEnable
    BY <2>2 DEF UnmaskTx
  <2>3. CASE BeginPeripheral
    BY <2>3 DEF Restart, NoByte
  <2>4. CASE BeginEnable
    BY <2>4
  <2>5. CASE ~(WriteDirect \/ WriteEnable \/ BeginPeripheral \/ BeginEnable)
    <3>1. UNCHANGED registers
      BY <2>5
    <3> QED
      BY <3>1
  <2> QED
    BY <2>1, <2>2, <2>3, <2>4, <2>5
<1>3. pc' \in Steps
  BY DEF Steps, WriteSteps, ReadSteps, FlushSteps, BeginSteps
<1>4. Placed'
  BY <1>1 DEF PlacedInv, Placed, BeginSteps
<1>5. {accepted', taken', got'} \subseteq Nat
  <2>1. pc = "r_test" => First(rx) \in Nat
    BY DEF PlacedInv, TypeOK, Placed, StaticRing, First, BeginSteps
  <2> QED
    BY <2>1 DEF PlacedInv, TypeOK, NoByte
<1>6. spoiled' \subseteq {"tx", "rx"} /\ missed' \in BOOLEAN
  BY DEF PlacedInv, TypeOK
<1> QED
  BY <1>1, <1>2, <1>3, <1>4, <1>5, <1>6 DEF PlacedInv, TypeOK

\* Steps of the foreground that change a ring.
LEMMA PlacedChange ==
  ASSUME PlacedInv,
         \/ WriteStore \/ WriteAdvance \/ WriteCount \/ ReadAdvance \/ ReadCount
         \/ FlushAssign \/ BeginAssign
  PROVE  PlacedInv'
<1> USE DEF WriteStore, WriteAdvance, WriteCount, ReadAdvance, ReadCount, FlushAssign,
            BeginAssign, AssignTx, AssignRx, Goto, results, history
<1>1. PeripheralTypeOK'
  BY DEF PlacedInv, TypeOK, PeripheralTypeOK, registers
<1>2. pc' \in Steps
  BY DEF Steps, WriteSteps, ReadSteps, FlushSteps, BeginSteps
<1>3. tx \in StaticRing /\ rx \in StaticRing /\ accepted \in Nat /\ accepted + 1 \in Nat
  BY DEF PlacedInv, TypeOK
<1>4. tx' \in StaticRing /\ rx' \in StaticRing
  <2>1. CASE WriteStore
    BY <1>3, <2>1, StaticStore
  <2>2. CASE WriteAdvance \/ WriteCount \/ ReadAdvance \/ ReadCount
    BY <1>3, <2>2, StaticSteps
  <2>3. CASE FlushAssign \/ BeginAssign
    BY <1>3, <2>3, StaticAssign
  <2> QED
    BY <2>1, <2>2, <2>3
<1>5. {accepted', taken', got'} \subseteq Nat /\ spoiled' \subseteq {"tx", "rx"} /\ missed' \in BOOLEAN
  BY <1>3 DEF PlacedInv, TypeOK
<1>6. Placed'
  <2>1. 0 \in Index /\ \A p \in Pointer : Advance(p) \in Index
    BY <1>3, StaticAssign, PointerAdvance
  <2>2. CASE WriteStore \/ WriteAdvance \/ WriteCount \/ ReadAdvance \/ ReadCount
    <3>1. pc \notin BeginSteps /\ pc' \notin BeginSteps
      BY <2>2 DEF BeginSteps
    <3>2. {tx'.head, tx'.tail, rx'.head, rx'.tail} \subseteq Index
      BY <1>3, <2>1, <2>2, <3>1
         DEF PlacedInv, Placed, Store, AdvanceTail, AdvanceHead, CountUp, CountDown, StaticRing
    <3> QED
      BY <3>1, <3>2 DEF Placed, BeginSteps
  <2>3. CASE FlushAssign
    <3>1. pc \notin BeginSteps /\ pc' \notin BeginSteps
      BY <2>3 DEF BeginSteps
    <3>2. {tx'.head, tx'.tail, rx'.head, rx'.tail} \subseteq Index
      BY <1>3, <2>1, <2>3, <3>1 DEF PlacedInv, Placed, StaticRing
    <3> QED
      BY <3>1, <3>2 DEF Placed, BeginSteps
  <2>4. CASE BeginAssign
    BY <1>3, <2>1, <2>4, RingAssumption DEF PlacedInv, Placed, StaticRing, BeginSteps
  <2> QED
    BY <2>2, <2>3, <2>4
<1> QED
  BY <1>1, <1>2, <1>4, <1>5, <1>6 DEF PlacedInv, TypeOK

LEMMA RxAppendedType ==
  ASSUME NEW b \in Nat, rx \in StaticRing
  PROVE  /\ RxAppended(b) \in StaticRing /\ RxAppended(b).head = rx.head
         /\ RxAppended(b).tail \in {rx.tail, Advance(rx.tail)}
<1> DEFINE r == IF rx.tail = Null THEN rx ELSE Store(rx, b)
<1>1. r \in StaticRing /\ r.head = rx.head /\ r.tail = rx.tail
  BY StaticStore DEF Store, StaticRing
<1> HIDE DEF r
<1>2. /\ AdvanceTail(r) \in StaticRing /\ AdvanceTail(r).head = rx.head
      /\ AdvanceTail(r).tail = Advance(rx.tail)
  BY <1>1, StaticSteps DEF AdvanceTail, StaticRing
<1>3. /\ CountUp(AdvanceTail(r)) \in StaticRing /\ CountUp(AdvanceTail(r)).head = rx.head
      /\ CountUp(AdvanceTail(r)).tail = Advance(rx.tail)
  <2> DEFINE q == AdvanceTail(r)
  <2>1. q \in StaticRing /\ CountUp(q) \in StaticRing
    BY <1>2, StaticSteps
  <2> HIDE DEF q
  <2>2. CountUp(q).head = q.head /\ CountUp(q).tail = q.tail
    BY <2>1 DEF CountUp, StaticRing
  <2> QED
    BY <1>2, <2>1, <2>2 DEF q
<1> QED
  BY <1>3 DEF RxAppended, r

LEMMA TxRemovedType ==
  ASSUME tx \in StaticRing
  PROVE  /\ Removed(tx) \in StaticRing /\ Removed(tx).tail = tx.tail
         /\ tx.size > 0 => Removed(tx).head = Advance(tx.head)
<1>1. AdvanceHead(tx) \in StaticRing /\ AdvanceHead(tx).head = Advance(tx.head)
  BY StaticSteps
<1>2. AdvanceHead(tx).tail = tx.tail
  BY DEF AdvanceHead, StaticRing
<1> DEFINE q == AdvanceHead(tx)
<1>3. q \in StaticRing /\ CountDown(q) \in StaticRing
  BY <1>1, StaticSteps
<1> HIDE DEF q
<1>4. CountDown(q).head = q.head /\ CountDown(q).tail = q.tail
  BY <1>3 DEF CountDown, StaticRing
<1> QED
  BY <1>1, <1>2, <1>3, <1>4 DEF Removed, q

LEMMA PlacedHandler == ASSUME PlacedInv, Handler PROVE PlacedInv'
<1> USE DEF Handler, results
<1>1. /\ pc' = pc /\ UNCHANGED <<accepted, taken, got, enabled, shift, wire, arrived, rxIrq>>
      /\ tx \in StaticRing /\ rx \in StaticRing /\ rhr \in Nat /\ tx.size \in 0 .. Slots
  BY StaticSteps DEF PlacedInv, TypeOK, PeripheralTypeOK
<1>2. /\ rx' \in StaticRing /\ rx'.head = rx.head /\ rx'.tail \in {rx.tail, Advance(rx.tail)}
      /\ rhr' \in Nat /\ spoiled' \subseteq {"tx", "rx"}
  <2>1. CASE RXRDY
    <3>1. rx' = RxAppended(rhr) /\ rhr' = NoByte
      BY <2>1 DEF RxReadyCallback
    <3>2. spoiled' \subseteq {"tx", "rx"}
      BY <2>1 DEF RxReadyCallback, PlacedInv, TypeOK
    <3> QED
      BY <1>1, <3>1, <3>2, RxAppendedType DEF NoByte
  <2>2. CASE ~RXRDY
    BY <1>1, <2>2 DEF PlacedInv, TypeOK
  <2> QED
    BY <2>1, <2>2
<1>3. CASE TXEMPTY /\ tx.size > 0
  <2>1. thr' \in {thr, First(tx)} /\ tx' = Removed(tx) /\ txIrq' = txIrq /\ missed' = missed
    BY <1>1, <1>3 DEF TxEmptyCallback, Transmit
  <2>2. tx.head \in Index /\ tx.buf \in [Index -> Nat]
    BY <1>1, <1>3 DEF PlacedInv, Placed, StaticRing
  <2>3. First(tx) \in Nat /\ Advance(tx.head) \in Index
    BY <2>2, PointerAdvance DEF First, Pointer
  <2>4. tx' \in StaticRing /\ tx'.tail = tx.tail /\ tx'.head \in Index
    BY <1>1, <1>3, <2>1, <2>3, TxRemovedType
  <2>5. rx.tail \in Pointer /\ Advance(rx.tail) \in Index
    BY <1>1, StaticSteps, PointerAdvance
  <2>6. TypeOK'
    BY <1>1, <1>2, <2>1, <2>3, <2>4 DEF PlacedInv, TypeOK, PeripheralTypeOK
  <2>7. Placed'
    BY <1>1, <1>2, <2>4, <2>5 DEF PlacedInv, Placed
  <2> QED
    BY <2>6, <2>7 DEF PlacedInv
<1>4. CASE ~(TXEMPTY /\ tx.size > 0)
  <2>1. tx' = tx /\ thr' = thr /\ txIrq' \in BOOLEAN /\ missed' \in BOOLEAN
    <3>1. CASE TXEMPTY
      <4>1. tx.size = 0
        BY <1>1, <1>4, <3>1
      <4>2. tx' = tx /\ thr' = thr /\ txIrq' = FALSE
        BY <3>1, <4>1 DEF TxEmptyCallback, MaskTx
      <4>3. missed' = (missed \/ pc \in Appending)
        BY <3>1, <4>1 DEF TxEmptyCallback
      <4> QED
        BY <4>2, <4>3
    <3>2. CASE ~TXEMPTY
      BY <3>2 DEF PlacedInv, TypeOK, PeripheralTypeOK
    <3> QED
      BY <3>1, <3>2
  <2>2. rx.tail \in Pointer /\ Advance(rx.tail) \in Index
    BY <1>1, StaticSteps, PointerAdvance
  <2>3. TypeOK'
    BY <1>1, <1>2, <2>1 DEF PlacedInv, TypeOK, PeripheralTypeOK
  <2>4. Placed'
    BY <1>1, <1>2, <2>1, <2>2 DEF PlacedInv, Placed
  <2> QED
    BY <2>3, <2>4 DEF PlacedInv
<1> QED
  BY <1>3, <1>4

LEMMA PlacedPeripheral == ASSUME PlacedInv, Peripheral PROVE PlacedInv'
<1>1. UNCHANGED <<pc, tx, rx, accepted, taken, got, spoiled, missed>>
  BY DEF Peripheral, rings, results, history
<1>2. PeripheralTypeOK'
  <2> USE DEF PlacedInv, TypeOK, PeripheralTypeOK, Peripheral
  <2>1. CASE LoadShift
    BY <2>1 DEF LoadShift, NoByte
  <2>2. CASE ShiftOut
    BY <2>2 DEF ShiftOut, NoByte
  <2>3. CASE Receive
    BY <2>3, ArrivalsAssumption DEF Receive
  <2> QED
    BY <2>1, <2>2, <2>3
<1> QED
  BY <1>1, <1>2 DEF PlacedInv, TypeOK, Placed

LEMMA PlacedNext == ASSUME PlacedInv, [Next]_vars PROVE PlacedInv'
<1>1. CASE UNCHANGED vars
  BY <1>1 DEF PlacedInv, TypeOK, PeripheralTypeOK, Placed, vars, rings, results, history, registers
<1> QED
  BY <1>1, PlacedLook, PlacedChange, PlacedHandler, PlacedPeripheral DEF Next, Foreground

\* Whatever calls are made and wherever the interrupts come in, begin between
\* unmasking and setting up included, no pointer leaves its array.
THEOREM UartType == Spec => []TypeOK
<1>1. PlacedInv => TypeOK
  BY DEF PlacedInv
<1> QED
  BY <1>1, PlacedInit, PlacedNext, PTL DEF Spec

\* What spoiled a ring once stays noted.
LEMMA SpoiledStays == ASSUME [Next]_vars PROVE spoiled \subseteq spoiled'
BY DEF vars, Next, Call, CallWrite, CallRead, CallFlush, CallBegin, Foreground, WriteTestSize,
       WriteTestReady, WriteDirect, WriteWait, WriteEnable, WriteAppend, WriteStore,
       WriteAdvance, WriteCount, ReadTest, ReadAdvance, ReadCount, FlushWait, FlushAssign,
       BeginPeripheral, BeginEnable, BeginAssign, AssignTx, AssignRx, Look, Handler,
       RxReadyCallback, Peripheral, history

-----------------------------------------------------------------------------
\* Until the tx ring is spoiled: where every accepted byte is, slot by slot.

TxRingInOrder ==
  \A i \in Index : i < tx.size => tx.buf[Ahead(tx.head, i)] = Out + 1 + i

TxConservation == accepted = Out + tx.size

\* The tail is one cell ahead of the count between the last two statements of
\* tx_buffer_append, and the pointers are apart while they are reset.
TxPointers ==
  /\ pc \notin {"w_count", "f_txtail", "b_txtail"} => tx.tail = Ahead(tx.head, tx.size)
  /\ pc = "w_count" => tx.tail = Ahead(tx.head, tx.size + 1)

\* The byte being appended is in its cell before it counts.
TxStored ==
  /\ pc = "w_advance" => tx.buf[tx.tail] = accepted + 1
  /\ pc = "w_count" => tx.buf[Ahead(tx.head, tx.size)] = accepted + 1

\* What the foreground found out and the handler cannot undo.  A begin that
\* finds the ring in use spoils it at its first statement.
TxKnown ==
  /\ pc \in {"w_advance", "w_count"} => tx.size < Slots
  /\ pc \in {"w_ready", "w_direct", "f_txhead", "f_txtail"} \cup (BeginSteps \ {"b_init"}) =>
       tx.size = 0
  /\ pc = "w_direct" => TXRDY
  /\ pc \in {"f_txtail", "b_txtail"} => tx.head = 0

TxSafe ==
  /\ RegistersInOrder
  /\ TxRingInOrder
  /\ TxConservation
  /\ TxPointers
  /\ TxStored
  /\ TxKnown

TxInv == PlacedInv /\ ("tx" \notin spoiled => TxSafe)

LEMMA TxInit == Init => TxInv
<1> SUFFICES ASSUME Init PROVE TxInv
  OBVIOUS
<1>1. PlacedInv
  BY PlacedInit
<1>2. /\ wire = <<>> /\ Len(wire) = 0 /\ thr = NoByte /\ shift = NoByte
      /\ tx.size = 0 /\ tx.head = Null /\ tx.tail = Null /\ accepted = 0 /\ pc = "b_init"
  BY DEF Init, PeripheralInit, EmptyRing
<1>3. RegistersInOrder /\ TxRingInOrder /\ TxConservation
  BY <1>2 DEF RegistersInOrder, OutInOrder, TxRingInOrder, TxConservation, Out, OutOf, Held, Index
<1>4. TxPointers
  BY <1>2, RingAssumption DEF TxPointers, Ahead, Null
<1>5. TxStored /\ TxKnown
  BY <1>2 DEF TxStored, TxKnown, BeginSteps
<1> QED
  BY <1>1, <1>3, <1>4, <1>5 DEF TxInv, TxSafe

\* Types, cell numbers and the fields of the ring.
LEMMA TxFacts ==
  ASSUME PlacedInv
  PROVE  /\ tx \in StaticRing /\ tx.buf \in [Index -> Nat] /\ tx.size \in 0 .. Slots
         /\ Slots + 1 = CountMod /\ Slots \in Nat /\ Slots > 0
         /\ tx.size > 0 \/ pc \notin BeginSteps => tx.head \in Index
         /\ PeripheralTypeOK /\ Out \in Nat /\ accepted \in Nat
<1>1. tx \in StaticRing /\ PeripheralTypeOK /\ accepted \in Nat
  BY DEF PlacedInv, TypeOK
<1>2. tx.size > 0 \/ pc \notin BeginSteps => tx.head \in Index
  BY DEF PlacedInv, Placed
<1>3. Out \in Nat
  BY <1>1, OutType
<1>4. Slots > 0
  BY RingAssumption
<1> QED
  BY <1>1, <1>2, <1>3, <1>4, StaticSteps

LEMMA TxBytesStay ==
  ASSUME TxSafe, UNCHANGED <<tx, accepted, thr, shift, wire>>
  PROVE  RegistersInOrder' /\ TxRingInOrder' /\ TxConservation'
BY DEF TxSafe, RegistersInOrder, OutInOrder, TxRingInOrder, TxConservation, Out, OutOf

\* Steps of the foreground that only look, or that work on the rx ring.
LEMMA TxLook ==
  ASSUME PlacedInv, TxSafe, "tx" \notin spoiled',
         \/ Call \/ WriteTestSize \/ WriteTestReady \/ WriteWait \/ WriteEnable \/ WriteAppend
         \/ ReadTest \/ ReadAdvance \/ ReadCount \/ FlushWait \/ BeginPeripheral \/ BeginEnable
         \/ (FlushAssign \/ BeginAssign) /\ pc \in {"f_rxhead", "f_rxtail", "f_rxsize",
                                                  "b_rxsize", "b_rxhead", "b_rxtail"}
  PROVE  TxSafe'
<1> USE DEF Call, CallWrite, CallRead, CallFlush, CallBegin, WriteTestSize, WriteTestReady,
            WriteWait, WriteEnable, WriteAppend, ReadTest, ReadAdvance, ReadCount, FlushWait,
            BeginPeripheral, BeginEnable, FlushAssign, BeginAssign, AssignTx, AssignRx, Look,
            Goto, rings, results, history, registers
<1>1. UNCHANGED <<tx, accepted, thr, shift, wire>>
  <2>1. CASE BeginPeripheral
    BY <2>1 DEF Restart
  <2>2. CASE ~BeginPeripheral
    BY <2>2
  <2> QED
    BY <2>1, <2>2
<1>2. RegistersInOrder' /\ TxRingInOrder' /\ TxConservation'
  BY <1>1, TxBytesStay
<1>3. {pc, pc'} \cap {"w_advance", "w_count", "f_txtail", "b_txtail"} = {}
  OBVIOUS
<1>4. TxPointers'
  BY <1>1, <1>3 DEF TxSafe, TxPointers
<1>5. TxStored'
  BY <1>3 DEF TxStored
<1>6. TxKnown'
  <2>1. /\ pc' \in {"w_ready", "f_txhead"} => tx.size = 0
        /\ pc' = "w_direct" => tx.size = 0 /\ TXRDY /\ enabled' = enabled
    BY TxFacts DEF TxSafe, TxKnown
  <2>2. pc' \in BeginSteps \ {"b_init"} => tx.size = 0
    <3>1. CASE BeginPeripheral
      BY <3>1, TxFacts
    <3>2. CASE ~BeginPeripheral
      <4>1. pc' \in BeginSteps \ {"b_init"} => pc \in BeginSteps \ {"b_init"}
        BY <3>2 DEF BeginSteps
      <4> QED
        BY <4>1 DEF TxSafe, TxKnown
    <3> QED
      BY <3>1, <3>2
  <2>3. TXRDY /\ enabled' = enabled => TXRDY'
    BY <1>1 DEF TXRDY
  <2> QED
    BY <1>1, <1>3, <2>1, <2>2, <2>3 DEF TxKnown
<1> QED
  BY <1>2, <1>4, <1>5, <1>6 DEF TxSafe

\* The direct way: the ring is empty, so the holding register is next.
LEMMA TxDirect == ASSUME PlacedInv, TxSafe, WriteDirect PROVE TxSafe'
<1> USE DEF WriteDirect, rings
<1>1. /\ pc' = "idle" /\ UNCHANGED <<tx, shift, wire>> /\ tx.size = 0 /\ TXRDY
      /\ thr' = accepted + 1 /\ accepted' = accepted + 1
  BY DEF TxSafe, TxKnown, Transmit, Goto
<1>2. accepted = Out /\ Out \in Nat /\ PeripheralTypeOK
  BY <1>1, TxFacts DEF TxSafe, TxConservation
<1>3. RegistersInOrder' /\ Out' = Out + 1
  BY <1>1, <1>2, RegistersTake DEF TxSafe
<1>4. TxRingInOrder' /\ TxConservation'
  BY <1>1, <1>2, <1>3 DEF TxRingInOrder, TxConservation, Index
<1>5. TxPointers' /\ TxStored' /\ TxKnown'
  BY <1>1 DEF TxSafe, TxPointers, TxStored, TxKnown, BeginSteps, Goto
<1> QED
  BY <1>3, <1>4, <1>5 DEF TxSafe

\* A step of tx_buffer_append leaves registers and wire alone.
LEMMA TxAppending ==
  ASSUME WriteStore \/ WriteAdvance \/ WriteCount, RegistersInOrder
  PROVE  UNCHANGED <<thr, shift, wire>> /\ Out' = Out /\ RegistersInOrder'
<1>1. UNCHANGED <<thr, shift, wire>>
  BY DEF WriteStore, WriteAdvance, WriteCount, registers
<1> QED
  BY <1>1 DEF Out, OutOf, RegistersInOrder, OutInOrder

LEMMA TxStore ==
  ASSUME PlacedInv, TxSafe, WriteStore, "tx" \notin spoiled'
  PROVE  TxSafe'
<1>1. /\ pc = "w_store" /\ pc' = "w_advance" /\ accepted' = accepted
      /\ tx'.head = tx.head /\ tx'.tail = tx.tail /\ tx'.size = tx.size
      /\ tx'.buf = [tx.buf EXCEPT ![tx.tail] = accepted + 1]
  BY TxFacts DEF WriteStore, Goto, Store, results, StaticRing
<1>2. tx.size < Slots /\ tx.size \in Nat /\ tx.head \in Index /\ tx.tail = Ahead(tx.head, tx.size)
  <2>1. tx.size # Slots
    BY DEF WriteStore
  <2>2. pc \notin BeginSteps
    BY <1>1 DEF BeginSteps
  <2> QED
    BY <1>1, <2>1, <2>2, TxFacts DEF TxSafe, TxPointers
<1>3. tx.size \in Index /\ tx.tail \in Index
  <2>1. tx.size \in Index /\ tx.size \in 0 .. Slots
    BY <1>2, TxFacts DEF Index
  <2> QED
    BY <1>2, <2>1, AheadType
<1>4. Out' = Out /\ RegistersInOrder'
  BY TxAppending DEF TxSafe
<1>5. TxConservation'
  BY <1>1, <1>4 DEF TxSafe, TxConservation
<1>6. TxRingInOrder'
  <2> SUFFICES ASSUME NEW i \in Index, i < tx.size
               PROVE  tx'.buf[Ahead(tx.head, i)] = Out + 1 + i
    BY <1>1, <1>4 DEF TxRingInOrder
  <2>1. i # tx.size /\ i \in 0 .. Slots
    BY <1>2, TxFacts DEF Index
  <2>2. Ahead(tx.head, i) # tx.tail
    BY <1>2, <1>3, <2>1, AheadDistinct, Zenon
  <2>3. Ahead(tx.head, i) \in Index
    BY <1>2, <2>1, AheadType
  <2>4. tx'.buf[Ahead(tx.head, i)] = tx.buf[Ahead(tx.head, i)]
    BY <1>1, <2>2, <2>3, TxFacts
  <2> QED
    BY <2>4 DEF TxSafe, TxRingInOrder
<1>7. TxStored'
  BY <1>1, <1>3, TxFacts DEF TxStored
<1>8. TxPointers' /\ TxKnown'
  BY <1>1, <1>2 DEF TxPointers, TxKnown, BeginSteps
<1> QED
  BY <1>4, <1>5, <1>6, <1>7, <1>8 DEF TxSafe

LEMMA TxAdvance == ASSUME PlacedInv, TxSafe, WriteAdvance PROVE TxSafe'
<1>1. /\ pc = "w_advance" /\ pc' = "w_count" /\ accepted' = accepted
      /\ tx'.head = tx.head /\ tx'.tail = Advance(tx.tail) /\ tx'.size = tx.size
      /\ tx'.buf = tx.buf
  BY TxFacts DEF WriteAdvance, Goto, AdvanceTail, results, StaticRing
<1>2. /\ tx.tail = Ahead(tx.head, tx.size) /\ tx.size < Slots /\ tx.head \in Index
      /\ tx.size \in Index
  BY <1>1, TxFacts DEF TxSafe, TxPointers, TxKnown, BeginSteps, Index
<1>3. Out' = Out /\ RegistersInOrder'
  BY TxAppending DEF TxSafe
<1>4. TxRingInOrder' /\ TxConservation'
  BY <1>1, <1>3 DEF TxSafe, TxRingInOrder, TxConservation
<1>5. Advance(tx.tail) = Ahead(tx.head, tx.size + 1)
  BY <1>2, AheadAdvance
<1>6. TxPointers' /\ TxKnown'
  BY <1>1, <1>2, <1>5 DEF TxPointers, TxKnown, BeginSteps
<1>7. TxStored'
  BY <1>1, <1>2 DEF TxSafe, TxStored
<1> QED
  BY <1>3, <1>4, <1>6, <1>7 DEF TxSafe

LEMMA TxCount == ASSUME PlacedInv, TxSafe, WriteCount PROVE TxSafe'
<1>1. tx.size < Slots /\ tx.size + 1 # CountMod /\ tx.size \in Nat
  BY TxFacts DEF TxSafe, TxKnown, WriteCount, Goto
<1>2. /\ pc = "w_count" /\ pc' = "idle" /\ accepted' = accepted + 1
      /\ tx'.head = tx.head /\ tx'.tail = tx.tail /\ tx'.size = tx.size + 1
      /\ tx'.buf = tx.buf
  BY <1>1, TxFacts DEF WriteCount, Goto, CountUp, StaticRing
<1>3. Out' = Out /\ RegistersInOrder' /\ accepted = Out + tx.size /\ Out \in Nat
  BY TxAppending, TxFacts DEF TxSafe, TxConservation
<1>4. TxConservation'
  BY <1>1, <1>2, <1>3 DEF TxConservation
<1>5. TxRingInOrder'
  <2> SUFFICES ASSUME NEW i \in Index, i < tx.size + 1
               PROVE  tx.buf[Ahead(tx.head, i)] = Out + 1 + i
    BY <1>2, <1>3 DEF TxRingInOrder
  <2>1. CASE i < tx.size
    BY <2>1 DEF TxSafe, TxRingInOrder
  <2>2. CASE i = tx.size
    BY <1>2, <1>3, <2>2 DEF TxSafe, TxStored, Index
  <2> QED
    BY <1>1, <2>1, <2>2 DEF Index
<1>6. TxPointers' /\ TxStored' /\ TxKnown'
  BY <1>1, <1>2 DEF TxSafe, TxPointers, TxStored, TxKnown, BeginSteps
<1> QED
  BY <1>3, <1>4, <1>5, <1>6 DEF TxSafe

\* Resetting the pointers of an empty ring.
LEMMA TxReset ==
  ASSUME PlacedInv, TxSafe, FlushAssign \/ BeginAssign,
         pc \in {"f_txhead", "f_txtail", "b_txsize", "b_txhead", "b_txtail"}
  PROVE  TxSafe'
<1> USE DEF FlushAssign, BeginAssign, AssignTx, AssignRx, Goto, results, registers
<1>1. UNCHANGED <<accepted, thr, shift, wire>> /\ Out' = Out
  <2>1. UNCHANGED <<accepted, thr, shift, wire>>
    OBVIOUS
  <2> QED
    BY <2>1 DEF Out, OutOf
<1>2. /\ tx.size = 0 /\ tx'.size = 0
      /\ pc = "f_txtail" \/ pc = "b_txtail" => tx.head = 0
  BY TxFacts DEF TxSafe, TxKnown, BeginSteps, StaticRing
<1>3. RegistersInOrder' /\ TxConservation'
  BY <1>1, <1>2 DEF TxSafe, RegistersInOrder, OutInOrder, TxConservation, Out, OutOf
<1>4. TxRingInOrder'
  BY <1>2, TxFacts DEF TxRingInOrder, Index
<1>5. /\ pc' \in {"f_txtail", "f_rxhead", "b_txhead", "b_txtail", "idle"}
      /\ pc' \in {"f_txtail", "b_txtail"} => tx'.head = 0
      /\ pc' \in {"f_rxhead", "idle"} => tx'.head = 0 /\ tx'.tail = 0
      /\ pc' = "b_txhead" => tx'.head = tx.head /\ tx'.tail = tx.tail
  BY <1>2, TxFacts DEF StaticRing
<1>6. TxPointers'
  <2>1. Ahead(0, 0) = 0
    BY RingAssumption DEF Ahead
  <2>2. pc' = "b_txhead" => tx.tail = Ahead(tx.head, 0)
    BY <1>2 DEF TxSafe, TxPointers
  <2> QED
    BY <1>2, <1>5, <2>1, <2>2 DEF TxPointers
<1>7. TxStored' /\ TxKnown'
  BY <1>2, <1>5 DEF TxStored, TxKnown
<1> QED
  BY <1>3, <1>4, <1>6, <1>7 DEF TxSafe

LEMMA TxPeripheral == ASSUME PlacedInv, TxSafe, Peripheral PROVE TxSafe'
<1> USE DEF Peripheral, rings, results
<1>1. UNCHANGED <<pc, tx, accepted, enabled>> /\ (thr # NoByte => thr' \in {thr, NoByte})
  BY DEF LoadShift, ShiftOut, Receive
<1>2. RegistersInOrder' /\ Out' = Out
  BY TxFacts, RegistersMove DEF TxSafe
<1>3. TXRDY => TXRDY'
  BY <1>1 DEF TXRDY, LoadShift, ShiftOut, Receive
<1> QED
  BY <1>1, <1>2, <1>3 DEF TxSafe, TxRingInOrder, TxConservation, TxPointers, TxStored, TxKnown

\* The handler: either the tx part leaves everything, or it moves the byte at
\* the head into the empty holding register.
LEMMA TxHandler == ASSUME PlacedInv, TxSafe, Handler PROVE TxSafe'
<1>1. UNCHANGED <<pc, accepted, enabled, shift, wire>>
  BY DEF Handler, results
<1>2. CASE TXEMPTY /\ tx.size > 0
  <2>1. TXRDY /\ thr' = First(tx) /\ tx' = Removed(tx)
    BY <1>2, TxFacts DEF Handler, TxEmptyCallback, Transmit, TXEMPTY
  <2>2. /\ tx.head \in Index /\ tx.size \in 1 .. Slots /\ tx.size - 1 \in Index
        /\ tx'.head = Advance(tx.head) /\ tx'.tail = tx.tail /\ tx'.size = tx.size - 1
        /\ tx'.buf = tx.buf
    BY <1>2, <2>1, TxFacts DEF Removed, CountDown, AdvanceHead, StaticRing, Index
  <2>3. thr' = Out + 1
    <3>1. Ahead(tx.head, 0) = tx.head
      BY <2>2, AheadZero
    <3>2. 0 \in Index /\ 0 < tx.size
      BY <2>2, TxFacts DEF Index
    <3> QED
      BY <2>1, <3>1, <3>2, TxFacts DEF TxSafe, TxRingInOrder, First
  <2>4. RegistersInOrder' /\ Out' = Out + 1
    BY <1>1, <2>1, <2>3, TxFacts, RegistersTake DEF TxSafe
  <2>5. TxConservation'
    BY <1>1, <2>2, <2>4, TxFacts DEF TxSafe, TxConservation
  <2>6. TxRingInOrder'
    <3> SUFFICES ASSUME NEW i \in Index, i < tx.size - 1
                 PROVE  tx.buf[Ahead(Advance(tx.head), i)] = Out + 2 + i
      BY <2>2, <2>4, TxFacts DEF TxRingInOrder, Index
    <3>1. Ahead(Advance(tx.head), i) = Ahead(tx.head, i + 1)
      BY <2>2, AheadAdvance
    <3>2. i + 1 \in Index /\ i + 1 < tx.size /\ i \in Nat
      BY <2>2, TxFacts DEF Index
    <3>3. tx.buf[Ahead(tx.head, i + 1)] = Out + 1 + (i + 1)
      BY <3>2 DEF TxSafe, TxRingInOrder
    <3> QED
      BY <3>1, <3>2, <3>3, TxFacts
  <2>7. pc \notin {"w_ready", "w_direct", "f_txhead", "f_txtail"} \cup (BeginSteps \ {"b_init"})
    BY <2>2 DEF TxSafe, TxKnown
  <2>8. pc \in {"w_advance", "w_count"} => tx.size \in Index
    BY <2>2, TxFacts DEF TxSafe, TxKnown, Index
  <2>9. Ahead(tx'.head, tx'.size) = Ahead(tx.head, tx.size)
    <3>1. Ahead(Advance(tx.head), tx.size - 1) = Ahead(tx.head, tx.size - 1 + 1)
      BY <2>2, AheadAdvance
    <3>2. tx.size - 1 + 1 = tx.size
      BY <2>2
    <3> QED
      BY <2>2, <3>1, <3>2
  <2>10. pc = "w_count" => Ahead(tx'.head, tx'.size + 1) = Ahead(tx.head, tx.size + 1)
    <3>1. tx.size \in Index => Ahead(Advance(tx.head), tx.size) = Ahead(tx.head, tx.size + 1)
      BY <2>2, AheadAdvance
    <3>2. tx'.size + 1 = tx.size
      BY <2>2
    <3> QED
      BY <2>2, <2>8, <3>1, <3>2
  <2>11. TxPointers'
    <3>1. /\ pc \notin {"w_count", "f_txtail", "b_txtail"} => tx.tail = Ahead(tx.head, tx.size)
          /\ pc = "w_count" => tx.tail = Ahead(tx.head, tx.size + 1)
      BY DEF TxSafe, TxPointers
    <3>2. pc' \notin {"w_count", "f_txtail", "b_txtail"} => tx'.tail = Ahead(tx'.head, tx'.size)
      BY <1>1, <2>2, <2>9, <3>1, Zenon
    <3>3. pc' = "w_count" => tx'.tail = Ahead(tx'.head, tx'.size + 1)
      BY <1>1, <2>2, <2>10, <3>1, Zenon
    <3> QED
      BY <3>2, <3>3 DEF TxPointers
  <2>12. TxStored'
    <3>1. /\ pc = "w_advance" => tx.buf[tx.tail] = accepted + 1
          /\ pc = "w_count" => tx.buf[Ahead(tx.head, tx.size)] = accepted + 1
      BY DEF TxSafe, TxStored
    <3>2. pc' = "w_advance" => tx'.buf[tx'.tail] = accepted' + 1
      BY <1>1, <2>2, <3>1
    <3>3. pc' = "w_count" => tx'.buf[Ahead(tx'.head, tx'.size)] = accepted' + 1
      BY <1>1, <2>2, <2>9, <3>1
    <3> QED
      BY <3>2, <3>3 DEF TxStored
  <2>13. TxKnown'
    <3>1. pc # "b_txtail"
      BY <2>7 DEF BeginSteps
    <3>2. pc \in {"w_advance", "w_count"} => tx'.size < Slots
      BY <2>2, TxFacts DEF TxSafe, TxKnown
    <3> QED
      BY <1>1, <2>7, <3>1, <3>2 DEF TxKnown
  <2> QED
    BY <2>4, <2>5, <2>6, <2>11, <2>12, <2>13 DEF TxSafe
<1>3. CASE ~(TXEMPTY /\ tx.size > 0)
  <2>1. tx' = tx /\ thr' = thr
    BY <1>3, TxFacts DEF Handler, TxEmptyCallback
  <2>2. RegistersInOrder' /\ TxRingInOrder' /\ TxConservation'
    BY <1>1, <2>1, TxBytesStay
  <2> QED
    BY <1>1, <2>1, <2>2 DEF TxSafe, TxPointers, TxStored, TxKnown, TXRDY
<1> QED
  BY <1>2, <1>3

LEMMA TxNext == ASSUME TxInv, [Next]_vars PROVE TxInv'
<1> SUFFICES ASSUME "tx" \notin spoiled' PROVE TxSafe'
  BY PlacedNext DEF TxInv
<1>1. PlacedInv /\ TxSafe
  BY SpoiledStays DEF TxInv
<1>2. CASE UNCHANGED vars
  <2>1. UNCHANGED <<pc, tx, accepted, thr, shift, wire, enabled>>
    BY <1>2 DEF vars, rings, results, registers
  <2>2. RegistersInOrder' /\ TxRingInOrder' /\ TxConservation'
    BY <1>1, <2>1, TxBytesStay
  <2> QED
    BY <1>1, <2>1, <2>2 DEF TxSafe, TxPointers, TxStored, TxKnown, TXRDY
<1>3. CASE FlushAssign \/ BeginAssign
  <2>1. pc \in {"f_txhead", "f_txtail", "f_rxhead", "f_rxtail", "f_rxsize",
               "b_rxsize", "b_rxhead", "b_rxtail", "b_txsize", "b_txhead", "b_txtail"}
    BY <1>3 DEF FlushAssign, BeginAssign, AssignTx, AssignRx, Goto
  <2> QED
    BY <1>1, <1>3, <2>1, TxLook, TxReset
<1> QED
  BY <1>1, <1>2, <1>3, TxLook, TxDirect, TxStore, TxAdvance, TxCount, TxHandler, TxPeripheral
     DEF Next, Foreground

\* Until the 256th waiting byte overruns the array, or begin is called while
\* bytes are under way, the bytes on the wire, in the two registers and in the
\* ring are those write accepted, in order: the comparison with 512, which never
\* refuses a byte, and the early unmasking do no other harm to them.
THEOREM UartTransmit == Spec => []NothingLostUnlessOverrun
<1>1. TxInv => NothingLostUnlessOverrun
  <2> SUFFICES ASSUME PlacedInv, TxSafe PROVE Outgoing = [k \in 1 .. accepted |-> k]
    BY DEF TxInv, NothingLostUnlessOverrun
  <2>1. ASSUME NEW i \in 1 .. tx.size
        PROVE  tx.buf[Ahead(tx.head, i - 1)] = Out + i
    <3>1. i - 1 \in Index /\ i - 1 < tx.size
      BY TxFacts DEF Index
    <3>2. tx.buf[Ahead(tx.head, i - 1)] = Out + 1 + (i - 1)
      BY <3>1 DEF TxSafe, TxRingInOrder
    <3> QED
      BY <3>2, TxFacts
  <2>2. tx.size \in Nat /\ accepted = Out + tx.size
    BY TxFacts DEF TxSafe, TxConservation
  <2> QED
    BY <2>1, <2>2, TxFacts, CountedOut DEF TxSafe, Outgoing
<1> QED
  BY <1>1, TxInit, TxNext, PTL DEF Spec

-----------------------------------------------------------------------------
\* Until the rx ring is spoiled: its counter and the order of its bytes.

\* The bytes in the ring: read has moved the head one step before it counts.
Waiting == IF pc = "r_count" THEN rx.size - 1 ELSE rx.size

RxByte(i) == rx.buf[Ahead(rx.head, i)]

\* The newest byte the interrupt has fetched.
Fetched == IF RXRDY THEN arrived - 1 ELSE arrived

\* The statements of flush and begin between which the ring means nothing.
RxOpen == {"f_rxtail", "f_rxsize", "b_init", "b_irq", "b_rxsize", "b_rxhead", "b_rxtail"}

RxPointers == pc \notin RxOpen => rx.tail = Ahead(rx.head, Waiting)

RxReset ==
  /\ pc \in {"f_rxtail", "f_rxsize", "b_rxtail"} => rx.head = 0
  /\ pc = "f_rxsize" => rx.tail = 0
  /\ pc \in {"b_rxhead", "b_rxtail"} => rx.size = 0

\* Bytes in the ring are newer than what was read and older than what the
\* interrupt still has to fetch.
RxOrder == pc \notin RxOpen =>
  /\ \A i, j \in Index : i < j /\ j < Waiting => RxByte(i) < RxByte(j)
  /\ \A i \in Index : i < Waiting => got < RxByte(i) /\ RxByte(i) <= Fetched
  /\ pc = "r_count" => \A i \in Index : i < Waiting => taken < RxByte(i)

\* What read fetched is the first byte.
RxTaken ==
  /\ pc \in {"r_advance", "r_count"} => rx.size > 0
  /\ pc = "r_advance" => taken = RxByte(0)
  /\ pc = "r_count" => got < taken /\ taken <= Fetched

RxPast == got <= Fetched /\ rhr \in {NoByte, arrived}

RxSafe == RxPointers /\ RxReset /\ RxOrder /\ RxTaken /\ RxPast

RxInv == PlacedInv /\ ("rx" \notin spoiled => RxSafe)

LEMMA RxInit == Init => RxInv
<1> SUFFICES ASSUME Init PROVE RxInv
  OBVIOUS
<1>1. got = NoByte /\ rhr = NoByte /\ arrived = 0 /\ pc = "b_init"
  BY DEF Init, PeripheralInit
<1>2. RxSafe
  BY <1>1 DEF RxSafe, RxPointers, RxReset, RxOrder, RxTaken, RxPast, RxOpen, Fetched, RXRDY, NoByte
<1> QED
  BY <1>2, PlacedInit DEF RxInv

\* Types, cell numbers and the fields of the ring.
LEMMA RxFacts ==
  ASSUME PlacedInv
  PROVE  /\ rx \in StaticRing /\ rx.buf \in [Index -> Nat] /\ rx.size \in 0 .. Slots
         /\ Slots + 1 = CountMod /\ Slots \in Nat /\ Slots > 0 /\ 0 \in Index
         /\ pc \notin RxOpen => rx.head \in Index /\ rx.tail \in Index
         /\ got \in Nat /\ taken \in Nat /\ arrived \in Nat /\ rhr \in Nat /\ Fetched \in Int
<1>1. rx \in StaticRing /\ got \in Nat /\ taken \in Nat /\ arrived \in Nat /\ rhr \in Nat
  BY DEF PlacedInv, TypeOK, PeripheralTypeOK
<1>2. pc \notin RxOpen => rx.head \in Index /\ rx.tail \in Index
  BY DEF PlacedInv, Placed, BeginSteps, RxOpen
<1>3. Fetched \in Int
  BY <1>1 DEF Fetched
<1>4. Slots > 0
  BY RingAssumption
<1> QED
  BY <1>1, <1>2, <1>3, <1>4, StaticSteps, StaticAssign

LEMMA RxByteType ==
  ASSUME PlacedInv, pc \notin RxOpen, NEW i \in Index
  PROVE  Ahead(rx.head, i) \in Index /\ RxByte(i) \in Nat
<1>1. i \in 0 .. Slots
  BY RxFacts DEF Index
<1>2. Ahead(rx.head, i) \in Index
  BY <1>1, RxFacts, AheadType
<1> QED
  BY <1>2, RxFacts DEF RxByte

\* A step that leaves ring and results alone and does not go back in time.
LEMMA RxSame ==
  ASSUME PlacedInv, RxSafe, UNCHANGED <<rx, got>>,
         taken' = taken \/ pc' \notin {"r_advance", "r_count"},
         pc' = "r_count" <=> pc = "r_count", pc' = "r_advance" => pc = "r_advance",
         pc' \notin RxOpen => pc \notin RxOpen,
         pc' \in {"f_rxtail", "f_rxsize", "b_rxhead", "b_rxtail"} => pc' = pc,
         Fetched' \in Int, Fetched' >= Fetched, rhr' \in {NoByte, arrived'}
  PROVE  RxSafe'
<1>1. Waiting' = Waiting /\ \A i \in Index : RxByte(i)' = RxByte(i)
  BY DEF Waiting, RxByte
<1>2. RxPointers' /\ RxReset'
  BY <1>1 DEF RxSafe, RxPointers, RxReset
<1>3. RxOrder'
  <2> SUFFICES ASSUME pc' \notin RxOpen
               PROVE  /\ \A i, j \in Index : i < j /\ j < Waiting' => RxByte(i)' < RxByte(j)'
                      /\ \A i \in Index : i < Waiting' => got' < RxByte(i)' /\ RxByte(i)' <= Fetched'
                      /\ pc' = "r_count" => \A i \in Index : i < Waiting' => taken' < RxByte(i)'
    BY DEF RxOrder
  <2>1. /\ \A i, j \in Index : i < j /\ j < Waiting => RxByte(i) < RxByte(j)
        /\ \A i \in Index : i < Waiting => got < RxByte(i) /\ RxByte(i) <= Fetched
        /\ pc = "r_count" => \A i \in Index : i < Waiting => taken < RxByte(i)
        /\ \A i \in Index : RxByte(i) \in Nat
    BY RxByteType DEF RxSafe, RxOrder
  <2>2. \A i \in Index : i < Waiting => RxByte(i) <= Fetched'
    BY <2>1, RxFacts
  <2> QED
    BY <1>1, <2>1, <2>2
<1>4. RxTaken'
  <2>1. 0 \in Index
    BY RxFacts
  <2>2. pc' = "r_count" => got' < taken' /\ taken' <= Fetched'
    BY RxFacts DEF RxSafe, RxTaken
  <2> QED
    BY <1>1, <2>1, <2>2 DEF RxSafe, RxTaken
<1>5. RxPast'
  BY RxFacts DEF RxSafe, RxPast
<1> QED
  BY <1>2, <1>3, <1>4, <1>5 DEF RxSafe

-----------------------------------------------------------------------------
\* The steps until the rx ring is spoiled.

\* Steps of the foreground that leave the rx ring alone.
LEMMA RxLook ==
  ASSUME PlacedInv, RxSafe,
         \/ Call \/ WriteTestSize \/ WriteTestReady \/ WriteDirect \/ WriteWait \/ WriteEnable
         \/ WriteAppend \/ WriteStore \/ WriteAdvance \/ WriteCount
         \/ FlushWait \/ BeginPeripheral \/ BeginEnable
         \/ (FlushAssign \/ BeginAssign) /\ pc \in {"f_txhead", "f_txtail",
                                                  "b_txsize", "b_txhead", "b_txtail"}
  PROVE  RxSafe'
<1> USE DEF Call, CallWrite, CallRead, CallFlush, CallBegin, WriteTestSize, WriteTestReady,
            WriteDirect, WriteWait, WriteEnable, WriteAppend, WriteStore, WriteAdvance, WriteCount,
            FlushWait, BeginPeripheral, BeginEnable, FlushAssign, BeginAssign, AssignTx, AssignRx,
            Look, Goto, rings, results, history, registers
<1>1. UNCHANGED <<rx, got, taken, arrived>>
  OBVIOUS
<1>2. rhr' \in {rhr, NoByte}
  BY DEF Restart
<1>3. Fetched' \in Int /\ Fetched' >= Fetched
  BY <1>1, <1>2, RxFacts DEF Fetched, RXRDY
<1>4. /\ {pc, pc'} \cap {"r_advance", "r_count", "f_rxtail", "f_rxsize", "b_rxhead", "b_rxtail"} = {}
      /\ pc' \notin RxOpen => pc \notin RxOpen
  BY DEF RxOpen
<1> QED
  BY <1>1, <1>2, <1>3, <1>4, RxSame DEF RxSafe, RxPast

LEMMA RxTest == ASSUME PlacedInv, RxSafe, ReadTest PROVE RxSafe'
<1> USE DEF ReadTest, rings, results, history, registers
<1>1. UNCHANGED <<rx, got, rhr, arrived>> /\ pc = "r_test"
  OBVIOUS
<1>2. Fetched' = Fetched /\ Fetched \in Int /\ rhr' \in {NoByte, arrived'}
  BY <1>1, RxFacts DEF Fetched, RXRDY, RxSafe, RxPast
<1>3. CASE rx.size > 0
  <2>1. pc' = "r_advance" /\ taken' = First(rx)
    BY <1>3
  <2>2. First(rx) = RxByte(0)
    BY <1>1, RxFacts, AheadZero DEF RxOpen, First, RxByte
  <2>3. Waiting' = Waiting /\ \A i \in Index : RxByte(i)' = RxByte(i)
    BY <1>1, <2>1 DEF Waiting, RxByte
  <2>4. RxOrder'
    BY <1>1, <1>2, <2>1, <2>3 DEF RxSafe, RxOrder, RxOpen
  <2>5. RxTaken'
    BY <1>1, <1>3, <2>1, <2>2, <2>3, RxFacts DEF RxTaken
  <2>6. RxPointers' /\ RxReset' /\ RxPast'
    BY <1>1, <1>2, <2>1, <2>3 DEF RxSafe, RxPointers, RxReset, RxPast, RxOpen
  <2> QED
    BY <2>4, <2>5, <2>6 DEF RxSafe
<1>4. CASE ~(rx.size > 0)
  <2>1. pc' = "idle"
    BY <1>4
  <2> QED
    BY <1>1, <1>2, <2>1, RxFacts, RxSame DEF RxOpen
<1> QED
  BY <1>3, <1>4

LEMMA RxAdvance == ASSUME PlacedInv, RxSafe, ReadAdvance PROVE RxSafe'
<1> USE DEF ReadAdvance, Goto, results, history, registers
<1>1. /\ UNCHANGED <<got, taken, rhr, arrived>>
      /\ pc = "r_advance" /\ pc' = "r_count" /\ pc \notin RxOpen
  BY DEF RxOpen
<1>2. /\ rx.size \in 1 .. Slots /\ rx.head \in Index /\ rx.size - 1 \in Index /\ rx.size \in Nat
      /\ rx.tail = Ahead(rx.head, rx.size)
  BY <1>1, RxFacts DEF RxSafe, RxTaken, RxPointers, Waiting, Index
<1>3. /\ rx'.head = Advance(rx.head) /\ rx'.size = rx.size /\ rx'.tail = rx.tail
      /\ rx'.buf = rx.buf
  BY RxFacts DEF AdvanceHead, StaticRing
<1>4. Fetched' = Fetched /\ Waiting = rx.size /\ Waiting' = rx.size - 1
  BY <1>1, <1>3 DEF Fetched, RXRDY, Waiting
<1>5. RxPointers'
  <2>1. Ahead(Advance(rx.head), rx.size - 1) = Ahead(rx.head, rx.size - 1 + 1)
    BY <1>2, AheadAdvance
  <2>2. rx.size - 1 + 1 = rx.size
    BY <1>2
  <2> QED
    BY <1>2, <1>3, <1>4, <2>1, <2>2 DEF RxPointers
\* What was the second byte is the first.
<1>6. ASSUME NEW i \in Index, i < rx.size - 1
      PROVE  i + 1 \in Index /\ i + 1 < rx.size /\ RxByte(i)' = RxByte(i + 1)
  <2>1. Ahead(Advance(rx.head), i) = Ahead(rx.head, i + 1)
    BY <1>2, AheadAdvance
  <2>2. i + 1 \in Index /\ i + 1 < rx.size
    BY <1>2, <1>6, RxFacts DEF Index
  <2> QED
    BY <1>3, <2>1, <2>2 DEF RxByte
<1>7. /\ taken = RxByte(0) /\ 0 \in Index /\ got < RxByte(0) /\ RxByte(0) <= Fetched
      /\ \A i, j \in Index : i < j /\ j < rx.size => RxByte(i) < RxByte(j)
      /\ \A i \in Index : i < rx.size => got < RxByte(i) /\ RxByte(i) <= Fetched
  <2>1. 0 \in Index /\ 0 < rx.size /\ taken = RxByte(0)
    BY <1>1, <1>2, RxFacts DEF RxSafe, RxTaken
  <2>2. /\ \A i, j \in Index : i < j /\ j < rx.size => RxByte(i) < RxByte(j)
        /\ \A i \in Index : i < rx.size => got < RxByte(i) /\ RxByte(i) <= Fetched
    BY <1>1, <1>4 DEF RxSafe, RxOrder
  <2> QED
    BY <2>1, <2>2
<1>8. RxOrder'
  <2>1. \A i, j \in Index : i < j /\ j < rx.size - 1 => RxByte(i)' < RxByte(j)'
    <3> SUFFICES ASSUME NEW i \in Index, NEW j \in Index, i < j, j < rx.size - 1
                 PROVE  RxByte(i)' < RxByte(j)'
      OBVIOUS
    <3>1. i < rx.size - 1 /\ i + 1 < j + 1
      BY <1>2 DEF Index
    <3>2. i + 1 \in Index /\ j + 1 \in Index /\ j + 1 < rx.size
      BY <1>6, <3>1
    <3>3. RxByte(i)' = RxByte(i + 1) /\ RxByte(j)' = RxByte(j + 1)
      BY <1>6, <3>1
    <3> QED
      BY <1>7, <3>1, <3>2, <3>3
  <2>2. \A i \in Index : i < rx.size - 1 =>
          got < RxByte(i)' /\ RxByte(i)' <= Fetched /\ taken < RxByte(i)'
    <3> SUFFICES ASSUME NEW i \in Index, i < rx.size - 1
                 PROVE  got < RxByte(i)' /\ RxByte(i)' <= Fetched /\ taken < RxByte(i)'
      OBVIOUS
    <3>1. i + 1 \in Index /\ i + 1 < rx.size /\ RxByte(i)' = RxByte(i + 1) /\ 0 < i + 1
      BY <1>6 DEF Index
    <3> QED
      BY <1>7, <3>1
  <2> QED
    BY <1>1, <1>4, <2>1, <2>2 DEF RxOrder
<1>9. RxTaken' /\ RxReset' /\ RxPast'
  BY <1>1, <1>2, <1>3, <1>4, <1>7 DEF RxTaken, RxReset, RxSafe, RxPast
<1> QED
  BY <1>5, <1>8, <1>9 DEF RxSafe

LEMMA RxCount == ASSUME PlacedInv, RxSafe, ReadCount PROVE RxSafe'
<1> USE DEF ReadCount, Goto, history, registers
<1>1. /\ UNCHANGED <<taken, rhr, arrived>>
      /\ pc = "r_count" /\ pc' = "idle" /\ got' = taken /\ pc \notin RxOpen
  BY DEF RxOpen
<1>2. rx.size \in 1 .. Slots
  BY <1>1, RxFacts DEF RxSafe, RxTaken
<1>3. /\ rx'.head = rx.head /\ rx'.size = rx.size - 1 /\ rx'.tail = rx.tail
      /\ rx'.buf = rx.buf
  BY <1>2, RxFacts DEF CountDown, StaticRing
<1>4. /\ Fetched' = Fetched /\ Waiting' = Waiting
      /\ \A i \in Index : RxByte(i)' = RxByte(i)
  BY <1>1, <1>3 DEF Fetched, RXRDY, Waiting, RxByte
<1>5. RxPointers' /\ RxReset'
  BY <1>1, <1>3, <1>4 DEF RxSafe, RxPointers, RxReset
<1>6. RxOrder'
  BY <1>1, <1>4 DEF RxSafe, RxOrder
<1>7. RxTaken' /\ RxPast'
  BY <1>1, <1>4 DEF RxSafe, RxTaken, RxPast
<1> QED
  BY <1>5, <1>6, <1>7 DEF RxSafe

\* flush and begin reset the ring statement by statement.
LEMMA RxAssign ==
  ASSUME PlacedInv, RxSafe, FlushAssign \/ BeginAssign,
         pc \in {"f_rxhead", "f_rxtail", "f_rxsize", "b_rxsize", "b_rxhead", "b_rxtail"}
  PROVE  RxSafe'
<1> USE DEF FlushAssign, BeginAssign, AssignTx, AssignRx, Goto, results, history, registers
<1>1. UNCHANGED <<got, taken, rhr, arrived>>
  OBVIOUS
<1>2. RxPast'
  BY <1>1 DEF RxSafe, RxPast, Fetched, RXRDY
<1>3. CASE pc \in {"f_rxhead", "f_rxtail", "b_rxsize", "b_rxhead"}
  <2>1. pc' \in RxOpen /\ pc' \in {"f_rxtail", "f_rxsize", "b_rxhead", "b_rxtail"}
    BY <1>3 DEF RxOpen
  <2>2. RxReset'
    BY <1>3, RxFacts DEF RxSafe, RxReset, StaticRing
  <2> QED
    BY <1>2, <2>1, <2>2 DEF RxSafe, RxPointers, RxOrder, RxTaken
<1>4. CASE pc \in {"f_rxsize", "b_rxtail"}
  <2>1. pc' \in {"idle", "b_txsize"} /\ rx'.head = 0 /\ rx'.tail = 0 /\ rx'.size = 0
    BY <1>4, RxFacts DEF RxSafe, RxReset, StaticRing
  <2>2. Waiting' = 0
    BY <2>1 DEF Waiting
  <2>3. RxPointers'
    BY <2>1, <2>2, RxFacts, AheadZero DEF RxPointers
  <2>4. RxOrder' /\ RxReset' /\ RxTaken'
    BY <2>1, <2>2 DEF RxOrder, RxReset, RxTaken, Index
  <2> QED
    BY <1>2, <2>3, <2>4 DEF RxSafe
<1> QED
  BY <1>3, <1>4

\* rx_buffer_append with a free cell and the pointers where they belong.
LEMMA RxAppend ==
  ASSUME PlacedInv, RxSafe, pc \notin RxOpen, rhr # NoByte, rhr' = NoByte, rx.size < Slots,
         rx' = RxAppended(rhr), UNCHANGED <<pc, got, taken, arrived>>
  PROVE  RxSafe'
<1>1. /\ rx.size \in Nat /\ Waiting \in Index /\ rx.head \in Index
      /\ rx.tail = Ahead(rx.head, Waiting) /\ rx.tail \in Index
      /\ rx.buf \in [Index -> Nat]
  <2>1. Waiting \in Index
    BY RxFacts DEF RxSafe, RxTaken, Waiting, Index
  <2> QED
    BY <2>1, RxFacts DEF RxSafe, RxPointers
<1>2. /\ rx'.head = rx.head /\ rx'.size = rx.size + 1 /\ rx'.tail = Advance(rx.tail)
      /\ rx'.buf = [rx.buf EXCEPT ![rx.tail] = rhr]
  <2>1. rx.size < Limit /\ rx.size + 1 # CountMod
    BY RxFacts, UartAssumption, RingAssumption
  <2>2. rx.tail # Null
    BY <1>1 DEF Index, Null
  <2>3. rx' = CountUp(AdvanceTail(Store(rx, rhr)))
    BY <2>1, <2>2 DEF RxAppended, HasRoom
  <2> QED
    BY <2>1, <2>3, RxFacts DEF CountUp, AdvanceTail, Store, StaticRing
<1>3. /\ Fetched = arrived - 1 /\ Fetched' = arrived /\ rhr = arrived
      /\ arrived \in Nat /\ Waiting' = Waiting + 1
  BY <1>1, <1>2, RxFacts DEF Fetched, RXRDY, RxSafe, RxPast, Waiting
<1>4. \A i \in Index : i < Waiting => RxByte(i)' = RxByte(i) /\ RxByte(i) \in Nat
  <2> SUFFICES ASSUME NEW i \in Index, i < Waiting
               PROVE  RxByte(i)' = RxByte(i) /\ RxByte(i) \in Nat
    OBVIOUS
  <2>1. i # Waiting
    BY <1>1 DEF Index
  <2>2. Ahead(rx.head, i) # rx.tail
    BY <1>1, <2>1, AheadDistinct
  <2>3. Ahead(rx.head, i) \in Index /\ RxByte(i) \in Nat
    BY RxByteType
  <2> QED
    BY <1>1, <1>2, <2>2, <2>3 DEF RxByte
\* (i is a constant here: the prime must not reach Waiting.)
<1>5. ASSUME NEW i \in Index, i = Waiting
      PROVE  RxByte(i)' = arrived
  BY <1>1, <1>2, <1>3, <1>5 DEF RxByte
<1>6. RxPointers'
  <2>1. Advance(Ahead(rx.head, Waiting)) = Ahead(rx.head, Waiting + 1)
    BY <1>1, AheadAdvance
  <2>2. Ahead(rx.head, Waiting + 1) = Ahead(rx.head, Waiting')
    BY <1>3
  <2>3. rx'.tail = Ahead(rx.head, Waiting')
    BY <1>1, <1>2, <2>1, <2>2
  <2> QED
    BY <1>2, <2>3 DEF RxPointers
<1>7. RxOrder'
  <2>1. /\ got \in Nat /\ taken \in Nat /\ got <= Fetched
        /\ pc = "r_count" => taken <= Fetched
    BY RxFacts DEF RxSafe, RxPast, RxTaken
  <2>2. \A i \in Index : i < Waiting + 1 => i < Waiting \/ i = Waiting
    BY <1>1 DEF Index
  <2>3. \A i \in Index : i < Waiting + 1 =>
          /\ got < RxByte(i)' /\ RxByte(i)' <= arrived
          /\ pc = "r_count" => taken < RxByte(i)'
    <3> SUFFICES ASSUME NEW i \in Index, i < Waiting + 1
                 PROVE  /\ got < RxByte(i)' /\ RxByte(i)' <= arrived
                        /\ pc = "r_count" => taken < RxByte(i)'
      OBVIOUS
    <3>1. CASE i < Waiting
      <4>1. RxByte(i)' = RxByte(i) /\ RxByte(i) \in Nat
        BY <1>4, <3>1
      <4>2. got < RxByte(i) /\ RxByte(i) <= arrived - 1
        BY <1>3, <3>1 DEF RxSafe, RxOrder
      <4>3. pc = "r_count" => taken < RxByte(i)
        BY <3>1 DEF RxSafe, RxOrder
      <4> QED
        BY <1>3, <4>1, <4>2, <4>3
    <3>2. CASE i = Waiting
      BY <1>3, <1>5, <2>1, <3>2
    <3> QED
      BY <2>2, <3>1, <3>2
  <2>4. \A i, j \in Index : i < j /\ j < Waiting + 1 => RxByte(i)' < RxByte(j)'
    <3> SUFFICES ASSUME NEW i \in Index, NEW j \in Index, i < j, j < Waiting + 1
                 PROVE  RxByte(i)' < RxByte(j)'
      OBVIOUS
    <3>1. i < Waiting
      BY <1>1 DEF Index
    <3>2. RxByte(i)' = RxByte(i) /\ RxByte(i) \in Nat /\ RxByte(i) <= arrived - 1
      BY <1>3, <1>4, <3>1 DEF RxSafe, RxOrder
    <3>3. CASE j < Waiting
      <4>1. RxByte(j)' = RxByte(j)
        BY <1>4, <3>3
      <4>2. RxByte(i) < RxByte(j)
        BY <3>3 DEF RxSafe, RxOrder
      <4> QED
        BY <3>2, <4>1, <4>2
    <3>4. CASE j = Waiting
      BY <1>3, <1>5, <3>2, <3>4
    <3> QED
      BY <2>2, <3>3, <3>4
  <2>5. \A i \in Index : i < Waiting' => got' < RxByte(i)' /\ RxByte(i)' <= Fetched'
    BY <1>3, <2>3
  <2>6. pc' = "r_count" => \A i \in Index : i < Waiting' => taken' < RxByte(i)'
    BY <1>3, <2>3
  <2>7. \A i, j \in Index : i < j /\ j < Waiting' => RxByte(i)' < RxByte(j)'
    BY <1>3, <2>4
  <2> QED
    BY <2>5, <2>6, <2>7 DEF RxOrder
<1>8. RxTaken'
  <2>1. pc = "r_advance" => RxByte(0)' = RxByte(0)
    <3> SUFFICES ASSUME pc = "r_advance" PROVE RxByte(0)' = RxByte(0)
      OBVIOUS
    <3>1. 0 \in Index /\ 0 < Waiting
      BY RxFacts DEF RxSafe, RxTaken, Waiting
    <3> QED
      BY <1>4, <3>1
  <2>2. pc = "r_count" => got < taken /\ taken <= Fetched'
    BY <1>3, RxFacts DEF RxSafe, RxTaken
  <2>3. rx'.size > 0
    BY <1>1, <1>2
  <2> QED
    BY <2>1, <2>2, <2>3 DEF RxSafe, RxTaken
<1>9. RxReset' /\ RxPast'
  <2>1. RxPast'
    BY <1>3, RxFacts DEF RxSafe, RxPast
  <2> QED
    BY <2>1 DEF RxReset, RxOpen
<1> QED
  BY <1>6, <1>7, <1>8, <1>9 DEF RxSafe

LEMMA RxHandler == ASSUME PlacedInv, RxSafe, Handler, "rx" \notin spoiled' PROVE RxSafe'
<1> USE DEF Handler, results
<1>1. UNCHANGED <<pc, got, taken, arrived>>
  OBVIOUS
<1>2. CASE RXRDY
  <2>1. /\ rx' = RxAppended(rhr) /\ rhr # NoByte /\ rhr' = NoByte
        /\ rx.size # Slots /\ pc \notin Resetting
    BY <1>2 DEF RxReadyCallback, RXRDY
  <2>2. CASE pc \notin RxOpen
    <3>1. rx.size < Slots
      BY <2>1, RxFacts
    <3> QED
      BY <1>1, <2>1, <2>2, <3>1, RxAppend
  <2>3. CASE pc \in RxOpen
    <3>1. rx'.head = rx.head
      BY <2>1, RxFacts, RxAppendedType
    <3>2. RxReset'
      BY <1>1, <2>1, <3>1 DEF RxSafe, RxReset, Resetting
    <3>3. RxPast'
      BY <1>1, <2>1, RxFacts DEF RxSafe, RxPast, Fetched, RXRDY
    <3> QED
      BY <1>1, <2>3, <3>2, <3>3 DEF RxSafe, RxPointers, RxOrder, RxTaken, RxOpen
  <2> QED
    BY <2>2, <2>3
<1>3. CASE ~RXRDY
  <2>1. rx' = rx /\ rhr' = rhr
    BY <1>3
  <2>2. Fetched' = Fetched
    BY <1>1, <2>1 DEF Fetched, RXRDY
  <2> QED
    BY <1>1, <2>1, <2>2, RxFacts, RxSame DEF RxSafe, RxPast
<1> QED
  BY <1>2, <1>3

LEMMA RxPeripheral == ASSUME PlacedInv, RxSafe, Peripheral PROVE RxSafe'
<1> USE DEF Peripheral, LoadShift, ShiftOut, Receive, rings, results
<1>1. /\ UNCHANGED <<pc, rx, got, taken>>
      /\ \/ rhr' = rhr /\ arrived' = arrived
         \/ rhr' = arrived + 1 /\ arrived' = arrived + 1
  OBVIOUS
<1>2. Fetched' \in Int /\ Fetched' >= Fetched
  BY <1>1, RxFacts DEF Fetched, RXRDY, NoByte
<1> QED
  BY <1>1, <1>2, RxSame DEF RxSafe, RxPast

LEMMA RxNext == ASSUME RxInv, [Next]_vars PROVE RxInv'
<1> SUFFICES ASSUME "rx" \notin spoiled' PROVE RxSafe'
  BY PlacedNext DEF RxInv
<1>1. PlacedInv /\ RxSafe
  BY SpoiledStays DEF RxInv
<1>2. CASE UNCHANGED vars
  <2>1. UNCHANGED <<pc, rx, got, taken, rhr, arrived>>
    BY <1>2 DEF vars, rings, results, registers
  <2>2. Fetched' = Fetched
    BY <2>1 DEF Fetched, RXRDY
  <2> QED
    BY <1>1, <2>1, <2>2, RxFacts, RxSame DEF RxSafe, RxPast
<1>3. CASE FlushAssign \/ BeginAssign
  <2>1. pc \in {"f_txhead", "f_txtail", "f_rxhead", "f_rxtail", "f_rxsize",
               "b_rxsize", "b_rxhead", "b_rxtail", "b_txsize", "b_txhead", "b_txtail"}
    BY <1>3 DEF FlushAssign, BeginAssign, AssignTx, AssignRx, Goto
  <2> QED
    BY <1>1, <1>3, <2>1, RxLook, RxAssign
<1> QED
  BY <1>1, <1>2, <1>3, RxLook, RxTest, RxAdvance, RxCount, RxHandler, RxPeripheral
     DEF Next, Foreground

\* Until the 256th waiting byte overruns the array, or a byte comes in while
\* flush or begin resets it, the interrupt between the statements of read and
\* write never makes the rx counter disagree with the rx pointers.
THEOREM UartReceiveCounted == Spec => []RxCountUnlessSpoiled
<1>1. RxInv => RxCountUnlessSpoiled
  <2> SUFFICES ASSUME PlacedInv, RxSafe, pc = "idle" PROVE Agrees(rx, 0)
    BY DEF RxInv, RxCountUnlessSpoiled
  <2>1. rx.size \in 0 .. Slots /\ rx.tail = Ahead(rx.head, rx.size)
    BY RxFacts DEF RxSafe, RxPointers, Waiting, RxOpen
  <2> QED
    BY <2>1, RxFacts DEF Agrees
<1> QED
  BY <1>1, RxInit, RxNext, PTL DEF Spec

\* Until then read returns no byte twice and none after a younger one, through
\* any number of flushes and reopenings.
THEOREM UartReceiveInOrder == Spec => ReadsInOrderUnlessSpoiled
<1>1. RxInv /\ [Next]_vars =>
        [pc = "r_count" /\ pc' = "idle" /\ "rx" \notin spoiled => got' > got]_vars
  <2> SUFFICES ASSUME PlacedInv, RxSafe, Next, pc = "r_count", pc' = "idle" PROVE got' > got
    BY DEF RxInv
  <2>1. ReadCount
    BY DEF Next, Call, CallWrite, CallRead, CallFlush, CallBegin, Foreground, Goto, Look,
           WriteTestSize, WriteTestReady, WriteDirect, WriteWait, WriteEnable, WriteAppend,
           WriteStore, WriteAdvance, WriteCount, ReadTest, ReadAdvance, FlushWait, FlushAssign,
           BeginPeripheral, BeginEnable, BeginAssign, AssignTx, AssignRx, Handler, Peripheral
  <2> QED
    BY <2>1, RxFacts DEF ReadCount, RxSafe, RxTaken
<1> QED
  BY <1>1, RxInit, RxNext, PTL DEF Spec, ReadsInOrderUnlessSpoiled

=============================================================================
