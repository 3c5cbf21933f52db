--------------------- MODULE HardwareSerialUsart_proofs ---------------------
(***************************************************************************)
(* Theorems about HardwareSerialUsart, for rings of every size and any     *)
(* number of bytes.                                                        *)
(***************************************************************************)
EXTENDS HardwareSerialUsart, ByteRing_proofs

-----------------------------------------------------------------------------
\* Bytes that left the tx ring: on the wire, in the shift and holding registers.

Out == OutOf(wire, shift, thr)

RegistersInOrder == OutInOrder(wire, shift, thr)

LEMMA OutType ==
  ASSUME PeripheralTypeOK
  PROVE  Len(wire) \in Nat /\ Out \in Nat
BY OutOfType DEF PeripheralTypeOK, Out

\* The peripheral moves bytes from register to register and onto the wire.
LEMMA RegistersMove ==
  ASSUME PeripheralTypeOK, RegistersInOrder, LoadShift \/ ShiftOut \/ Receive
  PROVE  RegistersInOrder' /\ Out' = Out
<1>1. wire \in Seq(Nat) /\ shift \in Nat /\ thr \in Nat /\ OutInOrder(wire, shift, thr)
  BY DEF PeripheralTypeOK, RegistersInOrder
<1>2. CASE LoadShift
  BY <1>1, <1>2, OutLoaded DEF LoadShift, RegistersInOrder, Out
<1>3. CASE ShiftOut
  BY <1>1, <1>3, OutShifted DEF ShiftOut, RegistersInOrder, Out
<1>4. CASE Receive
  BY <1>4 DEF Receive, RegistersInOrder, Out
<1> QED
  BY <1>2, <1>3, <1>4

\* A byte handed to the free holding register is the next one.
LEMMA RegistersTake ==
  ASSUME PeripheralTypeOK, RegistersInOrder, TXRDY, thr' = Out + 1, UNCHANGED <<shift, wire>>
  PROVE  RegistersInOrder' /\ Out' = Out + 1
<1>1. /\ wire \in Seq(Nat) /\ shift \in Nat /\ OutInOrder(wire, shift, NoByte)
      /\ thr' = OutOf(wire, shift, NoByte) + 1 /\ Out + 1 = thr'
  BY DEF PeripheralTypeOK, RegistersInOrder, TXRDY, Out
<1>2. OutInOrder(wire, shift, thr') /\ OutOf(wire, shift, thr') = thr'
  BY <1>1, OutTakes
<1> QED
  BY <1>1, <1>2 DEF RegistersInOrder, Out

\* What left and what is in a ring, when each cell holds what its place says.
LEMMA CountedOut ==
  ASSUME PeripheralTypeOK, RegistersInOrder, NEW r, r.size \in Nat,
         \A i \in 1 .. r.size : r.buf[Ahead(r.head, i - 1)] = Out + i
  PROVE  wire \o Register(shift) \o Register(thr) \o FromHead(r) = [k \in 1 .. Out + r.size |-> k]
<1>1. wire \in Seq(Nat) /\ shift \in Nat /\ thr \in Nat /\ OutInOrder(wire, shift, thr)
  BY DEF PeripheralTypeOK, RegistersInOrder
<1>2. \A i \in 1 .. r.size : r.buf[Ahead(r.head, i - 1)] = OutOf(wire, shift, thr) + i
  BY DEF Out
<1>3. wire \o Register(shift) \o Register(thr) \o FromHead(r)
        = [k \in 1 .. OutOf(wire, shift, thr) + r.size |-> k]
  BY <1>1, <1>2, OutCounted
<1> QED
  BY <1>3 DEF Out

-----------------------------------------------------------------------------
\* Every variable keeps its type; the rings' indexes stay inside their arrays.

LEMMA InitType == Init => TypeOK
<1> SUFFICES ASSUME Init PROVE TypeOK
  OBVIOUS
<1>1. PeripheralTypeOK
  <2>1. <<>> \in Seq(Nat)
    BY EmptySeq
  <2>2. wire \in Seq(Nat)
    BY <2>1, Zenon DEF Init, PeripheralInit
  <2>3. arrived \in 0 .. MaxArrivals /\ thr \in Nat /\ shift \in Nat /\ rhr \in Nat
    BY ArrivalsAssumption, SMT DEF Init, PeripheralInit, NoByte
  <2>4. enabled \in BOOLEAN /\ txIrq \in BOOLEAN /\ rxIrq \in BOOLEAN
    BY DEF Init, PeripheralInit
  <2> QED
    BY <2>2, <2>3, <2>4, Zenon DEF PeripheralTypeOK
<1>2. tx \in Ring /\ rx \in Ring
  BY EmptyRingType DEF Init
<1>3. pc \in Steps
  BY DEF Init, Steps, BeginSteps
<1>4. /\ {accepted, taken, got, peeked} \subseteq Nat
      /\ dropped \in Int
  BY DEF Init, NoByte
<1>5. reopened \in BOOLEAN
  BY DEF Init
<1> QED
  BY <1>1, <1>2, <1>3, <1>4, <1>5 DEF TypeOK

LEMMA CallType ==
  ASSUME TypeOK, Call
  PROVE  TypeOK'
<1>1. /\ pc' \in Steps
      /\ UNCHANGED <<rings, accepted, taken, got, peeked, dropped, registers>>
  BY DEF Call, CallWrite, CallRead, CallPeek, CallFlush, CallBegin, Goto, results,
         Steps, ReadSteps, FlushSteps, BeginSteps
<1>2. reopened' \in BOOLEAN
  BY DEF Call, CallWrite, CallRead, CallPeek, CallFlush, CallBegin, results, TypeOK
<1> QED
  BY <1>1, <1>2 DEF TypeOK, PeripheralTypeOK, rings, registers

LEMMA WriteType ==
  ASSUME TypeOK, WriteStep
  PROVE  TypeOK'
<1> USE DEF Goto, Steps, WriteSteps
<1>1. CASE WriteTestSize \/ WriteTestReady \/ WriteWait
  BY <1>1 DEF TypeOK, PeripheralTypeOK, rings, results, registers,
              WriteTestSize, WriteTestReady, WriteWait
<1>2. CASE WriteDirect
  BY <1>2 DEF TypeOK, PeripheralTypeOK, rings, WriteDirect, Transmit
<1>3. CASE WriteAppend
  BY <1>3 DEF TypeOK, PeripheralTypeOK, rings, registers, WriteAppend
<1>4. CASE WriteStore
  <2>1. tx' \in Ring
    BY <1>4, StoreType DEF WriteStore, TypeOK
  <2> QED
    BY <1>4, <2>1 DEF TypeOK, PeripheralTypeOK, results, registers, WriteStore
<1>5. CASE WriteAdvance
  <2>1. tx' \in Ring
    BY <1>5, AdvanceTailType DEF WriteAdvance, TypeOK
  <2> QED
    BY <1>5, <2>1 DEF TypeOK, PeripheralTypeOK, results, registers, WriteAdvance
<1>6. CASE WriteCount
  <2>1. tx' \in Ring
    BY <1>6, CountUpType DEF WriteCount, TypeOK
  <2> QED
    BY <1>6, <2>1 DEF TypeOK, PeripheralTypeOK, registers, WriteCount
<1>7. CASE WriteEnable
  BY <1>7 DEF TypeOK, PeripheralTypeOK, rings, results, WriteEnable, UnmaskTx
<1> QED
  BY <1>1, <1>2, <1>3, <1>4, <1>5, <1>6, <1>7 DEF WriteStep

LEMMA ReadType ==
  ASSUME TypeOK, ReadStep
  PROVE  TypeOK'
<1> USE DEF Goto, Steps, ReadSteps
<1>1. CASE ReadTest \/ PeekTest
  BY <1>1 DEF TypeOK, PeripheralTypeOK, rings, results, registers, ReadTest, PeekTest
<1>2. CASE ReadLoad
  BY <1>2, FirstType DEF TypeOK, PeripheralTypeOK, rings, registers, ReadLoad
<1>3. CASE ReadAdvance
  <2>1. rx' \in Ring
    BY <1>3, AdvanceHeadType DEF ReadAdvance, TypeOK
  <2> QED
    BY <1>3, <2>1 DEF TypeOK, PeripheralTypeOK, results, registers, ReadAdvance
<1>4. CASE ReadCount
  <2>1. rx' \in Ring
    BY <1>4, CountDownType DEF ReadCount, TypeOK
  <2> QED
    BY <1>4, <2>1 DEF TypeOK, PeripheralTypeOK, registers, ReadCount, NoByte
<1>5. CASE PeekLoad
  BY <1>5, FirstType DEF TypeOK, PeripheralTypeOK, rings, registers, PeekLoad
<1> QED
  BY <1>1, <1>2, <1>3, <1>4, <1>5 DEF ReadStep

LEMMA FlushType ==
  ASSUME TypeOK, FlushStep
  PROVE  TypeOK'
<1> USE DEF Goto, Steps, FlushSteps
<1>1. CASE FlushWait
  BY <1>1 DEF TypeOK, PeripheralTypeOK, rings, results, registers, FlushWait
<1>2. CASE FlushTxHead \/ FlushTxTail \/ FlushRxHead \/ FlushRxTail
  <2>1. tx' \in Ring /\ rx' \in Ring
    BY <1>2, ResetType DEF TypeOK, FlushTxHead, FlushTxTail, FlushRxHead, FlushRxTail
  <2> QED
    BY <1>2, <2>1 DEF TypeOK, PeripheralTypeOK, results, registers,
                      FlushTxHead, FlushTxTail, FlushRxHead, FlushRxTail
<1>3. CASE FlushRxSize
  <2>1. rx' \in Ring
    BY <1>3, ResetType DEF TypeOK, FlushRxSize
  <2>2. LastHandled \in Int
    BY ArrivalsAssumption DEF TypeOK, PeripheralTypeOK, LastHandled
  <2> QED
    BY <1>3, <2>1, <2>2 DEF TypeOK, PeripheralTypeOK, registers, FlushRxSize, NoByte
<1> QED
  BY <1>1, <1>2, <1>3 DEF FlushStep

LEMMA BeginType ==
  ASSUME TypeOK, BeginStep
  PROVE  TypeOK'
<1> USE DEF Goto, Steps, BeginSteps
<1>1. CASE BeginRxSize
  <2>1. rx' \in Ring
    BY <1>1, ResetType DEF TypeOK, BeginRxSize
  <2>2. LastHandled \in Int
    BY ArrivalsAssumption DEF TypeOK, PeripheralTypeOK, LastHandled
  <2> QED
    BY <1>1, <2>1, <2>2 DEF TypeOK, PeripheralTypeOK, registers, BeginRxSize, NoByte
<1>2. CASE BeginRxHead \/ BeginRxTail \/ BeginTxSize \/ BeginTxHead \/ BeginTxTail
  <2>1. tx' \in Ring /\ rx' \in Ring
    BY <1>2, ResetType
       DEF TypeOK, BeginRxHead, BeginRxTail, BeginTxSize, BeginTxHead, BeginTxTail
  <2> QED
    BY <1>2, <2>1 DEF TypeOK, PeripheralTypeOK, results, registers,
                      BeginRxHead, BeginRxTail, BeginTxSize, BeginTxHead, BeginTxTail
<1>3. CASE BeginPeripheral
  BY <1>3 DEF TypeOK, PeripheralTypeOK, rings, results, BeginPeripheral, Restart, NoByte
<1>4. CASE BeginEnable
  BY <1>4 DEF TypeOK, PeripheralTypeOK, rings, results, BeginEnable
<1> QED
  BY <1>1, <1>2, <1>3, <1>4 DEF BeginStep

LEMMA HandlerType ==
  ASSUME TypeOK, Handler
  PROVE  TypeOK'
<1>1. rx' \in Ring /\ rhr' \in Nat
  BY AppendedType DEF Handler, RxReadyCallback, TypeOK, PeripheralTypeOK, NoByte
<1>2. tx' \in Ring /\ thr' \in Nat /\ txIrq' \in BOOLEAN
  BY RemovedType, FirstType
     DEF Handler, TxEmptyCallback, TypeOK, PeripheralTypeOK, Transmit, MaskTx
<1> QED
  BY <1>1, <1>2 DEF Handler, TypeOK, PeripheralTypeOK, results

LEMMA PeripheralStepType ==
  ASSUME TypeOK, Peripheral
  PROVE  TypeOK'
<1> USE DEF TypeOK, PeripheralTypeOK, Peripheral, rings, results
<1>1. CASE LoadShift
  BY <1>1 DEF LoadShift, NoByte
<1>2. CASE ShiftOut
  BY <1>2 DEF ShiftOut, NoByte
<1>3. CASE Receive
  BY <1>3, ArrivalsAssumption DEF Receive
<1> QED
  BY <1>1, <1>2, <1>3

LEMMA NextType ==
  ASSUME TypeOK, [Next]_vars
  PROVE  TypeOK'
<1>1. CASE UNCHANGED vars
  BY <1>1 DEF TypeOK, PeripheralTypeOK, vars, rings, results, registers
<1> QED
  BY <1>1, CallType, WriteType, ReadType, FlushType, BeginType, HandlerType,
     PeripheralStepType DEF Next, Foreground

\* Whatever operations the sketch uses, in any interleaving with the interrupt,
\* no index leaves its array and no counter its field.
THEOREM TypeCorrect == Spec => []TypeOK
<1>1. Init => TypeOK
  BY InitType
<1>2. TypeOK /\ [Next]_vars => TypeOK'
  BY NextType
<1> QED
  BY <1>1, <1>2, PTL DEF Spec

-----------------------------------------------------------------------------
\* No byte stays behind a masked interrupt.

\* The handler masks itself only over an empty ring, and write counts a byte
\* only one step before it unmasks the interrupt.
LEMMA WakeupStep ==
  ASSUME TypeOK, NoLostWakeup, [Next]_vars
  PROVE  NoLostWakeup'
<1> USE DEF NoLostWakeup, TypeOK, Ring, Goto
<1>1. CASE UNCHANGED vars
  BY <1>1 DEF vars, rings, registers
<1>2. CASE Call
  BY <1>2 DEF Call, CallWrite, CallRead, CallPeek, CallFlush, CallBegin, rings, registers
<1>3. CASE WriteStep
  BY <1>3 DEF WriteStep, WriteTestSize, WriteTestReady, WriteDirect, WriteWait, WriteAppend,
              WriteStore, WriteAdvance, WriteCount, WriteEnable, rings, registers,
              Store, AdvanceTail, CountUp, UnmaskTx, HasRoom
<1>4. CASE ReadStep
  BY <1>4 DEF ReadStep, ReadTest, ReadLoad, ReadAdvance, ReadCount, PeekTest, PeekLoad,
              rings, registers
<1>5. CASE FlushStep
  BY <1>5 DEF FlushStep, FlushWait, FlushTxHead, FlushTxTail, FlushRxHead, FlushRxTail,
              FlushRxSize, rings, registers
<1>6. CASE BeginStep
  BY <1>6 DEF BeginStep, BeginRxSize, BeginRxHead, BeginRxTail, BeginTxSize, BeginTxHead,
              BeginTxTail, BeginPeripheral, BeginEnable, rings, registers
<1>7. CASE Handler
  BY <1>7 DEF Handler, TxEmptyCallback, MaskTx, Removed, CountDown, AdvanceHead, results
<1>8. CASE Peripheral
  BY <1>8 DEF Peripheral, LoadShift, ShiftOut, Receive, rings
<1> QED
  BY <1>1, <1>2, <1>3, <1>4, <1>5, <1>6, <1>7, <1>8 DEF Next, Foreground

\* While bytes wait in the tx ring the interrupt that fetches them is unmasked,
\* or the write that added one is about to unmask it.
THEOREM WakeupNeverLost == Spec => []NoLostWakeup
<1>1. Init => NoLostWakeup
  BY DEF Init, NoLostWakeup, EmptyRing
<1>2. TypeOK /\ NoLostWakeup /\ [Next]_vars => NoLostWakeup'
  BY WakeupStep
<1> QED
  BY <1>1, <1>2, TypeCorrect, PTL DEF Spec

-----------------------------------------------------------------------------
\* No byte is lost, repeated or overtaken.  The invariant says where every
\* accepted byte is; it is stated slot by slot, so that no step needs more than
\* arithmetic on ring indexes.

RingInOrder ==
  \A i \in Index : i < tx.size => tx.buf[Ahead(tx.head, i)] = Out + 1 + i

Conservation == accepted = Out + tx.size

\* The tail is one cell ahead of the count between the two statements of
\* tx_buffer_append, and the pointers are apart while flush resets them.
PointersMatch ==
  /\ tx.size <= Slots
  /\ pc \notin {"w_count", "f_txtail"} => tx.tail = Ahead(tx.head, tx.size)
  /\ pc = "w_count" => tx.tail = Ahead(tx.head, tx.size + 1)

\* The byte being appended is in its cell before it counts.
StoredByte ==
  /\ pc = "w_advance" => tx.buf[tx.tail] = accepted + 1
  /\ pc = "w_count" => tx.buf[Ahead(tx.head, tx.size)] = accepted + 1

\* What the foreground found out and the handler cannot undo.
Known ==
  /\ pc \in {"w_append", "w_store", "w_advance", "w_count"} => tx.size < Slots
  /\ pc \in {"w_ready", "w_direct", "f_txhead", "f_txtail"} => tx.size = 0
  /\ pc = "w_direct" => TXRDY
  /\ pc = "f_txtail" => tx.head = 0

\* begin runs once, before anything was sent.
FirstBegin ==
  pc \in BeginSteps =>
    /\ accepted = 0 /\ thr = NoByte /\ shift = NoByte /\ wire = <<>>
    /\ tx.size = 0 /\ tx.head = 0 /\ tx.tail = 0

TxInv ==
  /\ TypeOK
  /\ RegistersInOrder
  /\ RingInOrder
  /\ Conservation
  /\ PointersMatch
  /\ StoredByte
  /\ Known
  /\ FirstBegin

\* A step that leaves the bytes where they are.
LEMMA BytesStay ==
  ASSUME TxInv, tx' = tx, accepted' = accepted, thr' = thr, shift' = shift, wire' = wire
  PROVE  RegistersInOrder' /\ RingInOrder' /\ Conservation'
BY DEF TxInv, RegistersInOrder, OutInOrder, RingInOrder, Conservation, Out, OutOf

LEMMA TxInit == Init => TxInv
<1> SUFFICES ASSUME Init PROVE TxInv
  OBVIOUS
<1>1. TypeOK
  BY InitType
<1>2. /\ wire = <<>> /\ Len(wire) = 0 /\ thr = NoByte /\ shift = NoByte
      /\ tx.size = 0 /\ tx.head = 0 /\ tx.tail = 0 /\ accepted = 0 /\ pc = "b_rxsize"
  BY DEF Init, PeripheralInit, EmptyRing
<1>3. RegistersInOrder /\ RingInOrder /\ Conservation
  BY <1>2 DEF RegistersInOrder, OutInOrder, RingInOrder, Conservation, Out, OutOf, Held, Index
<1>4. PointersMatch
  BY <1>2, RingAssumption DEF PointersMatch, Ahead
<1>5. StoredByte /\ Known /\ FirstBegin
  BY <1>2 DEF StoredByte, Known, FirstBegin
<1> QED
  BY <1>1, <1>3, <1>4, <1>5 DEF TxInv

\* Steps of the foreground that only look, or that work on the rx ring.
LEMMA TxLook ==
  ASSUME TxInv, ~ reopened',
         \/ Call \/ ReadStep
         \/ WriteTestSize \/ WriteTestReady \/ WriteWait \/ WriteEnable
         \/ FlushWait \/ FlushRxHead \/ FlushRxTail \/ FlushRxSize
         \/ BeginRxSize \/ BeginRxHead \/ BeginRxTail \/ BeginEnable
  PROVE  TxInv'
<1> USE DEF Call, CallWrite, CallRead, CallPeek, CallFlush, CallBegin,
            ReadStep, ReadTest, ReadLoad, ReadAdvance, ReadCount, PeekTest, PeekLoad,
            WriteTestSize, WriteTestReady, WriteWait, WriteEnable,
            FlushWait, FlushRxHead, FlushRxTail, FlushRxSize,
            BeginRxSize, BeginRxHead, BeginRxTail, BeginEnable,
            rings, results, registers
<1>1. /\ tx' = tx /\ accepted' = accepted /\ thr' = thr /\ shift' = shift /\ wire' = wire
      /\ enabled' = enabled
  OBVIOUS
<1>2. TypeOK'
  BY NextType DEF TxInv, Next, Foreground, WriteStep, FlushStep, BeginStep
<1>3. RegistersInOrder' /\ RingInOrder' /\ Conservation'
  BY <1>1, BytesStay
<1>4. PointersMatch'
  BY <1>1 DEF TxInv, PointersMatch, Goto
<1>5. StoredByte'
  BY <1>1 DEF TxInv, StoredByte, Goto
<1>6. Known'
  BY <1>1, RingAssumption, UsartAssumption
     DEF TxInv, TypeOK, Ring, PointersMatch, Known, TXRDY, Goto
<1>7. FirstBegin'
  BY <1>1 DEF TxInv, FirstBegin, BeginSteps, Goto
<1> QED
  BY <1>2, <1>3, <1>4, <1>5, <1>6, <1>7 DEF TxInv

\* The direct way: the ring is empty, so the holding register is next.
LEMMA TxDirect ==
  ASSUME TxInv, WriteDirect
  PROVE  TxInv'
<1> USE DEF WriteDirect, rings
<1>1. /\ pc = "w_direct" /\ pc' = "idle" /\ tx' = tx /\ shift' = shift /\ wire' = wire
      /\ tx.size = 0 /\ thr = NoByte /\ thr' = accepted + 1 /\ accepted' = accepted + 1
  BY DEF TxInv, Known, TXRDY, Transmit, Goto
<1>2. TypeOK'
  BY NextType DEF TxInv, Next, Foreground, WriteStep
<1>3. accepted = Out /\ accepted \in Nat
  BY <1>1, OutType DEF TxInv, TypeOK, Conservation
<1>4. RegistersInOrder' /\ RingInOrder' /\ Conservation'
  <2>1. RegistersInOrder' /\ Out' = Out + 1
    BY <1>1, <1>3, RegistersTake DEF TxInv, TypeOK, Known
  <2>2. RingInOrder'
    BY <1>1 DEF RingInOrder, Index
  <2>3. Conservation'
    BY <1>1, <1>3, <2>1 DEF Conservation
  <2> QED
    BY <2>1, <2>2, <2>3
<1>5. PointersMatch' /\ StoredByte' /\ Known' /\ FirstBegin'
  BY <1>1 DEF TxInv, PointersMatch, StoredByte, Known, FirstBegin, BeginSteps
<1> QED
  BY <1>2, <1>4, <1>5 DEF TxInv

\* tx_buffer_append: store, advance, count.
LEMMA TxAppend ==
  ASSUME TxInv, WriteAppend
  PROVE  TxInv'
<1>1. HasRoom(tx)
  BY UsartAssumption, RingAssumption
     DEF TxInv, TypeOK, Ring, Known, HasRoom, WriteAppend, Goto
<1>2. /\ pc = "w_append" /\ pc' = "w_store" /\ tx' = tx /\ accepted' = accepted
      /\ thr' = thr /\ shift' = shift /\ wire' = wire
  BY <1>1 DEF WriteAppend, Goto, rings, registers
<1>3. TypeOK'
  BY NextType DEF TxInv, Next, Foreground, WriteStep
<1>4. RegistersInOrder' /\ RingInOrder' /\ Conservation'
  BY <1>2, BytesStay
<1>5. PointersMatch' /\ StoredByte' /\ Known' /\ FirstBegin'
  BY <1>2 DEF TxInv, PointersMatch, StoredByte, Known, FirstBegin, BeginSteps
<1> QED
  BY <1>3, <1>4, <1>5 DEF TxInv

LEMMA TxStore ==
  ASSUME TxInv, WriteStore
  PROVE  TxInv'
<1>1. /\ pc = "w_store" /\ pc' = "w_advance" /\ accepted' = accepted
      /\ thr' = thr /\ shift' = shift /\ wire' = wire
      /\ tx'.head = tx.head /\ tx'.tail = tx.tail /\ tx'.size = tx.size
      /\ tx'.buf = [tx.buf EXCEPT ![tx.tail] = accepted + 1]
  BY DEF WriteStore, Goto, Store, results, registers, TxInv, TypeOK, Ring
<1>2. TypeOK'
  BY NextType DEF TxInv, Next, Foreground, WriteStep
<1>3. tx.tail = Ahead(tx.head, tx.size) /\ tx.size < Slots
  BY <1>1 DEF TxInv, PointersMatch, Known
<1>4. RegistersInOrder' /\ Conservation'
  BY <1>1 DEF TxInv, RegistersInOrder, OutInOrder, Conservation, Out, OutOf
<1>5. RingInOrder'
  <2>1. Out' = Out
    BY <1>1 DEF Out, OutOf
  <2> SUFFICES ASSUME NEW i \in Index, i < tx.size
               PROVE  tx'.buf[Ahead(tx.head, i)] = Out + 1 + i
    BY <1>1, <2>1 DEF RingInOrder
  <2>2. tx.head \in Index /\ tx.size \in Nat
    BY RingAssumption DEF TxInv, TypeOK, Ring
  <2>3. tx.size \in Index /\ i \in 0 .. Slots /\ i # tx.size
    BY <1>3, <2>2, RingAssumption DEF Index
  <2>4. Ahead(tx.head, i) # tx.tail /\ Ahead(tx.head, i) \in Index
    BY <1>3, <2>2, <2>3, AheadDistinct, AheadType, Zenon
  <2> QED
    BY <1>1, <2>4 DEF TxInv, RingInOrder, TypeOK, Ring
<1>6. StoredByte'
  BY <1>1 DEF TxInv, TypeOK, Ring, StoredByte
<1>7. PointersMatch' /\ Known' /\ FirstBegin'
  BY <1>1, <1>3 DEF TxInv, PointersMatch, Known, FirstBegin, BeginSteps
<1> QED
  BY <1>2, <1>4, <1>5, <1>6, <1>7 DEF TxInv

LEMMA TxAdvance ==
  ASSUME TxInv, WriteAdvance
  PROVE  TxInv'
<1>1. /\ pc = "w_advance" /\ pc' = "w_count" /\ accepted' = accepted
      /\ thr' = thr /\ shift' = shift /\ wire' = wire
      /\ tx'.head = tx.head /\ tx'.tail = Advance(tx.tail) /\ tx'.size = tx.size
      /\ tx'.buf = tx.buf
  BY DEF WriteAdvance, Goto, AdvanceTail, results, registers, TxInv, TypeOK, Ring
<1>2. TypeOK'
  BY NextType DEF TxInv, Next, Foreground, WriteStep
<1>3. tx.tail = Ahead(tx.head, tx.size) /\ tx.size < Slots
  BY <1>1 DEF TxInv, PointersMatch, Known
<1>4. RegistersInOrder' /\ RingInOrder' /\ Conservation'
  BY <1>1 DEF TxInv, RegistersInOrder, OutInOrder, RingInOrder, Conservation, Out, OutOf
<1>5. Advance(tx.tail) = Ahead(tx.head, tx.size + 1)
  BY <1>3, AheadAdvance, RingAssumption DEF TxInv, TypeOK, Ring, Index
<1>6. PointersMatch' /\ StoredByte' /\ Known' /\ FirstBegin'
  BY <1>1, <1>3, <1>5 DEF TxInv, PointersMatch, StoredByte, Known, FirstBegin, BeginSteps
<1> QED
  BY <1>2, <1>4, <1>6 DEF TxInv

LEMMA TxCount ==
  ASSUME TxInv, WriteCount
  PROVE  TxInv'
<1>1. tx.size < Slots /\ tx.size + 1 # CountMod /\ tx.size \in Nat
  BY UsartAssumption, RingAssumption DEF TxInv, TypeOK, Ring, Known, WriteCount, Goto
<1>2. /\ pc = "w_count" /\ pc' = "w_enable" /\ accepted' = accepted + 1
      /\ thr' = thr /\ shift' = shift /\ wire' = wire
      /\ tx'.head = tx.head /\ tx'.tail = tx.tail /\ tx'.size = tx.size + 1
      /\ tx'.buf = tx.buf
  BY <1>1 DEF WriteCount, Goto, CountUp, registers, TxInv, TypeOK, Ring
<1>3. TypeOK'
  BY NextType DEF TxInv, Next, Foreground, WriteStep
<1>4. Out' = Out /\ accepted = Out + tx.size /\ Out \in Nat
  BY <1>2, OutType DEF TxInv, TypeOK, Out, OutOf, Conservation
<1>5. RegistersInOrder' /\ Conservation'
  BY <1>1, <1>2, <1>4 DEF TxInv, RegistersInOrder, OutInOrder, Conservation
<1>6. RingInOrder'
  <2> SUFFICES ASSUME NEW i \in Index, i < tx.size + 1
               PROVE  tx.buf[Ahead(tx.head, i)] = Out + 1 + i
    BY <1>2, <1>4 DEF RingInOrder
  <2>1. CASE i < tx.size
    BY <2>1 DEF TxInv, RingInOrder
  <2>2. CASE i = tx.size
    BY <1>2, <1>4, <2>2 DEF TxInv, StoredByte, Index
  <2> QED
    BY <1>1, <2>1, <2>2 DEF Index
<1>7. PointersMatch' /\ StoredByte' /\ Known' /\ FirstBegin'
  BY <1>1, <1>2, RingAssumption
     DEF TxInv, PointersMatch, StoredByte, Known, FirstBegin, BeginSteps
<1> QED
  BY <1>3, <1>5, <1>6, <1>7 DEF TxInv

\* Resetting the pointers of an empty ring.
LEMMA TxReset ==
  ASSUME TxInv, FlushTxHead \/ FlushTxTail \/ BeginTxSize \/ BeginTxHead \/ BeginTxTail
  PROVE  TxInv'
<1> USE DEF FlushTxHead, FlushTxTail, BeginTxSize, BeginTxHead, BeginTxTail, results, registers
<1>1. /\ tx.size = 0 /\ tx'.size = 0 /\ accepted' = accepted /\ thr' = thr /\ shift' = shift
      /\ wire' = wire /\ enabled' = enabled
  BY DEF TxInv, TypeOK, Ring, Known, FirstBegin, BeginSteps, Goto
<1>2. TypeOK'
  BY NextType DEF TxInv, Next, Foreground, FlushStep, BeginStep
<1>3. RegistersInOrder' /\ Conservation'
  BY <1>1 DEF TxInv, RegistersInOrder, OutInOrder, Conservation, Out, OutOf
<1>4. RingInOrder'
  BY <1>1 DEF RingInOrder, Index
<1>5. PointersMatch'
  <2>1. pc = "f_txtail" => tx.head = 0 /\ tx'.head = 0 /\ tx'.tail = 0
    BY DEF TxInv, TypeOK, Ring, Known, Goto
  <2>2. pc \in BeginSteps => tx'.head = 0 /\ tx'.tail = 0
    BY DEF TxInv, TypeOK, Ring, FirstBegin, BeginSteps, Goto
  <2>3. Ahead(0, 0) = 0
    BY RingAssumption DEF Ahead
  <2>4. pc' = "f_txtail" \/ (pc' # "w_count" /\ tx'.head = 0 /\ tx'.tail = 0)
    BY <2>1, <2>2 DEF Goto, BeginSteps
  <2> QED
    BY <1>1, <2>3, <2>4, RingAssumption DEF PointersMatch
<1>6. StoredByte'
  BY DEF StoredByte, Goto
<1>7. Known'
  BY <1>1 DEF TxInv, TypeOK, Ring, Known, Goto
<1>8. FirstBegin'
  BY <1>1 DEF TxInv, TypeOK, Ring, FirstBegin, BeginSteps, Goto
<1> QED
  BY <1>2, <1>3, <1>4, <1>5, <1>6, <1>7, <1>8 DEF TxInv

LEMMA TxRestart ==
  ASSUME TxInv, BeginPeripheral
  PROVE  TxInv'
<1>1. /\ pc = "b_init" /\ pc' = "b_irq" /\ tx' = tx /\ accepted' = accepted
      /\ wire' = wire /\ thr' = thr /\ shift' = shift
  BY DEF BeginPeripheral, Restart, Goto, rings, results, TxInv, FirstBegin, BeginSteps
<1>2. TypeOK'
  BY NextType DEF TxInv, Next, Foreground, BeginStep
<1>3. RegistersInOrder' /\ RingInOrder' /\ Conservation'
  BY <1>1, BytesStay
<1>4. PointersMatch' /\ StoredByte' /\ Known' /\ FirstBegin'
  BY <1>1 DEF TxInv, PointersMatch, StoredByte, Known, FirstBegin, BeginSteps
<1> QED
  BY <1>2, <1>3, <1>4 DEF TxInv

\* The peripheral moves bytes from register to register and onto the wire.
LEMMA TxPeripheral ==
  ASSUME TxInv, Peripheral
  PROVE  TxInv'
<1> USE DEF Peripheral, rings, results
<1>1. TypeOK'
  BY NextType DEF TxInv, Next
<1>2. tx' = tx /\ pc' = pc /\ accepted' = accepted /\ enabled' = enabled
  BY DEF LoadShift, ShiftOut, Receive
<1>3. thr # NoByte => thr' \in {thr, NoByte}
  BY DEF LoadShift, ShiftOut, Receive
<1>4. RegistersInOrder' /\ Out' = Out
  BY RegistersMove DEF TxInv, TypeOK
<1>5. RingInOrder' /\ Conservation' /\ PointersMatch' /\ StoredByte'
  BY <1>2, <1>4 DEF TxInv, RingInOrder, Conservation, PointersMatch, StoredByte
<1>6. TXRDY => TXRDY'
  BY <1>2 DEF TXRDY, LoadShift, ShiftOut, Receive
<1>7. Known'
  BY <1>2, <1>6 DEF TxInv, Known
<1>8. FirstBegin'
  BY <1>2 DEF TxInv, FirstBegin, LoadShift, ShiftOut, Receive
<1> QED
  BY <1>1, <1>4, <1>5, <1>7, <1>8 DEF TxInv

\* The handler: either the tx part leaves everything, or it moves the byte at
\* the head into the empty holding register.
LEMMA TxHandler ==
  ASSUME TxInv, Handler
  PROVE  TxInv'
<1> USE DEF Handler, results
<1>1. TypeOK'
  BY NextType DEF TxInv, Next
<1>2. pc' = pc /\ accepted' = accepted /\ enabled' = enabled /\ shift' = shift /\ wire' = wire
  OBVIOUS
<1>3. \/ tx' = tx /\ thr' = thr
      \/ TXRDY /\ tx.size > 0 /\ thr' = First(tx) /\ tx' = Removed(tx)
  <2>1. tx.size \in Nat
    BY RingAssumption DEF TxInv, TypeOK, Ring
  <2> QED
    BY <2>1 DEF TxEmptyCallback, Transmit
<1>4. CASE tx' = tx /\ thr' = thr
  <2>1. RegistersInOrder' /\ RingInOrder' /\ Conservation'
    BY <1>2, <1>4, BytesStay
  <2>2. PointersMatch' /\ StoredByte' /\ Known' /\ FirstBegin'
    BY <1>2, <1>4 DEF TxInv, PointersMatch, StoredByte, Known, TXRDY, FirstBegin
  <2> QED
    BY <1>1, <2>1, <2>2 DEF TxInv
<1>5. CASE TXRDY /\ tx.size > 0 /\ thr' = First(tx) /\ tx' = Removed(tx)
  <2>1. /\ tx.head \in Index /\ tx.tail \in Index /\ tx.size \in 1 .. Slots
        /\ tx.buf \in [Index -> Nat] /\ tx.size - 1 \in Index
    <3>1. /\ tx.head \in Index /\ tx.tail \in Index /\ tx.size \in Nat
          /\ tx.buf \in [Index -> Nat]
      BY RingAssumption DEF TxInv, TypeOK, Ring
    <3>2. tx.size <= Slots
      BY DEF TxInv, PointersMatch
    <3> QED
      BY <1>5, <3>1, <3>2, RingAssumption DEF Index
  <2>2. /\ tx'.head = Advance(tx.head) /\ tx'.tail = tx.tail /\ tx'.size = tx.size - 1
        /\ tx'.buf = tx.buf
    BY <1>5, <2>1 DEF Removed, CountDown, AdvanceHead, TxInv, TypeOK, Ring
  <2>3. /\ Len(wire) \in Nat /\ thr = NoByte /\ shift \in Nat /\ Out \in Nat
        /\ Held(thr) = 0 /\ Held(shift) \in 0 .. 1
    BY <1>5, OutType, HeldType DEF TXRDY, TxInv, TypeOK, PeripheralTypeOK, Held
  <2>4. thr' = Out + 1
    <3>1. Ahead(tx.head, 0) = tx.head
      BY <2>1, AheadZero
    <3>2. 0 \in Index /\ 0 < tx.size
      BY <2>1, RingAssumption DEF Index
    <3> QED
      BY <1>5, <2>3, <3>1, <3>2 DEF TxInv, RingInOrder, First
  <2>5. RegistersInOrder' /\ Out' = Out + 1
    BY <1>2, <1>5, <2>4, RegistersTake DEF TxInv, TypeOK
  <2>6. Conservation'
    BY <1>2, <2>1, <2>2, <2>3, <2>5 DEF TxInv, Conservation
  <2>7. RingInOrder'
    <3> SUFFICES ASSUME NEW i \in Index, i < tx.size - 1
                 PROVE  tx.buf[Ahead(Advance(tx.head), i)] = Out + 2 + i
      BY <2>2, <2>3, <2>5 DEF RingInOrder, Index
    <3>1. Ahead(Advance(tx.head), i) = Ahead(tx.head, i + 1)
      BY <2>1, AheadAdvance
    <3>2. i + 1 \in Index /\ i + 1 < tx.size /\ i \in Nat
      BY <2>1, RingAssumption DEF Index
    <3>3. tx.buf[Ahead(tx.head, i + 1)] = Out + 1 + (i + 1)
      BY <3>2 DEF TxInv, RingInOrder
    <3> QED
      BY <2>3, <3>1, <3>2, <3>3
  <2>8. Ahead(Advance(tx.head), tx.size - 1) = Ahead(tx.head, tx.size)
    BY <2>1, AheadAdvance
  <2>9. PointersMatch' /\ StoredByte'
    <3>1. pc \notin {"w_count", "f_txtail"} => tx.tail = Ahead(tx.head, tx.size)
      BY DEF TxInv, PointersMatch
    <3>2. pc = "w_count" => /\ tx.tail = Ahead(tx.head, tx.size + 1) /\ tx.size \in Index
                            /\ tx.buf[Ahead(tx.head, tx.size)] = accepted + 1
      <4> SUFFICES ASSUME pc = "w_count"
                   PROVE  /\ tx.tail = Ahead(tx.head, tx.size + 1) /\ tx.size \in Index
                          /\ tx.buf[Ahead(tx.head, tx.size)] = accepted + 1
        OBVIOUS
      <4>1. tx.size < Slots
        BY DEF TxInv, Known
      <4>2. tx.size \in Index
        BY <2>1, <4>1, RingAssumption DEF Index
      <4> QED
        BY <4>2 DEF TxInv, PointersMatch, StoredByte
    <3>3. pc = "w_count" => Ahead(Advance(tx.head), tx.size) = Ahead(tx.head, tx.size + 1)
      BY <2>1, <3>2, AheadAdvance
    <3>4. PointersMatch'
      <4>1. tx'.size <= Slots /\ tx'.size = tx.size - 1 /\ tx'.size + 1 = tx.size
        BY <2>1, <2>2, RingAssumption
      <4>2. pc' \notin {"w_count", "f_txtail"} => tx'.tail = Ahead(tx'.head, tx'.size)
        BY <1>2, <2>2, <2>8, <3>1, Zenon
      <4>3. pc' = "w_count" => tx'.tail = Ahead(tx'.head, tx'.size + 1)
        BY <1>2, <2>2, <3>2, <3>3, <4>1, Zenon
      <4> QED
        BY <4>1, <4>2, <4>3 DEF PointersMatch
    <3>5. StoredByte'
      BY <1>2, <2>2, <2>8, <3>2 DEF TxInv, StoredByte
    <3> QED
      BY <3>4, <3>5
  <2>10. Known' /\ FirstBegin'
    <3>1. tx.size # 0 /\ tx'.size < tx.size
      BY <2>1, <2>2
    <3>2. pc \notin {"w_ready", "w_direct", "f_txhead", "f_txtail"} /\ pc \notin BeginSteps
      BY <3>1 DEF TxInv, Known, FirstBegin
    <3>3. pc \in {"w_append", "w_store", "w_advance", "w_count"} => tx'.size < Slots
      BY <2>1, <2>2, RingAssumption DEF TxInv, Known
    <3> QED
      BY <1>2, <3>2, <3>3 DEF Known, FirstBegin
  <2> QED
    BY <1>1, <2>5, <2>6, <2>7, <2>9, <2>10 DEF TxInv
<1> QED
  BY <1>3, <1>4, <1>5

LEMMA TxNext ==
  ASSUME TxInv, ~ reopened', [Next]_vars
  PROVE  TxInv'
<1>1. CASE UNCHANGED vars
  <2>1. /\ tx' = tx /\ accepted' = accepted /\ thr' = thr /\ shift' = shift /\ wire' = wire
        /\ pc' = pc /\ enabled' = enabled
    BY <1>1 DEF vars, rings, results, registers
  <2>2. RegistersInOrder' /\ RingInOrder' /\ Conservation'
    BY <2>1, BytesStay
  <2>3. TypeOK'
    BY <1>1, NextType DEF TxInv
  <2> QED
    BY <2>1, <2>2, <2>3 DEF TxInv, PointersMatch, StoredByte, Known, TXRDY, FirstBegin
<1>2. CASE WriteStep
  BY <1>2, TxLook, TxDirect, TxAppend, TxStore, TxAdvance, TxCount DEF WriteStep
<1>3. CASE FlushStep
  BY <1>3, TxLook, TxReset DEF FlushStep
<1>4. CASE BeginStep
  BY <1>4, TxLook, TxReset, TxRestart DEF BeginStep
<1> QED
  BY <1>1, <1>2, <1>3, <1>4, TxLook, TxHandler, TxPeripheral DEF Next, Foreground

LEMMA TxInvNothingLost ==
  ASSUME TxInv
  PROVE  NothingLost
<1>1. /\ PeripheralTypeOK /\ RegistersInOrder /\ tx.size \in Nat /\ tx.size <= Slots
      /\ Out \in Nat /\ accepted = Out + tx.size
  BY OutType, RingAssumption DEF TxInv, TypeOK, Ring, PointersMatch, Conservation
<1>2. ASSUME NEW i \in 1 .. tx.size
      PROVE  tx.buf[Ahead(tx.head, i - 1)] = Out + i
  <2>1. i - 1 \in Index /\ i - 1 < tx.size
    BY <1>1, RingAssumption DEF Index
  <2>2. tx.buf[Ahead(tx.head, i - 1)] = Out + 1 + (i - 1)
    BY <2>1 DEF TxInv, RingInOrder
  <2> QED
    BY <1>1, <2>2
<1> QED
  BY <1>1, <1>2, CountedOut DEF NothingLost, Outgoing

\* Nothing makes the port forget that it was opened again.
LEMMA ReopenedStays ==
  ASSUME [Next]_vars, reopened
  PROVE  reopened'
<1>1. CASE UNCHANGED vars
  BY <1>1 DEF vars, results
<1>2. CASE Call
  BY <1>2 DEF Call, CallWrite, CallRead, CallPeek, CallFlush, CallBegin, results
<1>3. CASE WriteStep
  BY <1>3 DEF WriteStep, WriteTestSize, WriteTestReady, WriteDirect, WriteWait, WriteAppend,
              WriteStore, WriteAdvance, WriteCount, WriteEnable, results
<1>4. CASE ReadStep
  BY <1>4 DEF ReadStep, ReadTest, ReadLoad, ReadAdvance, ReadCount, PeekTest, PeekLoad, results
<1>5. CASE FlushStep
  BY <1>5 DEF FlushStep, FlushWait, FlushTxHead, FlushTxTail, FlushRxHead, FlushRxTail,
              FlushRxSize, results
<1>6. CASE BeginStep
  BY <1>6 DEF BeginStep, BeginRxSize, BeginRxHead, BeginRxTail, BeginTxSize, BeginTxHead,
              BeginTxTail, BeginPeripheral, BeginEnable, results
<1>7. CASE Handler
  BY <1>7 DEF Handler, results
<1>8. CASE Peripheral
  BY <1>8 DEF Peripheral, results
<1> QED
  BY <1>1, <1>2, <1>3, <1>4, <1>5, <1>6, <1>7, <1>8 DEF Next, Foreground

\* Until the sketch opens the port again, whatever it writes, reads, flushes and
\* ends and whatever the interrupt and the line do in between: the bytes on the
\* wire, in the two registers and in the ring are exactly the bytes write
\* accepted, in order.
THEOREM TransmitCorrect == Spec => []NothingLost
<1> DEFINE Inv == TypeOK /\ (~ reopened => TxInv)
<1>1. Init => Inv
  BY TxInit, InitType
<1>2. Inv /\ [Next]_vars => Inv'
  BY NextType, ReopenedStays, TxNext
<1>3. Inv => NothingLost
  BY TxInvNothingLost DEF NothingLost
<1> QED
  BY <1>1, <1>2, <1>3, PTL DEF Spec

-----------------------------------------------------------------------------
\* What a second begin leaves is still in order.  The bytes it discards make
\* gaps, so that nothing can be counted any more; but the ring holds the newest
\* accepted bytes without a gap, and what left it is older and grows.

\* The newest byte that left the ring, or any after it that was discarded.
Newest == accepted - tx.size

\* The bytes on wire w and in the registers s and t grow, up to top at most.
Rising(w, s, t, top) ==
  /\ \A i, j \in 1 .. Len(w) : i < j => w[i] < w[j]
  /\ \A i \in 1 .. Len(w) : /\ w[i] <= top
                            /\ s # NoByte => w[i] < s
                            /\ t # NoByte => w[i] < t
  /\ s # NoByte => s <= top /\ (t # NoByte => s < t)
  /\ t # NoByte => t <= top

RingNewest == \A i \in Index : i < tx.size => tx.buf[Ahead(tx.head, i)] = Newest + 1 + i

\* The pointers of the ring are apart while flush or begin resets them.
PointersMeet ==
  /\ tx.size <= Slots
  /\ pc \notin {"w_count", "f_txtail", "b_txhead", "b_txtail"} => tx.tail = Ahead(tx.head, tx.size)
  /\ pc = "w_count" => tx.tail = Ahead(tx.head, tx.size + 1)
  /\ pc \in {"f_txtail", "b_txtail"} => tx.head = 0

\* What the foreground found out, or did, and the handler cannot undo.
Settled ==
  /\ pc \in {"w_append", "w_store", "w_advance", "w_count"} => tx.size < Slots
  /\ pc \in {"w_ready", "w_direct", "f_txhead", "f_txtail", "b_txhead", "b_txtail"} => tx.size = 0

OrderInv ==
  /\ TypeOK
  /\ Rising(wire, shift, thr, Newest)
  /\ RingNewest
  /\ PointersMeet
  /\ StoredByte
  /\ Settled

\* The peripheral's moves and what the driver does to its registers.
LEMMA RisingLoaded ==
  ASSUME NEW w \in Seq(Nat), NEW t \in Nat, NEW n \in Int, t # NoByte, Rising(w, NoByte, t, n)
  PROVE  Rising(w, t, NoByte, n)
BY DEF Rising

LEMMA RisingShifted ==
  ASSUME NEW w \in Seq(Nat), NEW s \in Nat, NEW t \in Nat, NEW n \in Int, s # NoByte,
         Rising(w, s, t, n)
  PROVE  Rising(Append(w, s), NoByte, t, n)
<1>1. Len(w) \in Nat
  BY LenProperties
<1> PICK v : v = Append(w, s)
  OBVIOUS
<1>2. /\ Len(v) = Len(w) + 1 /\ v[Len(w) + 1] = s
      /\ \A k \in 1 .. Len(w) : v[k] = w[k]
  BY AppendProperties
<1>3. \A k \in 1 .. Len(w) : w[k] \in Nat
  BY ElementOfSeq
<1>4. \A k \in 1 .. Len(w) + 1 : k \in 1 .. Len(w) \/ k = Len(w) + 1
  BY <1>1
<1>5. \A i, j \in 1 .. Len(v) : i < j => v[i] < v[j]
  <2> SUFFICES ASSUME NEW i \in 1 .. Len(w) + 1, NEW j \in 1 .. Len(w) + 1, i < j
               PROVE  v[i] < v[j]
    BY <1>2
  <2>1. i \in 1 .. Len(w)
    BY <1>1
  <2>2. CASE j \in 1 .. Len(w)
    BY <1>2, <2>1, <2>2 DEF Rising
  <2>3. CASE j = Len(w) + 1
    BY <1>2, <2>1, <2>3 DEF Rising
  <2> QED
    BY <1>4, <2>2, <2>3
<1>6. \A i \in 1 .. Len(v) : v[i] <= n /\ (t # NoByte => v[i] < t)
  <2> SUFFICES ASSUME NEW i \in 1 .. Len(w) + 1
               PROVE  v[i] <= n /\ (t # NoByte => v[i] < t)
    BY <1>2
  <2>1. CASE i \in 1 .. Len(w)
    BY <1>2, <2>1 DEF Rising
  <2>2. CASE i = Len(w) + 1
    BY <1>2, <2>2 DEF Rising
  <2> QED
    BY <1>4, <2>1, <2>2
<1>7. t # NoByte => t <= n
  BY DEF Rising
<1>8. Rising(v, NoByte, t, n)
  BY <1>5, <1>6, <1>7 DEF Rising
<1> QED
  BY <1>8

LEMMA RisingTakes ==
  ASSUME NEW w \in Seq(Nat), NEW s \in Nat, NEW n \in Int, NEW b \in Nat, n < b,
         Rising(w, s, NoByte, n)
  PROVE  Rising(w, s, b, b)
<1>1. \A k \in 1 .. Len(w) : w[k] \in Nat
  BY ElementOfSeq
<1> QED
  BY <1>1 DEF Rising

LEMMA RisingBelow ==
  ASSUME NEW w \in Seq(Nat), NEW s \in Nat, NEW t \in Nat, NEW n \in Int, NEW m \in Int, n <= m,
         Rising(w, s, t, n)
  PROVE  Rising(w, s, t, m) /\ Rising(w, NoByte, NoByte, m)
<1>1. \A k \in 1 .. Len(w) : w[k] \in Nat
  BY ElementOfSeq
<1> QED
  BY <1>1 DEF Rising

LEMMA OrderTypes ==
  ASSUME TypeOK
  PROVE  /\ wire \in Seq(Nat) /\ shift \in Nat /\ thr \in Nat /\ accepted \in Nat
         /\ tx \in Ring /\ tx.size \in Nat /\ tx.head \in Index /\ tx.tail \in Index
         /\ tx.buf \in [Index -> Nat] /\ Newest \in Int
<1>1. tx.size \in Nat /\ tx.head \in Index /\ tx.tail \in Index /\ tx.buf \in [Index -> Nat]
  BY RingAssumption DEF TypeOK, Ring
<1> QED
  BY <1>1 DEF TypeOK, PeripheralTypeOK, Newest

\* A step that leaves the bytes where they are.
LEMMA OrderStays ==
  ASSUME OrderInv, tx' = tx, accepted' = accepted, thr' = thr, shift' = shift, wire' = wire
  PROVE  Rising(wire, shift, thr, Newest)' /\ RingNewest'
BY DEF OrderInv, Rising, RingNewest, Newest

LEMMA OrderInit == Init => OrderInv
<1> SUFFICES ASSUME Init PROVE OrderInv
  OBVIOUS
<1>1. TypeOK
  BY InitType
<1>2. /\ wire = <<>> /\ Len(wire) = 0 /\ thr = NoByte /\ shift = NoByte
      /\ tx.size = 0 /\ tx.head = 0 /\ tx.tail = 0 /\ accepted = 0 /\ pc = "b_rxsize"
  BY DEF Init, PeripheralInit, EmptyRing
<1>3. Rising(wire, shift, thr, Newest) /\ RingNewest
  BY <1>2 DEF Rising, RingNewest, Index
<1>4. PointersMeet
  BY <1>2, RingAssumption DEF PointersMeet, Ahead
<1>5. StoredByte /\ Settled
  BY <1>2 DEF StoredByte, Settled
<1> QED
  BY <1>1, <1>3, <1>4, <1>5 DEF OrderInv

\* Steps of the foreground that only look, or that work on the rx ring.
LEMMA OrderLook ==
  ASSUME OrderInv,
         \/ Call \/ ReadStep
         \/ WriteTestSize \/ WriteTestReady \/ WriteWait \/ WriteEnable
         \/ FlushWait \/ FlushRxHead \/ FlushRxTail \/ FlushRxSize
         \/ BeginRxSize \/ BeginRxHead \/ BeginRxTail \/ BeginEnable
  PROVE  OrderInv'
<1> USE DEF Call, CallWrite, CallRead, CallPeek, CallFlush, CallBegin,
            ReadStep, ReadTest, ReadLoad, ReadAdvance, ReadCount, PeekTest, PeekLoad,
            WriteTestSize, WriteTestReady, WriteWait, WriteEnable,
            FlushWait, FlushRxHead, FlushRxTail, FlushRxSize,
            BeginRxSize, BeginRxHead, BeginRxTail, BeginEnable,
            rings, results, registers
<1>1. tx' = tx /\ accepted' = accepted /\ thr' = thr /\ shift' = shift /\ wire' = wire
  OBVIOUS
<1>2. TypeOK'
  BY NextType DEF OrderInv, Next, Foreground, WriteStep, FlushStep, BeginStep
<1>3. Rising(wire, shift, thr, Newest)' /\ RingNewest'
  BY <1>1, OrderStays
<1>4. PointersMeet'
  BY <1>1 DEF OrderInv, PointersMeet, Goto
<1>5. StoredByte'
  BY <1>1 DEF OrderInv, StoredByte, Goto
<1>6. Settled'
  BY <1>1, RingAssumption, UsartAssumption DEF OrderInv, TypeOK, Ring, PointersMeet, Settled, Goto
<1> QED
  BY <1>2, <1>3, <1>4, <1>5, <1>6 DEF OrderInv

\* The direct way: the ring is empty, so whatever left it is older.
LEMMA OrderDirect ==
  ASSUME OrderInv, WriteDirect
  PROVE  OrderInv'
<1>1. /\ pc = "w_direct" /\ pc' = "idle" /\ tx' = tx /\ shift' = shift /\ wire' = wire
      /\ tx.size = 0 /\ thr' = (IF TXRDY THEN accepted + 1 ELSE thr)
      /\ accepted' = accepted + 1
  BY DEF OrderInv, Settled, WriteDirect, Transmit, Goto, rings
<1>2. TypeOK'
  BY NextType DEF OrderInv, Next, Foreground, WriteStep
<1>3. Newest = accepted /\ Newest' = accepted + 1 /\ accepted \in Nat
  BY <1>1 DEF Newest, OrderInv, TypeOK
<1>4. Rising(wire, shift, thr, Newest)'
  <2>1. wire \in Seq(Nat) /\ shift \in Nat /\ thr \in Nat /\ Rising(wire, shift, thr, accepted)
    BY <1>3, OrderTypes DEF OrderInv
  <2>2. Rising(wire, shift, thr', accepted + 1)
    <3>1. CASE TXRDY
      <4>1. thr = NoByte /\ thr' = accepted + 1
        BY <1>1, <3>1 DEF TXRDY
      <4>2. accepted + 1 \in Nat /\ accepted < accepted + 1 /\ accepted \in Int
        BY <1>3
      <4> QED
        BY ONLY <2>1, <4>1, <4>2, RisingTakes
    <3>2. CASE ~ TXRDY
      <4>1. thr' = thr
        BY <1>1, <3>2
      <4>2. accepted \in Int /\ accepted + 1 \in Int /\ accepted <= accepted + 1
        BY <1>3
      <4> QED
        BY ONLY <2>1, <4>1, <4>2, RisingBelow
    <3> QED
      BY <3>1, <3>2
  <2> QED
    BY <1>1, <1>3, <2>2
<1>5. RingNewest' /\ PointersMeet' /\ StoredByte' /\ Settled'
  BY <1>1 DEF OrderInv, RingNewest, PointersMeet, StoredByte, Settled, Index
<1> QED
  BY <1>2, <1>4, <1>5 DEF OrderInv

\* tx_buffer_append: store, advance, count.
LEMMA OrderAppend ==
  ASSUME OrderInv, WriteAppend
  PROVE  OrderInv'
<1>1. HasRoom(tx)
  BY UsartAssumption, RingAssumption
     DEF OrderInv, TypeOK, Ring, Settled, HasRoom, WriteAppend, Goto
<1>2. /\ pc = "w_append" /\ pc' = "w_store" /\ tx' = tx /\ accepted' = accepted
      /\ thr' = thr /\ shift' = shift /\ wire' = wire
  BY <1>1 DEF WriteAppend, Goto, rings, registers
<1>3. TypeOK'
  BY NextType DEF OrderInv, Next, Foreground, WriteStep
<1>4. Rising(wire, shift, thr, Newest)' /\ RingNewest'
  BY <1>2, OrderStays
<1>5. PointersMeet' /\ StoredByte' /\ Settled'
  BY <1>2 DEF OrderInv, PointersMeet, StoredByte, Settled
<1> QED
  BY <1>3, <1>4, <1>5 DEF OrderInv

LEMMA OrderStore ==
  ASSUME OrderInv, WriteStore
  PROVE  OrderInv'
<1>1. /\ pc = "w_store" /\ pc' = "w_advance" /\ accepted' = accepted
      /\ thr' = thr /\ shift' = shift /\ wire' = wire
      /\ tx'.head = tx.head /\ tx'.tail = tx.tail /\ tx'.size = tx.size
      /\ tx'.buf = [tx.buf EXCEPT ![tx.tail] = accepted + 1]
  BY DEF WriteStore, Goto, Store, results, registers, OrderInv, TypeOK, Ring
<1>2. TypeOK'
  BY NextType DEF OrderInv, Next, Foreground, WriteStep
<1>3. tx.tail = Ahead(tx.head, tx.size) /\ tx.size < Slots
  BY <1>1 DEF OrderInv, PointersMeet, Settled
<1>4. Newest' = Newest /\ Rising(wire, shift, thr, Newest)'
  BY <1>1 DEF OrderInv, Rising, Newest
<1>5. RingNewest'
  <2> SUFFICES ASSUME NEW i \in Index, i < tx.size
               PROVE  tx'.buf[Ahead(tx.head, i)] = Newest + 1 + i
    BY <1>1, <1>4 DEF RingNewest
  <2>1. tx.head \in Index /\ tx.size \in Nat
    BY OrderTypes DEF OrderInv
  <2>2. tx.size \in Index /\ i \in 0 .. Slots /\ i # tx.size
    BY <1>3, <2>1, RingAssumption DEF Index
  <2>3. Ahead(tx.head, i) # tx.tail /\ Ahead(tx.head, i) \in Index
    BY <1>3, <2>1, <2>2, AheadDistinct, AheadType, Zenon
  <2> QED
    BY <1>1, <2>3 DEF OrderInv, RingNewest, TypeOK, Ring
<1>6. StoredByte'
  BY <1>1 DEF OrderInv, TypeOK, Ring, StoredByte
<1>7. PointersMeet' /\ Settled'
  BY <1>1, <1>3 DEF OrderInv, PointersMeet, Settled
<1> QED
  BY <1>2, <1>4, <1>5, <1>6, <1>7 DEF OrderInv

LEMMA OrderAdvance ==
  ASSUME OrderInv, WriteAdvance
  PROVE  OrderInv'
<1>1. /\ pc = "w_advance" /\ pc' = "w_count" /\ accepted' = accepted
      /\ thr' = thr /\ shift' = shift /\ wire' = wire
      /\ tx'.head = tx.head /\ tx'.tail = Advance(tx.tail) /\ tx'.size = tx.size
      /\ tx'.buf = tx.buf
  BY DEF WriteAdvance, Goto, AdvanceTail, results, registers, OrderInv, TypeOK, Ring
<1>2. TypeOK'
  BY NextType DEF OrderInv, Next, Foreground, WriteStep
<1>3. tx.tail = Ahead(tx.head, tx.size) /\ tx.size < Slots
  BY <1>1 DEF OrderInv, PointersMeet, Settled
<1>4. Rising(wire, shift, thr, Newest)' /\ RingNewest'
  BY <1>1 DEF OrderInv, Rising, RingNewest, Newest
<1>5. Advance(tx.tail) = Ahead(tx.head, tx.size + 1)
  BY <1>3, AheadAdvance, RingAssumption DEF OrderInv, TypeOK, Ring, Index
<1>6. PointersMeet' /\ StoredByte' /\ Settled'
  BY <1>1, <1>3, <1>5 DEF OrderInv, PointersMeet, StoredByte, Settled
<1> QED
  BY <1>2, <1>4, <1>6 DEF OrderInv

LEMMA OrderCount ==
  ASSUME OrderInv, WriteCount
  PROVE  OrderInv'
<1>1. tx.size < Slots /\ tx.size + 1 # CountMod /\ tx.size \in Nat /\ accepted \in Nat
  BY UsartAssumption, RingAssumption DEF OrderInv, TypeOK, Ring, Settled, WriteCount, Goto
<1>2. /\ pc = "w_count" /\ pc' = "w_enable" /\ accepted' = accepted + 1
      /\ thr' = thr /\ shift' = shift /\ wire' = wire
      /\ tx'.head = tx.head /\ tx'.tail = tx.tail /\ tx'.size = tx.size + 1
      /\ tx'.buf = tx.buf
  BY <1>1 DEF WriteCount, Goto, CountUp, registers, OrderInv, TypeOK, Ring
<1>3. TypeOK'
  BY NextType DEF OrderInv, Next, Foreground, WriteStep
<1>4. Newest' = Newest /\ Newest = accepted - tx.size
  BY <1>1, <1>2 DEF Newest
<1>5. Rising(wire, shift, thr, Newest)'
  BY <1>2, <1>4 DEF OrderInv
<1>6. RingNewest'
  <2> SUFFICES ASSUME NEW i \in Index, i < tx.size + 1
               PROVE  tx.buf[Ahead(tx.head, i)] = Newest + 1 + i
    BY <1>2, <1>4 DEF RingNewest
  <2>1. CASE i < tx.size
    BY <2>1 DEF OrderInv, RingNewest
  <2>2. CASE i = tx.size
    BY <1>1, <1>2, <1>4, <2>2 DEF OrderInv, StoredByte, Index
  <2> QED
    BY <1>1, <2>1, <2>2 DEF Index
<1>7. PointersMeet' /\ StoredByte' /\ Settled'
  BY <1>1, <1>2, RingAssumption DEF OrderInv, PointersMeet, StoredByte, Settled
<1> QED
  BY <1>3, <1>5, <1>6, <1>7 DEF OrderInv

\* begin forgets what is in the ring: the next byte is newer than all of it.
LEMMA OrderForget ==
  ASSUME OrderInv, BeginTxSize
  PROVE  OrderInv'
<1>1. /\ pc = "b_txsize" /\ pc' = "b_txhead" /\ tx'.size = 0 /\ accepted' = accepted
      /\ thr' = thr /\ shift' = shift /\ wire' = wire
  BY DEF BeginTxSize, Goto, results, registers, OrderInv, TypeOK, Ring
<1>2. TypeOK'
  BY NextType DEF OrderInv, Next, Foreground, BeginStep
<1>3. Newest' = accepted /\ Newest \in Int /\ Newest <= accepted /\ accepted \in Int
  BY <1>1, OrderTypes DEF OrderInv, Newest
<1>4. Rising(wire, shift, thr, Newest)'
  <2>1. /\ wire \in Seq(Nat) /\ shift \in Nat /\ thr \in Nat
        /\ Rising(wire, shift, thr, Newest)
    BY OrderTypes DEF OrderInv
  <2> PICK n : n = Newest
    OBVIOUS
  <2>2. Rising(wire, shift, thr, accepted)
    BY <1>3, <2>1, RisingBelow
  <2> QED
    BY <1>1, <1>3, <2>2
<1>5. RingNewest' /\ PointersMeet' /\ StoredByte' /\ Settled'
  BY <1>1, RingAssumption DEF RingNewest, PointersMeet, StoredByte, Settled, Index
<1> QED
  BY <1>2, <1>4, <1>5 DEF OrderInv

\* Resetting the pointers of an empty ring.
LEMMA OrderReset ==
  ASSUME OrderInv, FlushTxHead \/ FlushTxTail \/ BeginTxHead \/ BeginTxTail
  PROVE  OrderInv'
<1> USE DEF FlushTxHead, FlushTxTail, BeginTxHead, BeginTxTail, results, registers
<1>1. /\ tx.size = 0 /\ tx'.size = 0 /\ accepted' = accepted /\ thr' = thr /\ shift' = shift
      /\ wire' = wire
  BY DEF OrderInv, TypeOK, Ring, Settled, Goto
<1>2. TypeOK'
  BY NextType DEF OrderInv, Next, Foreground, FlushStep, BeginStep
<1>3. Rising(wire, shift, thr, Newest)'
  BY <1>1 DEF OrderInv, Rising, Newest
<1>4. RingNewest'
  BY <1>1 DEF RingNewest, Index
<1>5. PointersMeet'
  <2>1. pc' \in {"f_txtail", "b_txtail"} => tx'.head = 0
    BY DEF OrderInv, TypeOK, Ring, Goto
  <2>2. pc' \notin {"f_txtail", "b_txtail"} => tx'.head = 0 /\ tx'.tail = 0 /\ pc' # "w_count"
    BY DEF OrderInv, PointersMeet, TypeOK, Ring, Goto
  <2>3. Ahead(0, 0) = 0
    BY RingAssumption DEF Ahead
  <2>4. pc' # "w_count"
    BY DEF Goto
  <2> QED
    BY <1>1, <2>1, <2>2, <2>3, <2>4, RingAssumption DEF PointersMeet
<1>6. StoredByte' /\ Settled'
  BY <1>1 DEF StoredByte, Settled, Goto
<1> QED
  BY <1>2, <1>3, <1>4, <1>5, <1>6 DEF OrderInv

\* begin discards what is in the registers.
LEMMA OrderRestart ==
  ASSUME OrderInv, BeginPeripheral
  PROVE  OrderInv'
<1>1. /\ pc = "b_init" /\ pc' = "b_irq" /\ tx' = tx /\ accepted' = accepted
      /\ wire' = wire /\ thr' = NoByte /\ shift' = NoByte
  BY DEF BeginPeripheral, Restart, Goto, rings, results
<1>2. TypeOK'
  BY NextType DEF OrderInv, Next, Foreground, BeginStep
<1>3. Newest' = Newest /\ Newest \in Int /\ Newest <= Newest
  BY <1>1, OrderTypes DEF OrderInv, Newest
<1>4. Rising(wire, shift, thr, Newest)'
  <2>1. Rising(wire, NoByte, NoByte, Newest)
    BY <1>3, OrderTypes, RisingBelow DEF OrderInv
  <2> QED
    BY <1>1, <1>3, <2>1
<1>5. RingNewest'
  BY <1>1, <1>3 DEF OrderInv, RingNewest
<1>6. PointersMeet' /\ StoredByte' /\ Settled'
  BY <1>1 DEF OrderInv, PointersMeet, StoredByte, Settled
<1> QED
  BY <1>2, <1>4, <1>5, <1>6 DEF OrderInv

LEMMA OrderPeripheral ==
  ASSUME OrderInv, Peripheral
  PROVE  OrderInv'
<1>1. TypeOK'
  BY NextType DEF OrderInv, Next
<1>2. tx' = tx /\ pc' = pc /\ accepted' = accepted
  BY DEF Peripheral, rings, results
<1>3. wire \in Seq(Nat) /\ shift \in Nat /\ thr \in Nat /\ Newest \in Int /\ Newest' = Newest
  BY <1>2, OrderTypes DEF OrderInv, Newest
<1>4. Rising(wire, shift, thr, Newest)
  BY DEF OrderInv
<1>5. Rising(wire', shift', thr', Newest)
  <2>1. CASE LoadShift
    <3>1. wire' = wire /\ thr # NoByte /\ shift = NoByte /\ shift' = thr /\ thr' = NoByte
      BY <2>1 DEF LoadShift
    <3> QED
      BY <1>3, <1>4, <3>1, RisingLoaded
  <2>2. CASE ShiftOut
    <3>1. shift # NoByte /\ wire' = Append(wire, shift) /\ shift' = NoByte /\ thr' = thr
      BY <2>2 DEF ShiftOut
    <3> QED
      BY <1>3, <1>4, <3>1, RisingShifted
  <2>3. CASE Receive
    BY <1>4, <2>3 DEF Receive
  <2> QED
    BY <2>1, <2>2, <2>3 DEF Peripheral
<1>6. RingNewest' /\ PointersMeet' /\ StoredByte' /\ Settled'
  BY <1>2, <1>3 DEF OrderInv, RingNewest, PointersMeet, StoredByte, Settled
<1> QED
  BY <1>1, <1>3, <1>5, <1>6 DEF OrderInv

\* The handler: either the tx part leaves everything, or it moves the byte at
\* the head into the empty holding register.
LEMMA OrderHandler ==
  ASSUME OrderInv, Handler
  PROVE  OrderInv'
<1> USE DEF Handler, results
<1>1. TypeOK'
  BY NextType DEF OrderInv, Next
<1>2. pc' = pc /\ accepted' = accepted /\ shift' = shift /\ wire' = wire
  OBVIOUS
<1>3. \/ tx' = tx /\ thr' = thr
      \/ TXRDY /\ tx.size > 0 /\ thr' = First(tx) /\ tx' = Removed(tx)
  <2>1. tx.size \in Nat
    BY OrderTypes DEF OrderInv
  <2> QED
    BY <2>1 DEF TxEmptyCallback, Transmit
<1>4. CASE tx' = tx /\ thr' = thr
  <2>1. Rising(wire, shift, thr, Newest)' /\ RingNewest'
    BY <1>2, <1>4, OrderStays
  <2>2. PointersMeet' /\ StoredByte' /\ Settled'
    BY <1>2, <1>4 DEF OrderInv, PointersMeet, StoredByte, Settled
  <2> QED
    BY <1>1, <2>1, <2>2 DEF OrderInv
<1>5. CASE TXRDY /\ tx.size > 0 /\ thr' = First(tx) /\ tx' = Removed(tx)
  <2>1. /\ tx.head \in Index /\ tx.tail \in Index /\ tx.size \in 1 .. Slots
        /\ tx.buf \in [Index -> Nat] /\ tx.size - 1 \in Index /\ accepted \in Nat
    <3>1. TypeOK /\ tx.size <= Slots
      BY DEF OrderInv, PointersMeet
    <3>2. /\ tx.head \in Index /\ tx.tail \in Index /\ tx.size \in Nat
          /\ tx.buf \in [Index -> Nat] /\ accepted \in Nat
      BY <3>1, OrderTypes
    <3>3. tx.size \in 1 .. Slots /\ tx.size - 1 \in Index
      BY <1>5, <3>1, <3>2, RingAssumption DEF Index
    <3> QED
      BY <3>2, <3>3
  <2>2. /\ tx'.head = Advance(tx.head) /\ tx'.tail = tx.tail /\ tx'.size = tx.size - 1
        /\ tx'.buf = tx.buf
    BY <1>5, <2>1 DEF Removed, CountDown, AdvanceHead, OrderInv, TypeOK, Ring
  <2>3. Newest' = Newest + 1 /\ Newest \in Int
    BY <1>2, <2>1, <2>2 DEF Newest
  <2>4. thr' = Newest + 1 /\ thr' \in Nat
    <3>1. Ahead(tx.head, 0) = tx.head /\ tx.buf[tx.head] \in Nat
      BY <2>1, AheadZero
    <3>2. 0 \in Index /\ 0 < tx.size
      BY <2>1, RingAssumption DEF Index
    <3> QED
      BY <1>5, <2>3, <3>1, <3>2 DEF OrderInv, RingNewest, First
  <2>5. Rising(wire, shift, thr, Newest)'
    <3>1. /\ wire \in Seq(Nat) /\ shift \in Nat /\ thr = NoByte
          /\ Rising(wire, shift, thr, Newest)
      BY <1>5, OrderTypes DEF OrderInv, TXRDY
    <3>2. thr' \in Nat /\ Newest \in Int /\ Newest < thr'
      BY <2>3, <2>4
    <3>3. Rising(wire, shift, thr', thr')
      BY <3>1, <3>2, RisingTakes
    <3> QED
      BY <1>2, <2>3, <2>4, <3>3
  <2>6. RingNewest'
    <3> SUFFICES ASSUME NEW i \in Index, i < tx.size - 1
                 PROVE  tx.buf[Ahead(Advance(tx.head), i)] = Newest + 2 + i
      BY <2>2, <2>3 DEF RingNewest, Index
    <3>1. Ahead(Advance(tx.head), i) = Ahead(tx.head, i + 1)
      BY <2>1, AheadAdvance
    <3>2. i + 1 \in Index /\ i + 1 < tx.size /\ i \in Nat
      BY <2>1, RingAssumption DEF Index
    <3>3. tx.buf[Ahead(tx.head, i + 1)] = Newest + 1 + (i + 1)
      BY <3>2 DEF OrderInv, RingNewest
    <3> QED
      BY <2>3, <3>1, <3>2, <3>3
  <2>7. Ahead(Advance(tx.head), tx.size - 1) = Ahead(tx.head, tx.size)
    BY <2>1, AheadAdvance
  <2>8. pc = "w_count" => /\ tx.tail = Ahead(tx.head, tx.size + 1) /\ tx.size \in Index
                          /\ tx.buf[Ahead(tx.head, tx.size)] = accepted + 1
                          /\ Ahead(Advance(tx.head), tx.size) = Ahead(tx.head, tx.size + 1)
    <3> SUFFICES ASSUME pc = "w_count"
                 PROVE  /\ tx.tail = Ahead(tx.head, tx.size + 1) /\ tx.size \in Index
                        /\ tx.buf[Ahead(tx.head, tx.size)] = accepted + 1
                        /\ Ahead(Advance(tx.head), tx.size) = Ahead(tx.head, tx.size + 1)
      OBVIOUS
    <3>1. tx.size < Slots
      BY DEF OrderInv, Settled
    <3>2. tx.size \in Index
      BY <2>1, <3>1, RingAssumption DEF Index
    <3>3. Ahead(Advance(tx.head), tx.size) = Ahead(tx.head, tx.size + 1)
      BY <2>1, <3>2, AheadAdvance
    <3> QED
      BY <3>2, <3>3 DEF OrderInv, PointersMeet, StoredByte
  <2>9. pc \notin {"w_ready", "w_direct", "f_txhead", "f_txtail", "b_txhead", "b_txtail"}
    <3>1. tx.size # 0
      BY <2>1
    <3> QED
      BY <3>1 DEF OrderInv, Settled
  <2>10. PointersMeet'
    <3>1. tx'.size <= Slots /\ tx'.size + 1 = tx.size
      BY <2>1, <2>2, RingAssumption
    <3>2. pc' # "w_count" => tx'.tail = Ahead(tx'.head, tx'.size)
      BY <1>2, <2>2, <2>7, <2>9 DEF OrderInv, PointersMeet
    <3>3. pc' = "w_count" => tx'.tail = Ahead(tx'.head, tx'.size + 1)
      BY <1>2, <2>2, <2>8, <3>1, Zenon
    <3> QED
      BY <1>2, <2>9, <3>1, <3>2, <3>3 DEF PointersMeet
  <2>11. StoredByte'
    BY <1>2, <2>2, <2>7, <2>8 DEF OrderInv, StoredByte
  <2>12. Settled'
    <3>1. tx'.size < Slots
      BY <2>1, <2>2, RingAssumption
    <3> QED
      BY <1>2, <2>9, <3>1 DEF Settled
  <2> QED
    BY <1>1, <2>5, <2>6, <2>10, <2>11, <2>12 DEF OrderInv
<1> QED
  BY <1>3, <1>4, <1>5

LEMMA OrderNext ==
  ASSUME OrderInv, [Next]_vars
  PROVE  OrderInv'
<1>1. CASE UNCHANGED vars
  <2>1. /\ tx' = tx /\ accepted' = accepted /\ thr' = thr /\ shift' = shift /\ wire' = wire
        /\ pc' = pc
    BY <1>1 DEF vars, rings, results, registers
  <2>2. Rising(wire, shift, thr, Newest)' /\ RingNewest'
    BY <2>1, OrderStays
  <2>3. TypeOK'
    BY <1>1, NextType DEF OrderInv
  <2> QED
    BY <2>1, <2>2, <2>3 DEF OrderInv, PointersMeet, StoredByte, Settled
<1>2. CASE WriteStep
  BY <1>2, OrderLook, OrderDirect, OrderAppend, OrderStore, OrderAdvance, OrderCount DEF WriteStep
<1>3. CASE FlushStep
  BY <1>3, OrderLook, OrderReset DEF FlushStep
<1>4. CASE BeginStep
  BY <1>4, OrderLook, OrderForget, OrderReset, OrderRestart DEF BeginStep
<1> QED
  BY <1>1, <1>2, <1>3, <1>4, OrderLook, OrderHandler, OrderPeripheral DEF Next, Foreground

\* Putting sequences that grow one after another.
Grows(s) == \A i, j \in 1 .. Len(s) : i < j => s[i] < s[j]

Precedes(s, t) == \A i \in 1 .. Len(s), j \in 1 .. Len(t) : s[i] < t[j]

LEMMA GrowsOn ==
  ASSUME NEW s \in Seq(Nat), NEW t \in Seq(Nat), Grows(s), Grows(t), Precedes(s, t)
  PROVE  /\ s \o t \in Seq(Nat) /\ Grows(s \o t)
         /\ \A u : Precedes(s, u) /\ Precedes(t, u) => Precedes(s \o t, u)
<1> PICK v : v = s \o t
  OBVIOUS
<1>1. Len(s) \in Nat /\ Len(t) \in Nat
  BY LenProperties
<1>2. /\ v \in Seq(Nat) /\ Len(v) = Len(s) + Len(t)
      /\ \A k \in 1 .. Len(s) + Len(t) : v[k] = IF k <= Len(s) THEN s[k] ELSE t[k - Len(s)]
  BY ConcatProperties
<1>3. \A k \in 1 .. Len(s) + Len(t) : \/ k \in 1 .. Len(s) /\ v[k] = s[k]
                                      \/ /\ k > Len(s) /\ k - Len(s) \in 1 .. Len(t)
                                         /\ v[k] = t[k - Len(s)]
  BY <1>1, <1>2
<1>4. Grows(v)
  <2> SUFFICES ASSUME NEW i \in 1 .. Len(s) + Len(t), NEW j \in 1 .. Len(s) + Len(t), i < j
               PROVE  v[i] < v[j]
    BY <1>2 DEF Grows
  <2>1. CASE j \in 1 .. Len(s) /\ v[j] = s[j]
    <3>1. i \in 1 .. Len(s) /\ v[i] = s[i]
      BY <1>1, <1>3, <2>1
    <3> QED
      BY <2>1, <3>1 DEF Grows
  <2>2. CASE j > Len(s) /\ j - Len(s) \in 1 .. Len(t) /\ v[j] = t[j - Len(s)]
    <3>1. CASE i \in 1 .. Len(s) /\ v[i] = s[i]
      BY <2>2, <3>1 DEF Precedes
    <3>2. CASE i > Len(s) /\ i - Len(s) \in 1 .. Len(t) /\ v[i] = t[i - Len(s)]
      <4>1. i - Len(s) < j - Len(s)
        BY <1>1
      <4> QED
        BY <2>2, <3>2, <4>1 DEF Grows
    <3> QED
      BY <1>3, <3>1, <3>2
  <2> QED
    BY <1>3, <2>1, <2>2
<1>5. \A u : Precedes(s, u) /\ Precedes(t, u) => Precedes(v, u)
  <2> SUFFICES ASSUME NEW u, Precedes(s, u), Precedes(t, u), NEW i \in 1 .. Len(s) + Len(t),
                      NEW j \in 1 .. Len(u)
               PROVE  v[i] < u[j]
    BY <1>2 DEF Precedes
  <2> QED
    BY <1>3 DEF Precedes
<1> QED
  BY <1>2, <1>4, <1>5

LEMMA GrowsInRegister ==
  ASSUME NEW r \in Nat
  PROVE  /\ Register(r) \in Seq(Nat) /\ Grows(Register(r))
         /\ \A i \in 1 .. Len(Register(r)) : i = 1 /\ r # NoByte /\ Register(r)[i] = r
<1>1. Len(Register(r)) = Held(r) /\ Register(r) \in Seq(Nat) /\ (r # NoByte => Register(r)[1] = r)
  BY RegisterSeq
<1>2. \A i \in 1 .. Held(r) : i = 1 /\ r # NoByte
  BY DEF Held
<1> QED
  BY <1>1, <1>2 DEF Grows

LEMMA OrderInvInOrder ==
  ASSUME OrderInv
  PROVE  WireInOrder
<1> PICK s : s = Register(shift)
  OBVIOUS
<1> PICK t : t = Register(thr)
  OBVIOUS
<1> PICK q : q = FromHead(tx)
  OBVIOUS
<1> PICK n : n = Newest
  OBVIOUS
<1>1. /\ wire \in Seq(Nat) /\ shift \in Nat /\ thr \in Nat /\ n \in Int
      /\ tx.size \in Nat /\ tx.size <= Slots /\ tx.head \in Index /\ tx.buf \in [Index -> Nat]
  BY OrderTypes DEF OrderInv, PointersMeet
<1>2. Rising(wire, shift, thr, n)
  BY DEF OrderInv
<1>3. /\ s \in Seq(Nat) /\ Grows(s)
      /\ \A i \in 1 .. Len(s) : shift # NoByte /\ s[i] = shift
  BY <1>1, GrowsInRegister
<1>4. /\ t \in Seq(Nat) /\ Grows(t)
      /\ \A i \in 1 .. Len(t) : thr # NoByte /\ t[i] = thr
  BY <1>1, GrowsInRegister
<1>5. \A i \in 1 .. tx.size : tx.buf[Ahead(tx.head, i - 1)] = n + i /\ n + i \in Nat
  <2> SUFFICES ASSUME NEW i \in 1 .. tx.size
               PROVE  tx.buf[Ahead(tx.head, i - 1)] = n + i /\ n + i \in Nat
    OBVIOUS
  <2>1. i - 1 \in Index /\ i - 1 < tx.size /\ i - 1 \in 0 .. Slots
    BY <1>1, RingAssumption DEF Index
  <2>2. tx.buf[Ahead(tx.head, i - 1)] = n + 1 + (i - 1)
    BY <2>1 DEF OrderInv, RingNewest
  <2>3. tx.buf[Ahead(tx.head, i - 1)] \in Nat
    BY <1>1, <2>1, AheadType
  <2> QED
    BY <1>1, <2>2, <2>3
<1>6. q \in Seq(Nat) /\ Len(q) = tx.size /\ \A i \in 1 .. tx.size : q[i] = n + i
  <2> PICK f : f = [i \in 1 .. tx.size |-> tx.buf[Ahead(tx.head, i - 1)]]
    OBVIOUS
  <2>1. f \in [1 .. tx.size -> Nat] /\ \A i \in 1 .. tx.size : f[i] = n + i
    BY <1>5
  <2>2. f \in Seq(Nat) /\ Len(f) = tx.size
    BY <1>1, <2>1, CountingSeq
  <2> QED
    BY <2>1, <2>2 DEF FromHead
<1>7. Grows(q)
  <2> SUFFICES ASSUME NEW i \in 1 .. Len(q), NEW j \in 1 .. Len(q), i < j
               PROVE  q[i] < q[j]
    BY DEF Grows
  <2>1. q[i] = n + i /\ q[j] = n + j
    BY <1>6
  <2> QED
    BY <1>1, <1>6, <2>1
<1>8. Grows(wire) /\ Precedes(wire, s) /\ Precedes(wire, t) /\ Precedes(s, t)
  <2>1. Grows(wire)
    BY <1>2 DEF Rising, Grows
  <2>2. Precedes(wire, s)
    <3> SUFFICES ASSUME NEW i \in 1 .. Len(wire), NEW j \in 1 .. Len(s) PROVE wire[i] < s[j]
      BY DEF Precedes
    <3> QED
      BY <1>2, <1>3 DEF Rising
  <2>3. Precedes(wire, t)
    <3> SUFFICES ASSUME NEW i \in 1 .. Len(wire), NEW j \in 1 .. Len(t) PROVE wire[i] < t[j]
      BY DEF Precedes
    <3> QED
      BY <1>2, <1>4 DEF Rising
  <2>4. Precedes(s, t)
    <3> SUFFICES ASSUME NEW i \in 1 .. Len(s), NEW j \in 1 .. Len(t) PROVE s[i] < t[j]
      BY DEF Precedes
    <3> QED
      BY <1>2, <1>3, <1>4 DEF Rising
  <2> QED
    BY <2>1, <2>2, <2>3, <2>4
<1>9. \A i \in 1 .. Len(q) : n < q[i] /\ q[i] \in Nat
  BY <1>1, <1>5, <1>6
<1>10. Precedes(wire, q) /\ Precedes(s, q) /\ Precedes(t, q)
  <2>1. \A i \in 1 .. Len(wire) : wire[i] \in Nat /\ wire[i] <= n
    BY <1>1, <1>2, ElementOfSeq DEF Rising
  <2>2. \A i \in 1 .. Len(s) : s[i] \in Nat /\ s[i] <= n
    BY <1>1, <1>2, <1>3 DEF Rising
  <2>3. \A i \in 1 .. Len(t) : t[i] \in Nat /\ t[i] <= n
    BY <1>1, <1>2, <1>4 DEF Rising
  <2>4. ASSUME NEW a, \A i \in 1 .. Len(a) : a[i] \in Nat /\ a[i] <= n
        PROVE  Precedes(a, q)
    <3> SUFFICES ASSUME NEW i \in 1 .. Len(a), NEW j \in 1 .. Len(q) PROVE a[i] < q[j]
      BY DEF Precedes
    <3> PICK x : x = a[i]
      OBVIOUS
    <3> PICK y : y = q[j]
      OBVIOUS
    <3>1. x \in Nat /\ x <= n
      BY <2>4
    <3>2. n < y /\ y \in Nat
      BY <1>9
    <3>3. x < y
      BY ONLY <1>1, <3>1, <3>2
    <3> QED
      BY <3>3
  <2> QED
    BY <2>1, <2>2, <2>3, <2>4
<1> PICK a : a = wire \o s
  OBVIOUS
<1>11. a \in Seq(Nat) /\ Grows(a) /\ Precedes(a, t) /\ Precedes(a, q)
  BY <1>1, <1>3, <1>8, <1>10, GrowsOn
<1> PICK b : b = a \o t
  OBVIOUS
<1>12. b \in Seq(Nat) /\ Grows(b) /\ Precedes(b, q)
  BY <1>4, <1>10, <1>11, GrowsOn
<1>13. Grows(b \o q)
  BY <1>6, <1>7, <1>12, GrowsOn
<1> QED
  BY <1>13 DEF WireInOrder, Outgoing, Grows

\* Whatever the sketch calls, begin in the middle of a transmission included:
\* what is on the wire and under way is in the order of the writes and nothing
\* is repeated, so that no stale cell of the ring is ever sent.
THEOREM SentInOrder == Spec => []WireInOrder
<1>1. Init => OrderInv
  BY OrderInit
<1>2. OrderInv /\ [Next]_vars => OrderInv'
  BY OrderNext
<1>3. OrderInv => WireInOrder
  BY OrderInvInOrder
<1> QED
  BY <1>1, <1>2, <1>3, PTL DEF Spec

-----------------------------------------------------------------------------
\* The receive side, as long as neither flush nor a second begin resets the rx
\* ring statement by statement under the interrupt.

NoReset == "flush" \notin Calls /\ "begin" \notin Calls

-----------------------------------------------------------------------------
\* The inductive invariant, stated slot by slot

\* The bytes in the ring: read has moved the head one step before it counts.
Waiting == IF pc = "r_count" THEN rx.size - 1 ELSE rx.size

RxByte(i) == rx.buf[Ahead(rx.head, i)]

RxPointers ==
  /\ rx.size <= Slots
  /\ pc \in {"r_advance", "r_count", "p_load"} => rx.size > 0
  /\ rx.tail = Ahead(rx.head, Waiting)

\* Bytes in the ring are newer than what was read and older than what the
\* interrupt still has to fetch.
RxOrder ==
  /\ \A i, j \in Index : i < j /\ j < Waiting => RxByte(i) < RxByte(j)
  /\ \A i \in Index : i < Waiting => got < RxByte(i) /\ RxByte(i) <= LastHandled
  /\ pc = "r_count" => \A i \in Index : i < Waiting => taken < RxByte(i)
  /\ got <= LastHandled
  /\ rhr = NoByte \/ rhr = arrived

\* What read fetched and what peek showed is the first byte.
RxFront ==
  /\ pc = "r_advance" => taken = RxByte(0)
  /\ pc = "r_count" => got < taken /\ taken <= LastHandled
  /\ peeked # NoByte /\ pc # "r_count" => rx.size > 0 /\ peeked = RxByte(0)
  /\ peeked # NoByte /\ pc = "r_count" => peeked = taken

\* setup() runs begin once, with both interrupts masked.
RxBegin ==
  /\ pc \in BeginSteps => rx.size = 0 /\ rx.head = 0 /\ rx.tail = 0 /\ ~rxIrq /\ ~txIrq
                          /\ peeked = NoByte
  /\ pc \notin FlushSteps

RxInv == TypeOK /\ RxPointers /\ RxOrder /\ RxFront /\ RxBegin

LEMMA RxInit == Init => RxInv
<1> SUFFICES ASSUME Init PROVE RxInv
  OBVIOUS
<1>1. TypeOK
  BY InitType
<1>2. /\ rx.size = 0 /\ rx.head = 0 /\ rx.tail = 0 /\ got = NoByte /\ peeked = NoByte
      /\ rhr = NoByte /\ arrived = 0 /\ ~rxIrq /\ ~txIrq /\ pc = "b_rxsize"
  BY DEF Init, PeripheralInit, EmptyRing
<1>3. RxPointers
  BY <1>2, RingAssumption DEF RxPointers, Waiting, Ahead
<1>4. RxOrder
  BY <1>2 DEF RxOrder, Waiting, LastHandled, RXRDY, NoByte, Index
<1>5. RxFront /\ RxBegin
  BY <1>2 DEF RxFront, RxBegin, FlushSteps
<1> QED
  BY <1>1, <1>3, <1>4, <1>5 DEF RxInv

LEMMA RxByteType ==
  ASSUME TypeOK, NEW i \in Index
  PROVE  Ahead(rx.head, i) \in Index /\ RxByte(i) \in Nat
<1>1. i \in 0 .. Slots /\ rx.head \in Index /\ rx.buf \in [Index -> Nat]
  <2>1. i \in 0 .. Slots
    BY RingAssumption DEF Index
  <2>2. rx \in Ring
    BY DEF TypeOK
  <2> QED
    BY <2>1, <2>2 DEF Ring
<1>2. Ahead(rx.head, i) \in Index
  BY <1>1, AheadType
<1> QED
  BY <1>1, <1>2 DEF RxByte

\* Types, and the first byte.
LEMMA RxFacts ==
  ASSUME RxInv
  PROVE  /\ rx \in Ring /\ rx.head \in Index /\ rx.size \in Nat /\ 0 \in Index
         /\ LastHandled \in Int /\ got \in Nat /\ taken \in Nat
         /\ First(rx) = RxByte(0) /\ First(rx) \in Nat
<1>1. rx \in Ring /\ rx.head \in Index /\ rx.size \in Nat /\ 0 \in Index
  <2>1. rx \in Ring
    BY DEF RxInv, TypeOK
  <2>2. 0 \in Index /\ CountMod \in Nat
    BY RingAssumption DEF Index
  <2>3. rx.head \in Index /\ rx.size \in 0 .. CountMod - 1
    BY <2>1 DEF Ring
  <2> QED
    BY <2>1, <2>2, <2>3
<1>2. LastHandled \in Int /\ got \in Nat /\ taken \in Nat
  BY DEF RxInv, TypeOK, PeripheralTypeOK, LastHandled
<1>3. First(rx) = RxByte(0)
  BY <1>1, AheadZero DEF First, RxByte
<1> QED
  BY <1>1, <1>2, <1>3, FirstType

\* A step that leaves ring and results alone and does not go back in time.
LEMMA RxSame ==
  ASSUME RxInv, TypeOK', UNCHANGED <<rx, got, taken, peeked>>,
         pc' = "r_count" <=> pc = "r_count",
         pc' = "r_advance" => pc = "r_advance", pc' = "p_load" => rx.size > 0 \/ pc = "p_load",
         pc' \notin FlushSteps, pc' \in BeginSteps => pc \in BeginSteps /\ ~rxIrq' /\ ~txIrq',
         LastHandled' >= LastHandled, rhr' = NoByte \/ rhr' = arrived'
  PROVE  RxInv'
<1>1. RxPointers'
  BY DEF RxInv, RxPointers, Waiting
<1>2. LastHandled \in Int /\ LastHandled' \in Int /\ got \in Nat /\ rx \in Ring
  BY DEF RxInv, TypeOK, PeripheralTypeOK, LastHandled
<1>3. \A i \in Index : RxByte(i) \in Nat
  BY RxByteType DEF RxInv
<1>4. Waiting' = Waiting /\ \A i \in Index : RxByte(i)' = RxByte(i)
  BY DEF Waiting, RxByte
<1>5. RxOrder'
  BY <1>2, <1>3, <1>4 DEF RxInv, RxOrder
<1>6. RxFront'
  <2>1. pc = "r_count" => got' < taken' /\ taken' <= LastHandled'
    BY <1>2, RxFacts DEF RxInv, RxFront
  <2>2. /\ pc' = "r_advance" => taken' = RxByte(0)'
        /\ peeked' # NoByte /\ pc' # "r_count" => rx'.size > 0 /\ peeked' = RxByte(0)'
        /\ peeked' # NoByte /\ pc' = "r_count" => peeked' = taken'
    BY DEF RxInv, RxFront, RxByte
  <2> QED
    BY <2>1, <2>2 DEF RxFront
<1>7. RxBegin'
  BY DEF RxInv, RxBegin
<1> QED
  BY <1>1, <1>5, <1>6, <1>7 DEF RxInv

-----------------------------------------------------------------------------
\* The foreground

LEMMA RxCall == ASSUME NoReset, RxInv, Call PROVE RxInv'
<1> USE DEF Call, CallWrite, CallRead, CallPeek, CallFlush, CallBegin, Goto,
            rings, results, registers
<1>1. UNCHANGED <<rx, got, taken, peeked, rhr, arrived, rxIrq, txIrq>>
  OBVIOUS
<1>2. pc = "idle" /\ pc' \in {"w_size", "r_test", "p_test"}
  BY DEF NoReset
<1>3. TypeOK'
  BY CallType DEF RxInv
<1>4. LastHandled' = LastHandled /\ LastHandled \in Int
  BY <1>1 DEF LastHandled, RXRDY, RxInv, TypeOK, PeripheralTypeOK
<1> QED
  BY <1>1, <1>2, <1>3, <1>4, RxSame DEF RxInv, RxOrder, FlushSteps, BeginSteps

LEMMA RxWrite == ASSUME RxInv, WriteStep PROVE RxInv'
<1> USE DEF WriteStep, WriteTestSize, WriteTestReady, WriteDirect, WriteWait, WriteAppend,
            WriteStore, WriteAdvance, WriteCount, WriteEnable, Goto, rings, results, registers
<1>1. UNCHANGED <<rx, got, taken, peeked, rhr, arrived>>
  OBVIOUS
<1>2. pc \in WriteSteps \cup {"w_size"} /\ pc' \in WriteSteps \cup {"idle"}
  BY DEF WriteSteps
<1>3. TypeOK'
  BY WriteType DEF RxInv
<1>4. LastHandled' = LastHandled /\ LastHandled \in Int
  BY <1>1 DEF LastHandled, RXRDY, RxInv, TypeOK, PeripheralTypeOK
<1> QED
  BY <1>1, <1>2, <1>3, <1>4, RxSame DEF RxInv, RxOrder, FlushSteps, BeginSteps, WriteSteps

LEMMA RxLook == ASSUME RxInv, ReadTest \/ PeekTest PROVE RxInv'
<1> USE DEF ReadTest, PeekTest, Goto, rings, results, registers
<1>1. UNCHANGED <<rx, got, taken, peeked, rhr, arrived>>
  OBVIOUS
<1>2. /\ pc \in {"r_test", "p_test"} /\ pc' \in {"idle", "r_load", "p_load"}
      /\ pc' = "p_load" => rx.size > 0
  BY RingAssumption DEF RxInv, TypeOK, Ring
<1>3. TypeOK'
  BY ReadType DEF RxInv, ReadStep
<1>4. LastHandled' = LastHandled /\ LastHandled \in Int
  BY <1>1 DEF LastHandled, RXRDY, RxInv, TypeOK, PeripheralTypeOK
<1> QED
  BY <1>1, <1>2, <1>3, <1>4, RxSame DEF RxInv, RxOrder, FlushSteps, BeginSteps

LEMMA RxLoad == ASSUME RxInv, ReadLoad PROVE RxInv'
<1> USE DEF ReadLoad, Goto, rings, results, registers
<1>1. UNCHANGED <<rx, got, peeked, rhr, arrived, rxIrq, txIrq>> /\ pc = "r_load"
  OBVIOUS
<1>2. /\ pc' \in {"r_advance", "idle"}
      /\ pc' = "r_advance" => rx.size > 0 /\ taken' = RxByte(0)
  BY RxFacts
<1>3. TypeOK'
  BY ReadType DEF RxInv, ReadStep
<1>4. LastHandled' = LastHandled /\ Waiting' = Waiting /\ \A i \in Index : RxByte(i)' = RxByte(i)
  BY <1>1, <1>2 DEF LastHandled, RXRDY, Waiting, RxByte
<1>5. RxPointers'
  BY <1>1, <1>2, <1>4 DEF RxInv, RxPointers
<1>6. RxOrder'
  BY <1>1, <1>2, <1>4 DEF RxInv, RxOrder
<1>7. RxFront' /\ RxBegin'
  BY <1>1, <1>2, <1>4, RxFacts DEF RxInv, RxFront, RxBegin, BeginSteps, FlushSteps, RxByte
<1> QED
  BY <1>3, <1>5, <1>6, <1>7 DEF RxInv

LEMMA RxPeek == ASSUME RxInv, PeekLoad PROVE RxInv'
<1> USE DEF PeekLoad, Goto, rings, results, registers
<1>1. /\ UNCHANGED <<rx, got, taken, rhr, arrived, rxIrq, txIrq>>
      /\ pc = "p_load" /\ pc' = "idle" /\ peeked' = RxByte(0)
  BY RxFacts
<1>2. TypeOK'
  BY ReadType DEF RxInv, ReadStep
<1>3. LastHandled' = LastHandled /\ Waiting' = Waiting /\ \A i \in Index : RxByte(i)' = RxByte(i)
  BY <1>1 DEF LastHandled, RXRDY, Waiting, RxByte
<1>4. RxPointers' /\ rx.size > 0
  BY <1>1, <1>3 DEF RxInv, RxPointers
<1>5. RxOrder'
  BY <1>1, <1>3 DEF RxInv, RxOrder
<1>6. RxFront' /\ RxBegin'
  BY <1>1, <1>3, <1>4, RxFacts DEF RxInv, RxFront, RxBegin, BeginSteps, FlushSteps, RxByte
<1> QED
  BY <1>2, <1>4, <1>5, <1>6 DEF RxInv

LEMMA RxAdvance == ASSUME RxInv, ReadAdvance PROVE RxInv'
<1> USE DEF ReadAdvance, Goto, results, registers
<1>1. /\ UNCHANGED <<got, taken, peeked, rhr, arrived, rxIrq, txIrq>>
      /\ pc = "r_advance" /\ pc' = "r_count"
  OBVIOUS
<1>2. TypeOK'
  BY ReadType DEF RxInv, ReadStep
<1>3. /\ rx.size \in 1 .. Slots /\ rx.head \in Index /\ rx.size - 1 \in Index
      /\ rx.tail = Ahead(rx.head, rx.size)
  BY <1>1, RxFacts, RingAssumption DEF RxInv, RxPointers, Waiting, Index
<1>4. /\ rx'.head = Advance(rx.head) /\ rx'.size = rx.size /\ rx'.tail = rx.tail
      /\ rx'.buf = rx.buf
  BY RxFacts DEF AdvanceHead, Ring
<1>5. LastHandled' = LastHandled /\ Waiting = rx.size /\ Waiting' = rx.size - 1
  BY <1>1, <1>4 DEF LastHandled, RXRDY, Waiting
<1>6. RxPointers'
  <2>1. Ahead(Advance(rx.head), rx.size - 1) = Ahead(rx.head, rx.size - 1 + 1)
    BY <1>3, AheadAdvance
  <2>2. rx.size - 1 + 1 = rx.size
    BY <1>3
  <2> QED
    BY <1>1, <1>3, <1>4, <1>5, <2>1, <2>2 DEF RxPointers
\* What was the second byte is the first.
<1>7. ASSUME NEW i \in Index, i < rx.size - 1
      PROVE  i + 1 \in Index /\ i + 1 < rx.size /\ RxByte(i)' = RxByte(i + 1)
  <2>1. Ahead(Advance(rx.head), i) = Ahead(rx.head, i + 1)
    BY <1>3, AheadAdvance
  <2>2. i + 1 \in Index /\ i + 1 < rx.size
    BY <1>3, <1>7, RingAssumption DEF Index
  <2> QED
    BY <1>4, <2>1, <2>2 DEF RxByte
<1>8. RxOrder'
  <2>1. /\ taken = RxByte(0) /\ 0 \in Index /\ got <= LastHandled
        /\ \A i, j \in Index : i < j /\ j < rx.size => RxByte(i) < RxByte(j)
        /\ \A i \in Index : i < rx.size => got < RxByte(i) /\ RxByte(i) <= LastHandled
    BY <1>1, <1>5, RxFacts DEF RxInv, RxOrder, RxFront
  <2>2. \A i, j \in Index : i < j /\ j < rx.size - 1 => RxByte(i)' < RxByte(j)'
    <3> SUFFICES ASSUME NEW i \in Index, NEW j \in Index, i < j, j < rx.size - 1
                 PROVE  RxByte(i)' < RxByte(j)'
      OBVIOUS
    <3>1. i < rx.size - 1 /\ i + 1 < j + 1
      BY <1>3, RingAssumption DEF Index
    <3>2. i + 1 \in Index /\ j + 1 \in Index /\ j + 1 < rx.size
      BY <1>7, <3>1
    <3>3. RxByte(i)' = RxByte(i + 1) /\ RxByte(j)' = RxByte(j + 1)
      BY <1>7, <3>1
    <3> QED
      BY <2>1, <3>1, <3>2, <3>3
  <2>3. \A i \in Index : i < rx.size - 1 =>
          got < RxByte(i)' /\ RxByte(i)' <= LastHandled /\ taken < RxByte(i)'
    <3> SUFFICES ASSUME NEW i \in Index, i < rx.size - 1
                 PROVE  got < RxByte(i)' /\ RxByte(i)' <= LastHandled /\ taken < RxByte(i)'
      OBVIOUS
    <3>1. i + 1 \in Index /\ i + 1 < rx.size /\ RxByte(i)' = RxByte(i + 1) /\ 0 < i + 1
      BY <1>7 DEF Index
    <3> QED
      BY <2>1, <3>1
  <2> QED
    BY <1>1, <1>5, <2>1, <2>2, <2>3 DEF RxInv, RxOrder
<1>9. RxFront'
  <2>1. /\ taken = RxByte(0)
        /\ peeked # NoByte => peeked = taken
        /\ got < RxByte(0) /\ RxByte(0) <= LastHandled
    BY <1>1, <1>3, <1>5, RxFacts DEF RxInv, RxFront, RxOrder
  <2> QED
    BY <1>1, <1>5, <2>1 DEF RxFront
<1>10. RxBegin'
  BY <1>1 DEF RxBegin, BeginSteps, FlushSteps
<1> QED
  BY <1>2, <1>6, <1>8, <1>9, <1>10 DEF RxInv

LEMMA RxCount == ASSUME RxInv, ReadCount PROVE RxInv'
<1> USE DEF ReadCount, Goto, registers
<1>1. /\ UNCHANGED <<taken, rhr, arrived, rxIrq, txIrq>>
      /\ pc = "r_count" /\ pc' = "idle" /\ got' = taken /\ peeked' = NoByte
  OBVIOUS
<1>2. TypeOK'
  BY ReadType DEF RxInv, ReadStep
<1>3. rx.size \in 1 .. Slots
  BY <1>1, RxFacts, RingAssumption DEF RxInv, RxPointers
<1>4. /\ rx'.head = rx.head /\ rx'.size = rx.size - 1 /\ rx'.tail = rx.tail
      /\ rx'.buf = rx.buf
  BY <1>3, RxFacts DEF CountDown, Ring
<1>5. /\ LastHandled' = LastHandled /\ Waiting' = Waiting
      /\ \A i \in Index : RxByte(i)' = RxByte(i)
  BY <1>1, <1>4 DEF LastHandled, RXRDY, Waiting, RxByte
<1>6. RxPointers'
  BY <1>1, <1>3, <1>4, <1>5, RingAssumption DEF RxInv, RxPointers
<1>7. RxOrder'
  BY <1>1, <1>5 DEF RxInv, RxOrder, RxFront
<1>8. RxFront' /\ RxBegin'
  BY <1>1 DEF RxFront, RxBegin, BeginSteps, FlushSteps
<1> QED
  BY <1>2, <1>6, <1>7, <1>8 DEF RxInv

\* The first begin finds the ring as it leaves it.
LEMMA RxOpen == ASSUME RxInv, BeginStep PROVE RxInv'
<1> USE DEF Goto, rings, results, registers
<1>1. TypeOK'
  BY BeginType DEF RxInv
<1>2. LastHandled \in Int /\ LastHandled' \in Int /\ LastHandled' >= LastHandled
  <2>1. rhr' \in {rhr, NoByte} /\ arrived' = arrived
    BY DEF BeginStep, BeginRxSize, BeginRxHead, BeginRxTail, BeginTxSize, BeginTxHead,
           BeginTxTail, BeginPeripheral, BeginEnable, Restart
  <2>2. arrived \in Int
    BY DEF RxInv, TypeOK, PeripheralTypeOK
  <2> QED
    BY <2>1, <2>2 DEF LastHandled, RXRDY
<1>3. /\ pc \in BeginSteps /\ pc' \in BeginSteps \cup {"idle"}
      /\ got' = got /\ taken' = taken
      /\ rhr' \in {NoByte, rhr}
      /\ arrived' = arrived
      /\ pc' \in BeginSteps => UNCHANGED <<rxIrq, txIrq>>
  BY DEF BeginStep, BeginRxSize, BeginRxHead, BeginRxTail, BeginTxSize, BeginTxHead,
         BeginTxTail, BeginPeripheral, BeginEnable, BeginSteps, Restart
<1>4. /\ rx.size = 0 /\ rx.head = 0 /\ rx.tail = 0 /\ peeked = NoByte
      /\ ~rxIrq /\ ~txIrq
  BY <1>3 DEF RxInv, RxBegin
<1>5. rx' = rx /\ peeked' = peeked
  BY <1>4, RxFacts
     DEF BeginStep, BeginRxSize, BeginRxHead, BeginRxTail, BeginTxSize, BeginTxHead,
         BeginTxTail, BeginPeripheral, BeginEnable, Ring
<1> QED
  BY <1>1, <1>2, <1>3, <1>4, <1>5, RxSame DEF RxInv, RxOrder, BeginSteps, FlushSteps

-----------------------------------------------------------------------------
\* The interrupt and the line

LEMMA RxAppend ==
  ASSUME RxInv, TypeOK', rhr # NoByte, rhr' = NoByte, rx.size < Limit,
         rx' = Appended(rx, rhr), pc \notin BeginSteps,
         UNCHANGED <<pc, got, taken, peeked, arrived>>
  PROVE  RxInv'
<1>1. /\ rx.size \in Nat /\ rx.size < Slots /\ Waiting \in Index /\ rx.head \in Index
      /\ rx.tail = Ahead(rx.head, Waiting) /\ rx.tail \in Index
      /\ rx.buf \in [Index -> Nat]
  <2>1. rx.size \in Nat /\ rx.size < Slots
    BY RxFacts, UsartAssumption
  <2>2. Waiting \in Index
    BY <2>1, RingAssumption DEF RxInv, RxPointers, Waiting, Index
  <2> QED
    BY <2>1, <2>2, RxFacts DEF RxInv, RxPointers, Ring
<1>2. /\ rx'.head = rx.head /\ rx'.size = rx.size + 1 /\ rx'.tail = Advance(rx.tail)
      /\ rx'.buf = [rx.buf EXCEPT ![rx.tail] = rhr]
  BY <1>1, RxFacts, UsartAssumption, RingAssumption
     DEF Appended, HasRoom, CountUp, AdvanceTail, Store, Ring
<1>3. /\ LastHandled = arrived - 1 /\ LastHandled' = arrived /\ rhr = arrived
      /\ arrived \in Nat /\ Waiting' = Waiting + 1
  BY <1>1, <1>2 DEF LastHandled, RXRDY, RxInv, RxOrder, TypeOK, PeripheralTypeOK, Waiting
<1>4. \A i \in Index : i < Waiting => RxByte(i)' = RxByte(i) /\ RxByte(i) \in Nat
  <2> SUFFICES ASSUME NEW i \in Index, i < Waiting
               PROVE  RxByte(i)' = RxByte(i) /\ RxByte(i) \in Nat
    OBVIOUS
  <2>1. i # Waiting
    BY <1>1 DEF Index
  <2>2. Ahead(rx.head, i) # rx.tail
    BY <1>1, <2>1, AheadDistinct
  <2>3. Ahead(rx.head, i) \in Index /\ RxByte(i) \in Nat
    BY RxByteType DEF RxInv
  <2> QED
    BY <1>1, <1>2, <2>2, <2>3 DEF RxByte
\* (i is a constant here: the prime must not reach Waiting.)
<1>5. ASSUME NEW i \in Index, i = Waiting
      PROVE  RxByte(i)' = arrived
  BY <1>1, <1>2, <1>3, <1>5 DEF RxByte
<1>6. RxPointers'
  <2>1. Advance(Ahead(rx.head, Waiting)) = Ahead(rx.head, Waiting + 1)
    BY <1>1, AheadAdvance
  <2>2. Ahead(rx.head, Waiting + 1) = Ahead(rx.head, Waiting')
    BY <1>3
  <2>3. rx'.tail = Ahead(rx.head, Waiting')
    BY <1>1, <1>2, <2>1, <2>2
  <2> QED
    BY <1>1, <1>2, <2>3, RingAssumption DEF RxInv, RxPointers
<1>7. RxOrder'
  <2>1. /\ got \in Nat /\ taken \in Nat /\ got <= LastHandled
        /\ pc = "r_count" => taken <= LastHandled
    BY RxFacts DEF RxInv, RxOrder, RxFront
  <2>2. \A i \in Index : i < Waiting + 1 => i < Waiting \/ i = Waiting
    BY <1>1 DEF Index
  <2>3. \A i \in Index : i < Waiting + 1 =>
          /\ got < RxByte(i)' /\ RxByte(i)' <= arrived
          /\ pc = "r_count" => taken < RxByte(i)'
    <3> SUFFICES ASSUME NEW i \in Index, i < Waiting + 1
                 PROVE  /\ got < RxByte(i)' /\ RxByte(i)' <= arrived
                        /\ pc = "r_count" => taken < RxByte(i)'
      OBVIOUS
    <3>1. CASE i < Waiting
      <4>1. RxByte(i)' = RxByte(i) /\ RxByte(i) \in Nat
        BY <1>4, <3>1
      <4>2. got < RxByte(i) /\ RxByte(i) <= arrived - 1
        BY <1>3, <3>1 DEF RxInv, RxOrder
      <4>3. pc = "r_count" => taken < RxByte(i)
        BY <3>1 DEF RxInv, RxOrder
      <4> QED
        BY <1>3, <4>1, <4>2, <4>3
    <3>2. CASE i = Waiting
      BY <1>3, <1>5, <2>1, <3>2
    <3> QED
      BY <2>2, <3>1, <3>2
  <2>4. \A i, j \in Index : i < j /\ j < Waiting + 1 => RxByte(i)' < RxByte(j)'
    <3> SUFFICES ASSUME NEW i \in Index, NEW j \in Index, i < j, j < Waiting + 1
                 PROVE  RxByte(i)' < RxByte(j)'
      OBVIOUS
    <3>1. i < Waiting
      BY <1>1 DEF Index
    <3>2. RxByte(i)' = RxByte(i) /\ RxByte(i) \in Nat /\ RxByte(i) <= arrived - 1
      BY <1>3, <1>4, <3>1 DEF RxInv, RxOrder
    <3>3. CASE j < Waiting
      <4>1. RxByte(j)' = RxByte(j)
        BY <1>4, <3>3
      <4>2. RxByte(i) < RxByte(j)
        BY <3>3 DEF RxInv, RxOrder
      <4> QED
        BY <3>2, <4>1, <4>2
    <3>4. CASE j = Waiting
      BY <1>3, <1>5, <3>2, <3>4
    <3> QED
      BY <2>2, <3>3, <3>4
  <2>5. pc' = pc /\ got' = got /\ taken' = taken /\ rhr' = NoByte
    OBVIOUS
  <2>6. /\ got' <= LastHandled' /\ rhr' = NoByte
        /\ pc' = "r_count" => \A i \in Index : i < Waiting' => taken' < RxByte(i)'
    BY <1>3, <2>1, <2>3, <2>5
  <2>7. \A i \in Index : i < Waiting' => got' < RxByte(i)' /\ RxByte(i)' <= LastHandled'
    BY <1>3, <2>3, <2>5
  <2>8. \A i, j \in Index : i < j /\ j < Waiting' => RxByte(i)' < RxByte(j)'
    BY <1>3, <2>4
  <2> QED
    BY <2>6, <2>7, <2>8 DEF RxOrder
<1>8. RxFront'
  <2>1. ASSUME pc = "r_advance" \/ (peeked # NoByte /\ pc # "r_count")
        PROVE  RxByte(0)' = RxByte(0)
    <3>1. rx.size > 0 /\ pc # "r_count"
      BY <2>1 DEF RxInv, RxPointers, RxFront
    <3>2. 0 \in Index /\ 0 < Waiting
      BY <3>1, RxFacts DEF Waiting
    <3> QED
      BY <1>4, <3>2
  <2>2. pc = "r_count" => got < taken /\ taken <= LastHandled'
    BY <1>3, RxFacts DEF RxInv, RxFront
  <2>3. pc' = pc /\ got' = got /\ taken' = taken /\ peeked' = peeked /\ rx'.size > 0
    BY <1>1, <1>2
  <2> QED
    BY <2>1, <2>2, <2>3 DEF RxInv, RxFront
<1>9. RxBegin'
  BY DEF RxInv, RxBegin
<1> QED
  BY <1>6, <1>7, <1>8, <1>9 DEF RxInv

LEMMA RxHandler == ASSUME RxInv, Handler PROVE RxInv'
<1> USE DEF Handler, results
<1>1. UNCHANGED <<pc, got, taken, peeked, arrived, rxIrq>>
  OBVIOUS
<1>2. TypeOK'
  BY HandlerType DEF RxInv
<1>3. pc \notin BeginSteps
  BY DEF Pending, RxInv, RxBegin
<1>4. CASE RXRDY /\ rx.size < Limit
  BY <1>1, <1>2, <1>3, <1>4, RxAppend DEF RxReadyCallback, RXRDY
<1>5. CASE RXRDY /\ ~(rx.size < Limit)
  <2>1. rx' = rx /\ rhr' = NoByte
    BY <1>5 DEF RxReadyCallback, Appended, HasRoom
  <2>2. LastHandled' >= LastHandled
    BY <1>1, <1>5, <2>1 DEF LastHandled, RXRDY, RxInv, TypeOK, PeripheralTypeOK
  <2> QED
    BY <1>1, <1>2, <1>3, <2>1, <2>2, RxSame DEF RxInv, RxBegin
<1>6. CASE ~RXRDY
  <2>1. rx' = rx /\ rhr' = rhr
    BY <1>6
  <2>2. LastHandled' = LastHandled /\ LastHandled \in Int
    BY <1>1, <2>1, RxFacts DEF LastHandled, RXRDY
  <2> QED
    BY <1>1, <1>2, <1>3, <2>1, <2>2, RxSame DEF RxInv, RxOrder, RxBegin
<1> QED
  BY <1>4, <1>5, <1>6

LEMMA RxPeripheral == ASSUME RxInv, Peripheral PROVE RxInv'
<1> USE DEF Peripheral, LoadShift, ShiftOut, Receive, rings, results
<1>1. /\ UNCHANGED <<pc, rx, got, taken, peeked, rxIrq, txIrq>>
      /\ \/ rhr' = rhr /\ arrived' = arrived
         \/ rhr' = arrived + 1 /\ arrived' = arrived + 1
  OBVIOUS
<1>2. TypeOK'
  BY PeripheralStepType DEF RxInv
<1>3. LastHandled' >= LastHandled
  BY <1>1 DEF LastHandled, RXRDY, NoByte, RxInv, TypeOK, PeripheralTypeOK
<1> QED
  BY <1>1, <1>2, <1>3, RxSame DEF RxInv, RxOrder, RxBegin

LEMMA RxNext == ASSUME NoReset, RxInv, [Next]_vars PROVE RxInv'
<1>1. CASE UNCHANGED vars
  <2>1. UNCHANGED <<pc, rx, got, taken, peeked, rhr, arrived, rxIrq, txIrq>>
    BY <1>1 DEF vars, rings, results, registers
  <2>2. TypeOK'
    BY <1>1, NextType DEF RxInv
  <2>3. LastHandled' = LastHandled /\ LastHandled \in Int
    BY <2>1, RxFacts DEF LastHandled, RXRDY
  <2> QED
    BY <2>1, <2>2, <2>3, RxSame DEF RxInv, RxOrder, RxBegin
<1>2. CASE ReadStep
  BY <1>2, RxLook, RxLoad, RxAdvance, RxCount, RxPeek DEF ReadStep
<1>3. CASE FlushStep
  BY <1>3 DEF RxInv, RxBegin, FlushSteps, FlushStep, FlushWait, FlushTxHead, FlushTxTail,
              FlushRxHead, FlushRxTail, FlushRxSize, Goto
<1> QED
  BY <1>1, <1>2, <1>3, RxCall, RxWrite, RxOpen, RxHandler, RxPeripheral DEF Next, Foreground

LEMMA RxHolds == ASSUME NoReset PROVE Spec => []RxInv
<1>1. Init => RxInv
  BY RxInit
<1>2. RxInv /\ [Next]_vars => RxInv'
  BY RxNext
<1> QED
  BY <1>1, <1>2, PTL DEF Spec

-----------------------------------------------------------------------------
\* The theorems

\* Wherever rx_ready_callback came into read and peek, between two calls the
\* counter of the rx ring says how far its pointers are apart: no byte is
\* stranded in the ring and none is counted that is not there.
THEOREM ReceiveCounted == ASSUME NoReset PROVE Spec => []RxCountMatches
<1>1. RxInv => RxCountMatches
  <2> SUFFICES ASSUME RxInv, pc = "idle" PROVE Agrees(rx, 0)
    BY DEF RxCountMatches
  <2>1. rx.size \in Nat /\ rx.size <= Slots /\ rx.tail = Ahead(rx.head, rx.size)
    BY RxFacts DEF RxInv, RxPointers, Waiting
  <2> QED
    BY <2>1, RingAssumption DEF Agrees
<1> QED
  BY <1>1, RxHolds, PTL

\* read never returns a byte twice nor after a younger one, however many bytes
\* the interrupt appended or dropped between its statements.
THEOREM ReceiveInOrder == ASSUME NoReset PROVE Spec => ReadsInOrder
<1>1. RxInv /\ [Next]_vars => [got' # got => got' > got]_vars
  <2> SUFFICES ASSUME RxInv, Next, got' # got PROVE got' > got
    OBVIOUS
  <2>1. ReadCount
    BY DEF Next, Call, CallWrite, CallRead, CallPeek, CallFlush, CallBegin, Foreground,
           WriteStep, WriteTestSize, WriteTestReady, WriteDirect, WriteWait, WriteAppend,
           WriteStore, WriteAdvance, WriteCount, WriteEnable,
           ReadStep, ReadTest, ReadLoad, ReadAdvance, PeekTest, PeekLoad,
           FlushStep, FlushWait, FlushTxHead, FlushTxTail, FlushRxHead, FlushRxTail, FlushRxSize,
           BeginStep, BeginRxSize, BeginRxHead, BeginRxTail, BeginTxSize, BeginTxHead,
           BeginTxTail, BeginPeripheral, BeginEnable, Handler, Peripheral, results
  <2> QED
    BY <2>1, RxFacts DEF ReadCount, Goto, RxInv, RxFront
<1> QED
  BY <1>1, RxHolds, PTL DEF Spec, ReadsInOrder

\* The byte peek showed is the byte the next read returns: the interrupt appends
\* behind it and drops what does not fit, and never moves the head.
THEOREM PeekIsNextRead == ASSUME NoReset PROVE Spec => PeekThenRead
<1>1. RxInv /\ [Next]_vars =>
        [pc = "r_count" /\ pc' = "idle" => peeked \in {NoByte, got'}]_vars
  <2> SUFFICES ASSUME RxInv, Next, pc = "r_count", pc' = "idle" PROVE peeked \in {NoByte, got'}
    OBVIOUS
  <2>1. ReadCount
    BY DEF Next, Call, CallWrite, CallRead, CallPeek, CallFlush, CallBegin, Foreground, Goto,
           WriteStep, WriteTestSize, WriteTestReady, WriteDirect, WriteWait, WriteAppend,
           WriteStore, WriteAdvance, WriteCount, WriteEnable,
           ReadStep, ReadTest, ReadLoad, ReadAdvance, PeekTest, PeekLoad,
           FlushStep, FlushWait, FlushTxHead, FlushTxTail, FlushRxHead, FlushRxTail, FlushRxSize,
           BeginStep, BeginRxSize, BeginRxHead, BeginRxTail, BeginTxSize, BeginTxHead,
           BeginTxTail, BeginPeripheral, BeginEnable, Handler, Peripheral
  <2> QED
    BY <2>1 DEF ReadCount, RxInv, RxFront
<1> QED
  BY <1>1, RxHolds, PTL DEF Spec, PeekThenRead

-----------------------------------------------------------------------------
\* The invariant: both sides of the port, and what the mapping needs besides.

\* The byte read fetched is still the oldest one that counts.
TakenCell == pc = "r_count" => rx.buf[Behind(rx.tail, rx.size)] = taken

\* Nothing comes in before the first begin switches the receiver on.
Quiet == pc \in BeginSteps \ {"b_irq"} => ~enabled /\ rhr = NoByte

PortInv == RxInv /\ TxInv /\ ~reopened /\ TakenCell /\ Quiet

LEMMA PortInit == Init => PortInv
<1> SUFFICES ASSUME Init PROVE PortInv
  OBVIOUS
<1>1. RxInv /\ TxInv
  BY RxInit, TxInit
<1>2. ~reopened /\ TakenCell /\ Quiet
  BY DEF Init, PeripheralInit, TakenCell, Quiet
<1> QED
  BY <1>1, <1>2 DEF PortInv

LEMMA NotReopened == ASSUME NoReset, ~reopened, [Next]_vars PROVE ~reopened'
<1>1. CASE UNCHANGED vars
  BY <1>1 DEF vars, results
<1>2. CASE Call
  BY <1>2 DEF NoReset, Call, CallWrite, CallRead, CallPeek, CallFlush, CallBegin, results
<1>3. CASE WriteStep
  BY <1>3 DEF WriteStep, WriteTestSize, WriteTestReady, WriteDirect, WriteWait, WriteAppend,
              WriteStore, WriteAdvance, WriteCount, WriteEnable, results
<1>4. CASE ReadStep
  BY <1>4 DEF ReadStep, ReadTest, ReadLoad, ReadAdvance, ReadCount, PeekTest, PeekLoad, results
<1>5. CASE FlushStep
  BY <1>5 DEF FlushStep, FlushWait, FlushTxHead, FlushTxTail, FlushRxHead, FlushRxTail,
              FlushRxSize, results
<1>6. CASE BeginStep
  BY <1>6 DEF BeginStep, BeginRxSize, BeginRxHead, BeginRxTail, BeginTxSize, BeginTxHead,
              BeginTxTail, BeginPeripheral, BeginEnable, results
<1>7. CASE Handler \/ Peripheral
  BY <1>7 DEF Handler, Peripheral, results
<1> QED
  BY <1>1, <1>2, <1>3, <1>4, <1>5, <1>6, <1>7 DEF Next, Foreground

LEMMA QuietStep == ASSUME NoReset, RxInv, Quiet, [Next]_vars PROVE Quiet'
<1> USE DEF Quiet, Goto
<1>1. CASE UNCHANGED vars
  BY <1>1 DEF vars, registers
<1>2. CASE Call
  BY <1>2 DEF NoReset, Call, CallWrite, CallRead, CallPeek, CallFlush, CallBegin, BeginSteps
<1>3. CASE WriteStep
  BY <1>3 DEF WriteStep, WriteTestSize, WriteTestReady, WriteDirect, WriteWait, WriteAppend,
              WriteStore, WriteAdvance, WriteCount, WriteEnable, BeginSteps
<1>4. CASE ReadStep
  BY <1>4 DEF ReadStep, ReadTest, ReadLoad, ReadAdvance, ReadCount, PeekTest, PeekLoad,
              BeginSteps
<1>5. CASE FlushStep
  BY <1>5 DEF FlushStep, FlushWait, FlushTxHead, FlushTxTail, FlushRxHead, FlushRxTail,
              FlushRxSize, BeginSteps
<1>6. CASE BeginStep
  BY <1>6 DEF BeginStep, BeginRxSize, BeginRxHead, BeginRxTail, BeginTxSize, BeginTxHead,
              BeginTxTail, BeginPeripheral, BeginEnable, BeginSteps, registers
\* Both interrupts are masked.
<1>7. CASE Handler
  BY <1>7 DEF Handler, Pending, RxInv, RxBegin
<1>8. CASE Peripheral
  BY <1>8 DEF Peripheral, LoadShift, ShiftOut, Receive
<1> QED
  BY <1>1, <1>2, <1>3, <1>4, <1>5, <1>6, <1>7, <1>8 DEF Next, Foreground

LEMMA TakenStep == ASSUME RxInv, TakenCell, [Next]_vars PROVE TakenCell'
<1> USE DEF Goto
<1>1. /\ rx.size \in 0 .. Slots /\ rx.head \in Index /\ rx.tail \in Index
      /\ rx.buf \in [Index -> Nat]
  BY RxFacts DEF RxInv, RxPointers, Ring
<1>2. CASE ReadAdvance
  <2>1. /\ pc = "r_advance" /\ taken' = taken /\ taken = RxByte(0)
        /\ rx.tail = Ahead(rx.head, rx.size)
    BY <1>2 DEF ReadAdvance, results, RxInv, RxFront, RxPointers, Waiting
  <2>2. rx'.tail = rx.tail /\ rx'.size = rx.size /\ rx'.buf = rx.buf
    BY <1>2, RxFacts DEF ReadAdvance, AdvanceHead, Ring
  <2>3. Behind(rx.tail, rx.size) = rx.head /\ RxByte(0) = rx.buf[rx.head]
    BY <1>1, <2>1, BehindAhead, AheadZero DEF RxByte
  <2> QED
    BY <2>1, <2>2, <2>3 DEF TakenCell
<1>3. CASE Handler
  <2>1. pc' = pc /\ taken' = taken
    BY <1>3 DEF Handler, results
  <2>2. CASE rx' = rx
    BY <2>1, <2>2 DEF TakenCell
  <2>3. CASE rx' = Appended(rx, rhr) /\ rx.size < Limit /\ pc = "r_count"
    <3>1. /\ rx'.size = rx.size + 1 /\ rx'.tail = Advance(rx.tail)
          /\ rx'.buf = [rx.buf EXCEPT ![rx.tail] = rhr]
      BY <1>1, <2>3, RxFacts, UsartAssumption, RingAssumption
         DEF Appended, HasRoom, CountUp, AdvanceTail, Store, Ring
    <3>2. rx.size \in Index /\ rx.size # 0
      BY <1>1, <2>3, UsartAssumption, RingAssumption DEF RxInv, RxPointers, Index
    <3>3. Behind(rx'.tail, rx'.size) = Behind(rx.tail, rx.size)
      BY <1>1, <3>1, <3>2, BehindAdvance
    <3>4. Behind(rx.tail, rx.size) # rx.tail /\ Behind(rx.tail, rx.size) \in Index
      BY <1>1, <3>2, BehindDistinct, BehindType
    <3>5. rx'.buf[Behind(rx.tail, rx.size)] = rx.buf[Behind(rx.tail, rx.size)]
      BY <1>1, <3>1, <3>4
    <3> QED
      BY <2>1, <3>3, <3>5 DEF TakenCell
  <2> QED
    BY <1>3, <2>1, <2>2, <2>3 DEF Handler, RxReadyCallback, Appended, HasRoom, TakenCell
<1>4. CASE UNCHANGED vars \/ Peripheral
  BY <1>4 DEF vars, Peripheral, rings, results, TakenCell
<1>5. CASE (Call \/ Foreground) /\ ~ReadAdvance
  BY <1>5 DEF TakenCell, Call, CallWrite, CallRead, CallPeek, CallFlush, CallBegin, Foreground,
         WriteStep, WriteTestSize, WriteTestReady, WriteDirect, WriteWait, WriteAppend,
         WriteStore, WriteAdvance, WriteCount, WriteEnable,
         ReadStep, ReadTest, ReadLoad, ReadCount, PeekTest, PeekLoad,
         FlushStep, FlushWait, FlushTxHead, FlushTxTail, FlushRxHead, FlushRxTail, FlushRxSize,
         BeginStep, BeginRxSize, BeginRxHead, BeginRxTail, BeginTxSize, BeginTxHead,
         BeginTxTail, BeginPeripheral, BeginEnable
<1> QED
  BY <1>2, <1>3, <1>4, <1>5 DEF Next

LEMMA PortInvNext == ASSUME NoReset, PortInv, [Next]_vars PROVE PortInv'
BY NotReopened, RxNext, TxNext, TakenStep, QuietStep DEF PortInv

-----------------------------------------------------------------------------
\* Every step is a step of the abstract port or none.

\* The abstract port's variable waiting.
Readable == UpToTail(rx) \o Register(rhr)

LEMMA ReadableIs ==
  ASSUME PortInv
  PROVE  /\ rx \in Ring /\ rx.size <= Slots /\ rhr \in Nat
         /\ UpToTail(rx) \in Seq(Nat) /\ Len(UpToTail(rx)) = rx.size
         /\ rhr = NoByte => Readable = UpToTail(rx)
         /\ rhr # NoByte => Readable = Append(UpToTail(rx), rhr)
<1>1. rx \in Ring /\ rx.size <= Slots /\ rhr \in Nat
  BY RxFacts DEF PortInv, RxInv, RxPointers, TypeOK, PeripheralTypeOK
<1>2. UpToTail(rx) \in Seq(Nat) /\ Len(UpToTail(rx)) = rx.size
  BY <1>1, UpToTailSeq
<1>3. rhr = NoByte => Readable = UpToTail(rx)
  BY <1>2, ConcatEmptySeq DEF Readable, Register
<1>4. rhr # NoByte => Readable = Append(UpToTail(rx), rhr)
  BY <1>1, <1>2, AppendIsConcat DEF Readable, Register
<1> QED
  BY <1>1, <1>2, <1>3, <1>4

LEMMA FrontAppend ==
  ASSUME NEW s \in Seq(Nat), NEW e \in Nat
  PROVE  Port!Front(Append(s, e)) = s
<1> DEFINE t == Append(s, e)
<1>1. /\ t \in Seq(Nat) /\ Len(t) = Len(s) + 1 /\ Len(s) \in Nat
      /\ \A i \in 1 .. Len(s) : t[i] = s[i]
  BY AppendProperties, LenProperties
<1> HIDE DEF t
<1>2. \A i \in 1 .. Len(s) : t[i] \in Nat
  BY <1>1, ElementOfSeq
<1>3. /\ SubSeq(t, 1, Len(s)) \in Seq(Nat) /\ Len(SubSeq(t, 1, Len(s))) = Len(s)
      /\ \A i \in 1 .. Len(s) : SubSeq(t, 1, Len(s))[i] = s[i]
  BY <1>1, <1>2, SubSeqProperties
<1>4. SubSeq(t, 1, Len(s)) = s
  BY <1>3, SeqEqual
<1>5. Len(t) - 1 = Len(s)
  BY <1>1
<1> QED
  BY <1>4, <1>5 DEF Port!Front, t

\* What is under way fits into the ring and the two registers.
LEMMA UnderWay ==
  ASSUME TxInv
  PROVE  /\ Len(wire) \in Nat /\ accepted \in Nat /\ tx.size \in Nat
         /\ accepted - Len(wire) <= tx.size + 2
         /\ shift # NoByte => shift = Len(wire) + 1 /\ Len(wire) < accepted
         /\ TXRDY => accepted - Len(wire) <= tx.size + 1
<1>1. /\ Len(wire) \in Nat /\ accepted \in Nat /\ tx.size \in Nat
      /\ Held(thr) \in 0 .. 1 /\ Held(shift) \in 0 .. 1
  BY OutType, HeldType, RingAssumption DEF TxInv, TypeOK, PeripheralTypeOK, Ring
<1>2. accepted = Len(wire) + Held(shift) + Held(thr) + tx.size
  BY DEF TxInv, Conservation, Out, OutOf
<1>3. shift # NoByte => Held(shift) = 1 /\ shift = Len(wire) + 1
  BY DEF TxInv, RegistersInOrder, OutInOrder, Held
<1>4. TXRDY => Held(thr) = 0
  BY DEF TXRDY, Held
<1> QED
  BY <1>1, <1>2, <1>3, <1>4

LEMMA NothingMoves ==
  ASSUME UNCHANGED <<accepted, wire, arrived, rx, rhr, got>>
  PROVE  UNCHANGED Port!vars
BY DEF Port!vars

LEMMA WriteMaps ==
  ASSUME PortInv, WriteStep
  PROVE  [Port!Next]_(Port!vars)
<1> USE DEF Goto, rings, results, registers
<1>1. CASE WriteTestSize \/ WriteTestReady \/ WriteWait \/ WriteStore \/ WriteAdvance \/ WriteEnable
  BY <1>1, NothingMoves DEF WriteTestSize, WriteTestReady, WriteWait, WriteStore, WriteAdvance,
                            WriteEnable
\* Since the room write waited for is still there, tx_buffer_append finds it.
<1>2. CASE WriteAppend
  <2>1. HasRoom(tx)
    BY <1>2, UsartAssumption DEF WriteAppend, HasRoom, PortInv, TxInv, Known
  <2> QED
    BY <1>2, <2>1, NothingMoves DEF WriteAppend
<1>3. CASE WriteDirect \/ WriteCount
  <2>1. accepted' = accepted + 1 /\ UNCHANGED <<wire, arrived, rx, rhr, got>>
    BY <1>3 DEF WriteDirect, WriteCount
  <2>2. accepted - Len(wire) < Slots + 2
    <3>1. \/ tx.size < Slots
          \/ tx.size = 0 /\ TXRDY
      BY <1>3 DEF WriteDirect, WriteCount, PortInv, TxInv, Known
    <3> QED
      BY <3>1, UnderWay, RingAssumption DEF PortInv
  <2>3. Port!Accept
    BY <2>1, <2>2 DEF Port!Accept
  <2> QED
    BY <2>3 DEF Port!Next
<1> QED
  BY <1>1, <1>2, <1>3 DEF WriteStep

LEMMA ReadMaps ==
  ASSUME PortInv, ReadStep
  PROVE  [Port!Next]_(Port!vars)
<1> USE DEF Goto, rings, results, registers
<1>1. CASE ReadTest \/ ReadLoad \/ PeekTest \/ PeekLoad
  BY <1>1, NothingMoves DEF ReadTest, ReadLoad, PeekTest, PeekLoad
\* The head moves, and the ring is counted back from the tail.
<1>2. CASE ReadAdvance
  <2>1. UNCHANGED <<accepted, wire, arrived, rhr, got>>
    BY <1>2 DEF ReadAdvance
  <2>2. rx'.tail = rx.tail /\ rx'.size = rx.size /\ rx'.buf = rx.buf
    BY <1>2, ReadableIs DEF ReadAdvance, AdvanceHead, Ring
  <2>3. UpToTail(rx') = UpToTail(rx)
    BY <2>2 DEF UpToTail
  <2> QED
    BY <2>1, <2>3 DEF Port!vars
<1>3. CASE ReadCount
  <2>1. /\ pc = "r_count" /\ got' = taken /\ rx' = CountDown(rx)
        /\ UNCHANGED <<accepted, wire, arrived, rhr>>
    BY <1>3 DEF ReadCount
  <2>2. rx.size > 0 /\ taken = rx.buf[Behind(rx.tail, rx.size)]
    BY <2>1 DEF PortInv, RxInv, RxPointers, TakenCell
  <2>3. /\ UpToTail(rx) # <<>> /\ Head(UpToTail(rx)) = got'
        /\ UpToTail(rx') = Tail(UpToTail(rx))
    BY <2>1, <2>2, ReadableIs, UpToTailCountDown
  <2>4. Readable # <<>> /\ got' = Head(Readable) /\ Readable' = Tail(Readable)
    <3>1. CASE rhr = NoByte
      <4>1. UpToTail(rx') \in Seq(Nat)
        BY <2>3, ReadableIs, HeadTailProperties
      <4>2. Readable' = UpToTail(rx')
        BY <2>1, <3>1, <4>1, ConcatEmptySeq DEF Readable, Register
      <4> QED
        BY <2>3, <3>1, <4>2, ReadableIs
    <3>2. CASE rhr # NoByte
      <4>1. UpToTail(rx') \in Seq(Nat)
        BY <2>3, ReadableIs, HeadTailProperties
      <4>2. Readable' = Append(UpToTail(rx'), rhr)
        BY <2>1, <3>2, <4>1, ReadableIs, AppendIsConcat DEF Readable, Register
      <4>3. /\ Head(Append(UpToTail(rx), rhr)) = Head(UpToTail(rx))
            /\ Tail(Append(UpToTail(rx), rhr)) = Append(Tail(UpToTail(rx)), rhr)
        BY <2>3, ReadableIs, HeadTailAppend
      <4>4. Append(UpToTail(rx), rhr) # <<>>
        BY ReadableIs, AppendProperties
      <4> QED
        BY <2>3, <3>2, <4>2, <4>3, <4>4, ReadableIs
    <3> QED
      BY <3>1, <3>2
  <2>5. Port!Take
    BY <2>1, <2>4 DEF Port!Take, Readable
  <2> QED
    BY <2>5 DEF Port!Next
<1> QED
  BY <1>1, <1>2, <1>3 DEF ReadStep

LEMMA BeginMaps ==
  ASSUME PortInv, BeginStep
  PROVE  [Port!Next]_(Port!vars)
<1> USE DEF Goto, rings, results, registers
<1>1. rx' = rx
  <2>1. pc \in BeginSteps
    BY DEF BeginStep, BeginRxSize, BeginRxHead, BeginRxTail, BeginTxSize, BeginTxHead,
           BeginTxTail, BeginPeripheral, BeginEnable, BeginSteps
  <2>2. rx.size = 0 /\ rx.head = 0 /\ rx.tail = 0
    BY <2>1 DEF PortInv, RxInv, RxBegin
  <2> QED
    BY <2>2, ReadableIs
       DEF BeginStep, BeginRxSize, BeginRxHead, BeginRxTail, BeginTxSize, BeginTxHead,
           BeginTxTail, BeginPeripheral, BeginEnable, Ring
<1>2. UNCHANGED <<accepted, wire, arrived, rhr, got>>
  BY DEF BeginStep, BeginRxSize, BeginRxHead, BeginRxTail, BeginTxSize, BeginTxHead,
         BeginTxTail, BeginPeripheral, BeginEnable, BeginSteps, Restart, PortInv, Quiet
<1> QED
  BY <1>1, <1>2, NothingMoves

\* The interrupt moves a byte from the register into the ring, where it waits
\* as before, or drops it.
LEMMA HandlerMaps ==
  ASSUME PortInv, Handler
  PROVE  [Port!Next]_(Port!vars)
<1>1. UNCHANGED <<accepted, wire, arrived, got>>
  BY DEF Handler, results
<1>2. CASE ~RXRDY
  BY <1>1, <1>2, NothingMoves DEF Handler
<1>3. CASE RXRDY
  <2>1. /\ rhr # NoByte /\ rhr' = NoByte /\ rx' = Appended(rx, rhr)
        /\ Readable = Append(UpToTail(rx), rhr)
    BY <1>3, ReadableIs DEF Handler, RxReadyCallback, RXRDY
  <2>2. ASSUME UpToTail(rx') \in Seq(Nat)
        PROVE  Readable' = UpToTail(rx')
    BY <2>1, <2>2, ConcatEmptySeq DEF Readable, Register
  <2>3. CASE rx.size < Limit
    <3>0. rx.size < Slots /\ rx.size + 1 < CountMod /\ rx.size \in Nat
      BY <2>3, ReadableIs, UsartAssumption, RingAssumption DEF Ring
    <3>1. UpToTail(rx') = Append(UpToTail(rx), rhr)
      BY <2>1, <2>3, <3>0, ReadableIs, UpToTailAppended
    <3>2. UpToTail(rx') \in Seq(Nat)
      BY <3>1, ReadableIs, AppendProperties
    <3>3. Readable' = Readable
      BY <2>1, <2>2, <3>1, <3>2
    <3> QED
      BY <1>1, <3>3 DEF Port!vars, Readable
  <2>4. CASE ~(rx.size < Limit)
    <3>1. rx' = rx /\ rx.size = Slots
      BY <2>1, <2>4, ReadableIs, UsartAssumption, RingAssumption, RxFacts
         DEF Appended, HasRoom, PortInv
    <3>2. Readable' = UpToTail(rx)
      BY <2>2, <3>1, ReadableIs
    <3>3. Port!Front(Readable) = UpToTail(rx) /\ Len(Readable) = Slots + 1
      BY <2>1, <3>1, ReadableIs, FrontAppend, AppendProperties
    <3>4. Port!Drop
      BY <1>1, <3>2, <3>3 DEF Port!Drop, Readable
    <3> QED
      BY <3>4 DEF Port!Next
  <2> QED
    BY <2>3, <2>4
<1> QED
  BY <1>2, <1>3

LEMMA PeripheralMaps ==
  ASSUME PortInv, Peripheral
  PROVE  [Port!Next]_(Port!vars)
<1> USE DEF Peripheral, rings, results
<1>1. CASE LoadShift
  BY <1>1, NothingMoves DEF LoadShift
<1>2. CASE ShiftOut
  <2>1. /\ wire' = Append(wire, Len(wire) + 1) /\ Len(wire) < accepted
        /\ UNCHANGED <<accepted, arrived, rx, rhr, got>>
    BY <1>2, UnderWay DEF ShiftOut, PortInv
  <2>2. Port!Emit
    BY <2>1 DEF Port!Emit
  <2> QED
    BY <2>2 DEF Port!Next
<1>3. CASE Receive
  <2>1. /\ arrived' = arrived + 1 /\ rhr' = arrived + 1 /\ arrived \in Nat
        /\ UNCHANGED <<accepted, wire, rx, got>>
    BY <1>3 DEF Receive, PortInv, RxInv, TypeOK, PeripheralTypeOK
  <2>2. Readable' = Append(UpToTail(rx), arrived + 1)
    <3>1. Register(rhr') = <<arrived + 1>> /\ arrived + 1 \in Nat
      BY <2>1 DEF Register, NoByte
    <3>2. Append(UpToTail(rx), arrived + 1) = UpToTail(rx) \o <<arrived + 1>>
      BY <3>1, ReadableIs, AppendIsConcat
    <3> QED
      BY <2>1, <3>1, <3>2 DEF Readable
  <2>3. CASE rhr = NoByte
    <3>1. Readable = UpToTail(rx) /\ Len(Readable) < Slots + 1
      BY <2>3, ReadableIs, RingAssumption, RxFacts DEF PortInv
    <3>2. Port!Hear
      BY <2>1, <2>2, <3>1 DEF Port!Hear, Readable
    <3> QED
      BY <3>2 DEF Port!Next
  <2>4. CASE rhr # NoByte
    <3>1. Readable # <<>> /\ Port!Front(Readable) = UpToTail(rx)
      BY <2>4, ReadableIs, FrontAppend, AppendProperties
    <3>2. Port!Overrun
      BY <2>1, <2>2, <3>1 DEF Port!Overrun, Readable
    <3> QED
      BY <3>2 DEF Port!Next
  <2> QED
    BY <2>3, <2>4
<1> QED
  BY <1>1, <1>2, <1>3

LEMMA NextMaps ==
  ASSUME NoReset, PortInv, [Next]_vars
  PROVE  [Port!Next]_(Port!vars)
<1>1. CASE UNCHANGED vars
  BY <1>1, NothingMoves DEF vars, rings, results, registers
<1>2. CASE Call
  BY <1>2, NothingMoves
     DEF NoReset, Call, CallWrite, CallRead, CallPeek, CallFlush, CallBegin, rings, results,
         registers
<1>3. CASE FlushStep
  BY <1>3 DEF PortInv, RxInv, RxBegin, FlushSteps, FlushStep, FlushWait, FlushTxHead,
              FlushTxTail, FlushRxHead, FlushRxTail, FlushRxSize, Goto
<1> QED
  BY <1>1, <1>2, <1>3, WriteMaps, ReadMaps, BeginMaps, HandlerMaps, PeripheralMaps
     DEF Next, Foreground

LEMMA InitMaps == Init => Port!Init
<1> SUFFICES ASSUME Init PROVE Port!Init
  OBVIOUS
<1>1. /\ accepted = 0 /\ wire = <<>> /\ arrived = 0 /\ got = 0
      /\ rhr = NoByte /\ rx.size = 0
  BY DEF Init, PeripheralInit, EmptyRing, NoByte
<1>2. Readable = UpToTail(rx) /\ UpToTail(rx) \in Seq(Nat) /\ Len(UpToTail(rx)) = 0
  BY <1>1, PortInit, ReadableIs
<1>3. Readable = <<>>
  BY <1>2, EmptySeq
<1> QED
  BY <1>1, <1>3 DEF Port!Init, Readable

\* Serial1 and Serial2 are the abstract port: whatever the sketch writes, reads
\* and peeks and wherever the interrupt comes in, bytes leave in the order
\* write took them, bytes are read in the order they came in, and one is lost
\* only by an overrun of the register or because ring and register are full.
\* (flush and a second begin reset the ring under the interrupt and break this:
\* the run usart_flush.)
THEOREM PortImplemented == ASSUME NoReset PROVE Spec => ImplementsPort
<1>1. Init => PortInv
  BY PortInit
<1>2. PortInv /\ [Next]_vars => PortInv'
  BY PortInvNext
<1>3. Init => Port!Init
  BY InitMaps
<1>4. PortInv /\ [Next]_vars => [Port!Next]_(Port!vars)
  BY NextMaps
<1> QED
  BY <1>1, <1>2, <1>3, <1>4, PTL DEF Spec, ImplementsPort, Port!Spec

=============================================================================
