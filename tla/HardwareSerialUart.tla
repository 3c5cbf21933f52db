------------------------- MODULE HardwareSerialUart -------------------------
(***************************************************************************)
(* Serial3 and Serial4.  The same port as HardwareSerialUsart on the UART  *)
(* peripheral, with other choices at the places that matter: the arrays    *)
(* have 255 cells and the counters 8 bits, yet the code still compares     *)
(* with 512; write unmasks the interrupt before it appends; begin unmasks  *)
(* the receive interrupt before it sets the buffers up; the interrupt      *)
(* waits for TXEMPTY, not TXRDY.                                           *)
(*                                                                         *)
(* spoiled and missed are history: they note the steps at which the code   *)
(* leaves the safe path, so that the properties can say that nothing else  *)
(* goes wrong.                                                             *)
(***************************************************************************)
EXTENDS SerialPeripheral

CONSTANTS
  Calls,        \* the operations the sketch uses
  MaxWrites     \* bound on the bytes it writes

ASSUME UartAssumption ==
  /\ Slots = CountMod - 1           \* 255 cells, uint8_t counters
  /\ Limit >= CountMod              \* SERIAL_USART_RX_BUFFER_SIZE is 512
  /\ Calls \subseteq {"write", "read", "flush", "begin"}
  /\ MaxWrites \in Nat

VARIABLES
  pc,         \* where the foreground is; "idle" between two calls
  tx, rx,     \* the two rings
  accepted,   \* how many bytes write took
  taken,      \* the local variable read returns, 0 when nothing was fetched
  got,        \* the byte the last successful read returned
  spoiled,    \* the rings that were overrun, or reset with bytes in them
  missed      \* the interrupt masked itself while a byte was being appended

rings == <<tx, rx>>
history == <<spoiled, missed>>
results == <<accepted, taken, got>>
vars == <<pc, rings, results, history, registers>>

\* Static storage: the pointers are NULL until begin sets them.  A tail that
\* is NULL equals buffer_end, so that it advances to the first cell.
Null == -1

\* (Definitions named Faulty... are not the code, see ByteRing.)

WriteSteps == {"w_size", "w_ready", "w_direct", "w_wait", "w_enable", "w_append", "w_store", "w_advance", "w_count"}
ReadSteps  == {"r_test", "r_advance", "r_count"}
FlushSteps == {"f_wait", "f_txhead", "f_txtail", "f_rxhead", "f_rxtail", "f_rxsize"}
BeginSteps == {"b_init", "b_irq", "b_rxsize", "b_rxhead", "b_rxtail", "b_txsize", "b_txhead", "b_txtail"}

\* While a byte is on its way into the ring and does not count yet.
Appending == {"w_append", "w_store", "w_advance", "w_count"}

\* Where an appended byte makes counter and pointers disagree for good: the
\* counter is still to be cleared, or the tail is still to be reset.
Resetting == {"f_rxsize", "b_rxhead", "b_rxtail"}

Steps == {"idle"} \cup WriteSteps \cup ReadSteps \cup FlushSteps \cup BeginSteps

Pointer == Index \cup {Null}

StaticRing == [buf : [Index -> Nat], head : Pointer, tail : Pointer, size : 0 .. CountMod - 1]

TypeOK ==
  /\ PeripheralTypeOK
  /\ pc \in Steps
  /\ {tx, rx} \subseteq StaticRing
  /\ {accepted, taken, got} \subseteq Nat
  /\ spoiled \subseteq {"tx", "rx"}
  /\ missed \in BOOLEAN

Init ==
  /\ PeripheralInit
  /\ pc = "b_init"
  /\ tx = [EmptyRing EXCEPT !.head = Null, !.tail = Null]
  /\ rx = [EmptyRing EXCEPT !.head = Null, !.tail = Null]
  /\ accepted = 0
  /\ taken = NoByte
  /\ got = NoByte
  /\ spoiled = {}
  /\ missed = FALSE

Goto(from, to) == pc = from /\ pc' = to

\* A foreground step that only looks and moves on.
Look(from, to) == Goto(from, to) /\ UNCHANGED <<rings, results, history, registers>>

-----------------------------------------------------------------------------
\* write(data)

CallWrite == "write" \in Calls /\ accepted < MaxWrites /\ Look("idle", "w_size")

WriteTestSize == Look("w_size", IF tx.size = 0 THEN "w_ready" ELSE "w_wait")

WriteTestReady == Look("w_ready", IF TXRDY THEN "w_direct" ELSE "w_wait")

WriteDirect ==
  /\ Goto("w_direct", "idle")
  /\ Transmit(accepted + 1)
  /\ accepted' = accepted + 1
  /\ UNCHANGED <<rings, taken, got, history, enabled, shift, wire, rhr, arrived, txIrq, rxIrq>>

WriteWait == tx.size # Limit /\ Look("w_wait", "w_enable")

FaultyWriteEnable == Look("w_enable", "w_append")

WriteEnable ==
  /\ Goto("w_enable", "w_append")
  /\ UnmaskTx
  /\ missed' = FALSE
  /\ UNCHANGED <<rings, results, spoiled, enabled, thr, shift, wire, rhr, arrived, rxIrq>>

\* tx_buffer_append; write returns what it returns.
WriteAppend == Look("w_append", IF HasRoom(tx) THEN "w_store" ELSE "idle")

\* With no cell free the oldest byte is overwritten.
WriteStore ==
  /\ Goto("w_store", "w_advance")
  /\ tx' = Store(tx, accepted + 1)
  /\ spoiled' = IF tx.size = Slots THEN spoiled \cup {"tx"} ELSE spoiled
  /\ UNCHANGED <<rx, results, missed, registers>>

FaultyWriteAdvance == Look("w_advance", "w_count")

WriteAdvance ==
  /\ Goto("w_advance", "w_count")
  /\ tx' = AdvanceTail(tx)
  /\ UNCHANGED <<rx, results, history, registers>>

WriteCount ==
  /\ Goto("w_count", "idle")
  /\ tx' = CountUp(tx)
  /\ accepted' = accepted + 1
  /\ UNCHANGED <<rx, taken, got, history, registers>>

-----------------------------------------------------------------------------
\* read() returns what rx_buffer_remove left in its local variable, 0 if
\* nothing.

CallRead == "read" \in Calls /\ Look("idle", "r_test")

ReadTest ==
  /\ pc = "r_test"
  /\ IF rx.size > 0
     THEN /\ pc' = "r_advance"
          /\ taken' = First(rx)
     ELSE /\ pc' = "idle"
          /\ taken' = NoByte
  /\ UNCHANGED <<rings, accepted, got, history, registers>>

FaultyReadAdvance == Look("r_advance", "r_count")

ReadAdvance ==
  /\ Goto("r_advance", "r_count")
  /\ rx' = AdvanceHead(rx)
  /\ UNCHANGED <<tx, results, history, registers>>

FaultyReadCount ==
  /\ Goto("r_count", "idle")
  /\ got' = taken
  /\ UNCHANGED <<rings, accepted, taken, history, registers>>

ReadCount ==
  /\ Goto("r_count", "idle")
  /\ rx' = CountDown(rx)
  /\ got' = taken
  /\ UNCHANGED <<tx, accepted, taken, history, registers>>

-----------------------------------------------------------------------------
\* flush(), which is all that end() does

CallFlush == "flush" \in Calls /\ Look("idle", "f_wait")

FlushWait == tx.size = 0 /\ Look("f_wait", "f_txhead")

\* The straight assignments of flush and begin to a field of a ring.
AssignTx(from, to, r) ==
  Goto(from, to) /\ tx' = r /\ UNCHANGED <<rx, results, history, registers>>
AssignRx(from, to, r) ==
  Goto(from, to) /\ rx' = r /\ UNCHANGED <<tx, results, history, registers>>

FlushAssign ==
  \/ AssignTx("f_txhead", "f_txtail", [tx EXCEPT !.head = 0])
  \/ AssignTx("f_txtail", "f_rxhead", [tx EXCEPT !.tail = 0])
  \/ AssignRx("f_rxhead", "f_rxtail", [rx EXCEPT !.head = 0])
  \/ AssignRx("f_rxtail", "f_rxsize", [rx EXCEPT !.tail = 0])
  \/ AssignRx("f_rxsize", "idle", [rx EXCEPT !.size = 0])

-----------------------------------------------------------------------------
\* begin(): the peripheral and its interrupt first, then the buffers

CallBegin == "begin" \in Calls /\ Look("idle", "b_init")

\* uart_init, uart_enable_tx and uart_enable_rx
BeginPeripheral ==
  /\ Goto("b_init", "b_irq")
  /\ Restart
  /\ spoiled' = IF tx.size > 0 \/ thr # NoByte \/ shift # NoByte THEN spoiled \cup {"tx"} ELSE spoiled
  /\ UNCHANGED <<rings, results, missed, wire, arrived, txIrq, rxIrq>>

BeginEnable ==
  /\ Goto("b_irq", "b_rxsize")
  /\ rxIrq' = TRUE
  /\ UNCHANGED <<rings, results, history, enabled, thr, shift, wire, rhr, arrived, txIrq>>

BeginAssign ==
  \/ AssignRx("b_rxsize", "b_rxhead", [rx EXCEPT !.size = 0])
  \/ AssignRx("b_rxhead", "b_rxtail", [rx EXCEPT !.head = 0])
  \/ AssignRx("b_rxtail", "b_txsize", [rx EXCEPT !.tail = 0])
  \/ AssignTx("b_txsize", "b_txhead", [tx EXCEPT !.size = 0])
  \/ AssignTx("b_txhead", "b_txtail", [tx EXCEPT !.head = 0])
  \/ AssignTx("b_txtail", "idle", [tx EXCEPT !.tail = 0])

-----------------------------------------------------------------------------
\* UART0_Handler and UART1_Handler

\* rx_buffer_append: the counter wraps when the array is full; before begin the
\* byte goes to address 0.
RxAppended(b) ==
  IF HasRoom(rx) THEN CountUp(AdvanceTail(IF rx.tail = Null THEN rx ELSE Store(rx, b))) ELSE rx

RxReadyCallback ==
  /\ rx' = RxAppended(rhr)
  /\ rhr' = NoByte
  /\ spoiled' = IF rx.size = Slots \/ pc \in Resetting THEN spoiled \cup {"rx"} ELSE spoiled

TxEmptyCallback ==
  IF tx.size = 0
  THEN /\ MaskTx
       /\ missed' = (missed \/ pc \in Appending)
       /\ UNCHANGED <<tx, thr>>
  ELSE /\ Transmit(First(tx))
       /\ tx' = Removed(tx)
       /\ UNCHANGED <<txIrq, missed>>

Pending == (rxIrq /\ RXRDY) \/ (txIrq /\ TXEMPTY)

Handler ==
  /\ Pending
  /\ IF RXRDY THEN RxReadyCallback ELSE UNCHANGED <<rx, rhr, spoiled>>
  /\ IF TXEMPTY THEN TxEmptyCallback ELSE UNCHANGED <<tx, thr, txIrq, missed>>
  /\ UNCHANGED <<pc, results, enabled, shift, wire, arrived, rxIrq>>

-----------------------------------------------------------------------------

Call == CallWrite \/ CallRead \/ CallFlush \/ CallBegin

Foreground ==
  \/ WriteTestSize \/ WriteTestReady \/ WriteDirect \/ WriteWait \/ WriteEnable
  \/ WriteAppend \/ WriteStore \/ WriteAdvance \/ WriteCount
  \/ ReadTest \/ ReadAdvance \/ ReadCount
  \/ FlushWait \/ FlushAssign
  \/ BeginPeripheral \/ BeginEnable \/ BeginAssign

Peripheral == (LoadShift \/ ShiftOut \/ Receive) /\ UNCHANGED <<pc, rings, results, history>>

Next == Call \/ Foreground \/ Handler \/ Peripheral

Spec == Init /\ [][Next]_vars

\* As for the USART port: the program runs, interrupts are taken, bytes move.
Fairness ==
  /\ WF_vars(Foreground)
  /\ WF_vars(Handler)
  /\ WF_vars(LoadShift /\ UNCHANGED <<pc, rings, results, history>>)
  /\ WF_vars(ShiftOut /\ UNCHANGED <<pc, rings, results, history>>)

FairSpec == Spec /\ Fairness

-----------------------------------------------------------------------------
\* What holds as long as the code stays on the safe path.

Outgoing == wire \o Register(shift) \o Register(thr) \o FromHead(tx)

\* Until an append overran the tx ring no accepted byte is lost, repeated or
\* overtaken (write, tx_buffer_append, tx_empty_callback).
NothingLostUnlessOverrun == "tx" \notin spoiled => Outgoing = [k \in 1 .. accepted |-> k]

\* Every accepted byte leaves, unless the interrupt masked itself over an empty
\* ring between write's unmasking and its append, and no later write unmasked it
\* again (write, tx_empty_callback).
SentUnlessMissed ==
  \A k \in 1 .. MaxWrites : accepted = k ~> Len(wire) >= k \/ missed \/ "tx" \in spoiled

\* Between two calls the rx counter is the distance of the rx pointers, unless
\* the ring was overrun or the interrupt came while flush or begin reset it.
RxCountUnlessSpoiled == pc = "idle" /\ "rx" \notin spoiled => Agrees(rx, 0)

\* Until then reads return bytes in the order they came in, each once.
ReadsInOrderUnlessSpoiled ==
  [][pc = "r_count" /\ pc' = "idle" /\ "rx" \notin spoiled => got' > got]_vars

=============================================================================
