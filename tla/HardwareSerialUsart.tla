------------------------ MODULE HardwareSerialUsart ------------------------
(***************************************************************************)
(* Serial1 and Serial2: the foreground program calls write, read, peek,    *)
(* flush, end and begin; the USART interrupt service routine empties the   *)
(* tx ring into the peripheral and fills the rx ring from it.              *)
(*                                                                         *)
(* The foreground is a sequence of steps, one for each access to something *)
(* the interrupt also touches; the interrupt and the peripheral come in    *)
(* between any two of them.  The interrupt service routine is one step: it *)
(* runs to its end before the foreground goes on, and no interrupt of this *)
(* port interrupts it.  available and availableForWrite only read one      *)
(* counter.                                                                *)
(***************************************************************************)
EXTENDS SerialPeripheral

CONSTANTS
  Calls,        \* the operations the sketch uses
  MaxWrites     \* bound on the bytes it writes

ASSUME UsartAssumption ==
  /\ Limit = Slots                  \* both are SERIAL_USART_RX_BUFFER_SIZE
  /\ Slots < CountMod               \* 512 in a uint16_t
  /\ Calls \subseteq {"write", "read", "peek", "flush", "begin"}
  /\ MaxWrites \in Nat

VARIABLES
  pc,         \* where the foreground is; "idle" between two calls
  tx, rx,     \* the two rings
  accepted,   \* how many bytes write took
  taken,      \* the local variable of read: the byte it fetched
  got,        \* the byte the last successful read returned
  peeked,     \* the byte a peek returned since that read, or NoByte
  dropped,    \* the newest byte that was in the rx ring when it was last flushed
  reopened    \* history: begin was called again

rings == <<tx, rx>>
results == <<accepted, taken, got, peeked, dropped, reopened>>
vars == <<pc, rings, results, registers>>

WriteSteps == {"w_ready", "w_direct", "w_wait", "w_append", "w_store", "w_advance", "w_count", "w_enable"}
ReadSteps  == {"r_test", "r_load", "r_advance", "r_count", "p_test", "p_load"}
FlushSteps == {"f_wait", "f_txhead", "f_txtail", "f_rxhead", "f_rxtail", "f_rxsize"}
BeginSteps == {"b_rxsize", "b_rxhead", "b_rxtail", "b_txsize", "b_txhead", "b_txtail", "b_init", "b_irq"}
Steps == {"idle", "w_size"} \cup WriteSteps \cup ReadSteps \cup FlushSteps \cup BeginSteps

TypeOK ==
  /\ PeripheralTypeOK
  /\ pc \in Steps
  /\ tx \in Ring
  /\ rx \in Ring
  /\ accepted \in Nat
  /\ taken \in Nat
  /\ got \in Nat
  /\ peeked \in Nat
  /\ dropped \in Int
  /\ reopened \in BOOLEAN

\* setup() opens the port before the sketch uses it.
Init ==
  /\ PeripheralInit
  /\ pc = "b_rxsize"
  /\ tx = EmptyRing
  /\ rx = EmptyRing
  /\ accepted = 0
  /\ taken = NoByte
  /\ got = NoByte
  /\ peeked = NoByte
  /\ dropped = NoByte
  /\ reopened = FALSE

Goto(from, to) == pc = from /\ pc' = to

-----------------------------------------------------------------------------
\* write(data): the argument is the byte after the last accepted one.

CallWrite ==
  /\ "write" \in Calls
  /\ accepted < MaxWrites
  /\ Goto("idle", "w_size")
  /\ UNCHANGED <<rings, results, registers>>

FaultyWriteTestSize ==
  /\ Goto("w_size", "w_ready")
  /\ UNCHANGED <<rings, results, registers>>

\* tx_buffer_size == 0 && TXRDY, two accesses
WriteTestSize ==
  /\ Goto("w_size", IF tx.size = 0 THEN "w_ready" ELSE "w_wait")
  /\ UNCHANGED <<rings, results, registers>>

WriteTestReady ==
  /\ Goto("w_ready", IF TXRDY THEN "w_direct" ELSE "w_wait")
  /\ UNCHANGED <<rings, results, registers>>

WriteDirect ==
  /\ Goto("w_direct", "idle")
  /\ Transmit(accepted + 1)
  /\ accepted' = accepted + 1
  /\ UNCHANGED <<rings, taken, got, peeked, dropped, reopened, enabled, shift, wire, rhr, arrived, txIrq, rxIrq>>

\* while(tx_buffer_size == SERIAL_USART_RX_BUFFER_SIZE) ;
WriteWait ==
  /\ tx.size # Limit
  /\ Goto("w_wait", "w_append")
  /\ UNCHANGED <<rings, results, registers>>

\* tx_buffer_append refuses when full; write ignores that and returns 1.
WriteAppend ==
  /\ Goto("w_append", IF HasRoom(tx) THEN "w_store" ELSE "w_enable")
  /\ accepted' = IF HasRoom(tx) THEN accepted ELSE accepted + 1
  /\ UNCHANGED <<rings, taken, got, peeked, dropped, reopened, registers>>

WriteStore ==
  /\ Goto("w_store", "w_advance")
  /\ tx' = Store(tx, accepted + 1)
  /\ UNCHANGED <<rx, results, registers>>

WriteAdvance ==
  /\ Goto("w_advance", "w_count")
  /\ tx' = AdvanceTail(tx)
  /\ UNCHANGED <<rx, results, registers>>

FaultyWriteCount ==
  /\ Goto("w_count", "idle")
  /\ tx' = CountUp(tx)
  /\ accepted' = accepted + 1
  /\ UNCHANGED <<rx, taken, got, peeked, dropped, reopened, registers>>

WriteCount ==
  /\ Goto("w_count", "w_enable")
  /\ tx' = CountUp(tx)
  /\ accepted' = accepted + 1
  /\ UNCHANGED <<rx, taken, got, peeked, dropped, reopened, registers>>

WriteEnable ==
  /\ Goto("w_enable", "idle")
  /\ UnmaskTx
  /\ UNCHANGED <<rings, results, enabled, thr, shift, wire, rhr, arrived, rxIrq>>

-----------------------------------------------------------------------------
\* read() and peek()

CallRead ==
  /\ "read" \in Calls
  /\ Goto("idle", "r_test")
  /\ UNCHANGED <<rings, results, registers>>

ReadTest ==
  /\ Goto("r_test", IF rx.size > 0 THEN "r_load" ELSE "idle")
  /\ UNCHANGED <<rings, results, registers>>

ReadLoad ==
  /\ Goto("r_load", IF rx.size > 0 THEN "r_advance" ELSE "idle")
  /\ taken' = IF rx.size > 0 THEN First(rx) ELSE taken
  /\ UNCHANGED <<rings, accepted, got, peeked, dropped, reopened, registers>>

ReadAdvance ==
  /\ Goto("r_advance", "r_count")
  /\ rx' = AdvanceHead(rx)
  /\ UNCHANGED <<tx, results, registers>>

ReadCount ==
  /\ Goto("r_count", "idle")
  /\ rx' = CountDown(rx)
  /\ got' = taken
  /\ peeked' = NoByte
  /\ UNCHANGED <<tx, accepted, taken, dropped, reopened, registers>>

CallPeek ==
  /\ "peek" \in Calls
  /\ Goto("idle", "p_test")
  /\ UNCHANGED <<rings, results, registers>>

PeekTest ==
  /\ Goto("p_test", IF rx.size = 0 THEN "idle" ELSE "p_load")
  /\ UNCHANGED <<rings, results, registers>>

PeekLoad ==
  /\ Goto("p_load", "idle")
  /\ peeked' = First(rx)
  /\ UNCHANGED <<rings, accepted, taken, got, dropped, reopened, registers>>

-----------------------------------------------------------------------------
\* flush(), which is all that end() does

CallFlush ==
  /\ "flush" \in Calls
  /\ Goto("idle", "f_wait")
  /\ UNCHANGED <<rings, results, registers>>

\* The newest byte the interrupt has already moved into the ring.
LastHandled == IF RXRDY THEN arrived - 1 ELSE arrived

\* while(tx_buffer_size > 0);
FlushWait ==
  /\ tx.size = 0
  /\ Goto("f_wait", "f_txhead")
  /\ UNCHANGED <<rings, results, registers>>

FlushTxHead ==
  /\ Goto("f_txhead", "f_txtail")
  /\ tx' = [tx EXCEPT !.head = 0]
  /\ UNCHANGED <<rx, results, registers>>

FlushTxTail ==
  /\ Goto("f_txtail", "f_rxhead")
  /\ tx' = [tx EXCEPT !.tail = 0]
  /\ UNCHANGED <<rx, results, registers>>

FlushRxHead ==
  /\ Goto("f_rxhead", "f_rxtail")
  /\ rx' = [rx EXCEPT !.head = 0]
  /\ UNCHANGED <<tx, results, registers>>

FlushRxTail ==
  /\ Goto("f_rxtail", "f_rxsize")
  /\ rx' = [rx EXCEPT !.tail = 0]
  /\ UNCHANGED <<tx, results, registers>>

FlushRxSize ==
  /\ Goto("f_rxsize", "idle")
  /\ rx' = [rx EXCEPT !.size = 0]
  /\ peeked' = NoByte
  /\ dropped' = LastHandled
  /\ UNCHANGED <<tx, accepted, taken, got, reopened, registers>>

-----------------------------------------------------------------------------
\* begin(): the buffers first, then the peripheral and its interrupt

CallBegin ==
  /\ "begin" \in Calls
  /\ Goto("idle", "b_rxsize")
  /\ reopened' = TRUE
  /\ UNCHANGED <<rings, accepted, taken, got, peeked, dropped, registers>>

BeginRxSize ==
  /\ Goto("b_rxsize", "b_rxhead")
  /\ rx' = [rx EXCEPT !.size = 0]
  /\ peeked' = NoByte
  /\ dropped' = LastHandled
  /\ UNCHANGED <<tx, accepted, taken, got, reopened, registers>>

BeginRxHead ==
  /\ Goto("b_rxhead", "b_rxtail")
  /\ rx' = [rx EXCEPT !.head = 0]
  /\ UNCHANGED <<tx, results, registers>>

BeginRxTail ==
  /\ Goto("b_rxtail", "b_txsize")
  /\ rx' = [rx EXCEPT !.tail = 0]
  /\ UNCHANGED <<tx, results, registers>>

FaultyBeginTxSize ==
  /\ Goto("b_txsize", "b_txhead")
  /\ UNCHANGED <<rings, results, registers>>

BeginTxSize ==
  /\ Goto("b_txsize", "b_txhead")
  /\ tx' = [tx EXCEPT !.size = 0]
  /\ UNCHANGED <<rx, results, registers>>

BeginTxHead ==
  /\ Goto("b_txhead", "b_txtail")
  /\ tx' = [tx EXCEPT !.head = 0]
  /\ UNCHANGED <<rx, results, registers>>

BeginTxTail ==
  /\ Goto("b_txtail", "b_init")
  /\ tx' = [tx EXCEPT !.tail = 0]
  /\ UNCHANGED <<rx, results, registers>>

\* usart_init_rs232, usart_enable_tx and usart_enable_rx
BeginPeripheral ==
  /\ Goto("b_init", "b_irq")
  /\ Restart
  /\ UNCHANGED <<rings, results, wire, arrived, txIrq, rxIrq>>

BeginEnable ==
  /\ Goto("b_irq", "idle")
  /\ rxIrq' = TRUE
  /\ UNCHANGED <<rings, results, enabled, thr, shift, wire, rhr, arrived, txIrq>>

-----------------------------------------------------------------------------
\* USART0_Handler and USART1_Handler: the status is read once and decides
\* which callbacks run, whatever the masks are.

\* rx_ready_callback: a byte that does not fit is dropped.
RxReadyCallback ==
  /\ rx' = Appended(rx, rhr)
  /\ rhr' = NoByte

FaultyTxEmptyCallback ==
  /\ MaskTx
  /\ IF tx.size = 0
     THEN UNCHANGED <<tx, thr>>
     ELSE Transmit(First(tx)) /\ tx' = Removed(tx)

\* tx_empty_callback
TxEmptyCallback ==
  IF tx.size = 0
  THEN /\ MaskTx
       /\ UNCHANGED <<tx, thr>>
  ELSE /\ Transmit(First(tx))
       /\ tx' = Removed(tx)
       /\ UNCHANGED txIrq

Pending == (rxIrq /\ RXRDY) \/ (txIrq /\ TXRDY)

Handler ==
  /\ Pending
  /\ IF RXRDY THEN RxReadyCallback ELSE UNCHANGED <<rx, rhr>>
  /\ IF TXRDY THEN TxEmptyCallback ELSE UNCHANGED <<tx, thr, txIrq>>
  /\ UNCHANGED <<pc, results, enabled, shift, wire, arrived, rxIrq>>

-----------------------------------------------------------------------------

WriteStep ==
  \/ WriteTestSize \/ WriteTestReady \/ WriteDirect \/ WriteWait \/ WriteAppend
  \/ WriteStore \/ WriteAdvance \/ WriteCount \/ WriteEnable

ReadStep == ReadTest \/ ReadLoad \/ ReadAdvance \/ ReadCount \/ PeekTest \/ PeekLoad

FlushStep == FlushWait \/ FlushTxHead \/ FlushTxTail \/ FlushRxHead \/ FlushRxTail \/ FlushRxSize

BeginStep ==
  \/ BeginRxSize \/ BeginRxHead \/ BeginRxTail \/ BeginTxSize \/ BeginTxHead
  \/ BeginTxTail \/ BeginPeripheral \/ BeginEnable

\* The sketch starts a call when it likes and finishes the call it started.
Call == CallWrite \/ CallRead \/ CallPeek \/ CallFlush \/ CallBegin

Foreground == WriteStep \/ ReadStep \/ FlushStep \/ BeginStep

Peripheral == (LoadShift \/ ShiftOut \/ Receive) /\ UNCHANGED <<pc, rings, results>>

Next == Call \/ Foreground \/ Handler \/ Peripheral

Spec == Init /\ [][Next]_vars

\* The processor runs the program, takes pending interrupts, and the line
\* clock moves the bytes; nobody is obliged to call or to send.
Fairness ==
  /\ WF_vars(Foreground)
  /\ WF_vars(Handler)
  /\ WF_vars(LoadShift /\ UNCHANGED <<pc, rings, results>>)
  /\ WF_vars(ShiftOut /\ UNCHANGED <<pc, rings, results>>)

FairSpec == Spec /\ Fairness

-----------------------------------------------------------------------------
\* Properties of the transmit side.

\* Everything write took, from the oldest byte on the wire to the newest in
\* the ring.
Outgoing == wire \o Register(shift) \o Register(thr) \o FromHead(tx)

\* No byte write returned 1 for is lost, sent twice or overtaken, whichever of
\* the two ways (past the ring or through it) each of them took and wherever
\* the interrupt came in between (write, tx_buffer_append, tx_empty_callback);
\* only a second begin discards what is still under way.
NothingLost == ~reopened => Outgoing = [k \in 1 .. accepted |-> k]

\* Bytes that a second begin leaves are still in order and none is repeated,
\* wherever begin met the interrupt and the registers.
WireInOrder == \A i, j \in 1 .. Len(Outgoing) : i < j => Outgoing[i] < Outgoing[j]

\* A byte waits in the ring only while the interrupt that will fetch it is
\* unmasked, or write is about to unmask it: tx_empty_callback masks itself
\* when it sees an empty ring, concurrently with tx_buffer_append.
NoLostWakeup == tx.size > 0 => txIrq \/ pc = "w_enable"

\* Every accepted byte leaves eventually, unless begin discards it.
AllSent == \A k \in 1 .. MaxWrites : accepted = k ~> Len(wire) >= k \/ reopened

\* Every call returns: the loops of write and flush that wait for the
\* interrupt to empty the ring end.
CallsReturn == pc # "idle" ~> pc = "idle"

-----------------------------------------------------------------------------
\* Properties of the receive side.

\* Between two calls the rx counter is the distance of the rx pointers, with
\* the interrupt free to append at any point of a call.
RxCountMatches == pc = "idle" => Agrees(rx, 0)

\* A read returns a byte that came in after every byte returned before.
ReadsInOrder == [][got' # got => got' > got]_vars

\* What peek showed is what the next read returns, though the interrupt may
\* have filled the ring and dropped bytes meanwhile.
PeekThenRead == [][pc = "r_count" /\ pc' = "idle" => peeked \in {NoByte, got'}]_vars

\* "flush rx buffer by dropping everything in buffer": no read returns a byte
\* that was in the ring when a flush completed.
FlushDropsAll == [][pc = "r_count" /\ pc' = "idle" => taken > dropped]_vars

\* The port is a lossless pipe outwards and a bounded queue inwards.
Port == INSTANCE SerialPort WITH
  TxCapacity <- Slots + 2,
  RxCapacity <- Slots + 1,
  heard <- arrived,
  waiting <- UpToTail(rx) \o Register(rhr)

ImplementsPort == Port!Spec

=============================================================================
