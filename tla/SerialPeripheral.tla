-------------------------- MODULE SerialPeripheral --------------------------
(***************************************************************************)
(* The USART or UART peripheral as its driver uses it: a transmit holding  *)
(* register (thr) in front of a shift register, a receive holding register *)
(* (rhr), two interrupt masks, and the two wires.  The registers move by   *)
(* themselves, between any two steps of the program.                       *)
(*                                                                         *)
(* Bytes are numbered: the k-th byte the program hands over is k, and so   *)
(* is the k-th byte that comes in.  No code looks at a byte's value.       *)
(***************************************************************************)
EXTENDS ByteRing

CONSTANT MaxArrivals      \* bound on the bytes that come in

ASSUME ArrivalsAssumption == MaxArrivals \in Nat

VARIABLES
  enabled,    \* transmitter and receiver switched on
  thr,        \* transmit holding register, NoByte when TXRDY
  shift,      \* transmit shift register
  wire,       \* the bytes that left, oldest first
  rhr,        \* receive holding register, NoByte unless RXRDY
  arrived,    \* how many bytes came in
  txIrq,      \* the transmit interrupt is unmasked
  rxIrq       \* the receive interrupt is unmasked

registers == <<enabled, thr, shift, wire, rhr, arrived, txIrq, rxIrq>>

PeripheralTypeOK ==
  /\ enabled \in BOOLEAN
  /\ thr \in Nat
  /\ shift \in Nat
  /\ wire \in Seq(Nat)
  /\ rhr \in Nat
  /\ arrived \in 0 .. MaxArrivals
  /\ txIrq \in BOOLEAN
  /\ rxIrq \in BOOLEAN

PeripheralInit ==
  /\ enabled = FALSE
  /\ thr = NoByte
  /\ shift = NoByte
  /\ wire = <<>>
  /\ rhr = NoByte
  /\ arrived = 0
  /\ txIrq = FALSE
  /\ rxIrq = FALSE

TXRDY   == enabled /\ thr = NoByte
TXEMPTY == TXRDY /\ shift = NoByte
RXRDY   == rhr # NoByte

\* usart_write and uart_write: the byte is dropped when the register is full.
Transmit(b) == thr' = IF TXRDY THEN b ELSE thr

\* The program's view of a mask.
UnmaskTx == txIrq' = TRUE
MaskTx   == txIrq' = FALSE

\* Reset and switch on, as begin does: what was under way is gone.
Restart ==
  /\ enabled' = TRUE
  /\ thr' = NoByte
  /\ shift' = NoByte
  /\ rhr' = NoByte

-----------------------------------------------------------------------------
\* The hardware's own steps.

\* The holding register moves into the idle shift register.
LoadShift ==
  /\ thr # NoByte
  /\ shift = NoByte
  /\ shift' = thr
  /\ thr' = NoByte
  /\ UNCHANGED <<enabled, wire, rhr, arrived, txIrq, rxIrq>>

\* The last bit of a byte leaves.
ShiftOut ==
  /\ shift # NoByte
  /\ wire' = Append(wire, shift)
  /\ shift' = NoByte
  /\ UNCHANGED <<enabled, thr, rhr, arrived, txIrq, rxIrq>>

\* A byte comes in.  One that was not read in time is overwritten (OVRE).
Receive ==
  /\ enabled
  /\ arrived < MaxArrivals
  /\ arrived' = arrived + 1
  /\ rhr' = arrived + 1
  /\ UNCHANGED <<enabled, thr, shift, wire, txIrq, rxIrq>>

=============================================================================
