--------------------------- MODULE TwiPeripheral ---------------------------
(***************************************************************************)
(* A two-wire interface of the chip in master mode, with the slaves on its *)
(* bus, as far as twi.c uses it: TXRDY, RXRDY, NACK and TXCOMP of the      *)
(* status register, the holding registers, START and STOP.                 *)
(*                                                                         *)
(* A slave may refuse its address or a byte it is sent, and may stretch    *)
(* the clock, that is take any time for anything.  Bytes that slaves send  *)
(* are numbered from 1.                                                    *)
(***************************************************************************)
EXTENDS Integers, Sequences

CONSTANT Addresses    \* of the slaves

VARIABLES
  bus,         \* "free" (TXCOMP is set), or the direction of the transfer
  target,      \* the slave the transfer, or the last one, writes to
  addressed,   \* that slave has answered
  stop,        \* a STOP was asked for
  thr,         \* transmit holding register: a byte or Nothing
  shift,       \* the byte on its way to the slave, or Nothing
  rhr,         \* receive holding register: a byte or Nothing
  nack,        \* the NACK flag; reading the status register clears it
  heard,       \* bytes 1 .. heard came from slaves
  delivered    \* <<address, byte>> for the bytes slaves accepted since the
               \*   last transmission began

Nothing == 0

peripheral == <<bus, target, addressed, stop, thr, shift, rhr, nack>>
line == <<heard, delivered>>

PeripheralTypeOK ==
  /\ bus \in {"free", "write", "read"}
  /\ target \in Addresses
  /\ addressed \in BOOLEAN
  /\ stop \in BOOLEAN
  /\ thr \in Nat
  /\ shift \in Nat
  /\ rhr \in 0 .. heard
  /\ nack \in BOOLEAN
  /\ heard \in Nat
  /\ delivered \in Seq(Addresses \X Nat)

FaultyReset ==
  /\ bus' = "free"
  /\ addressed' = FALSE
  /\ stop' = FALSE
  /\ thr' = Nothing
  /\ shift' = Nothing
  /\ nack' = FALSE
  /\ UNCHANGED <<target, rhr>>

\* twi_reset: the software reset, and the receive register is read.
Reset ==
  /\ bus' = "free"
  /\ addressed' = FALSE
  /\ stop' = FALSE
  /\ thr' = Nothing
  /\ shift' = Nothing
  /\ rhr' = Nothing
  /\ nack' = FALSE
  /\ UNCHANGED target

PeripheralInit ==
  /\ bus = "free"
  /\ target \in Addresses
  /\ addressed = FALSE
  /\ stop = FALSE
  /\ thr = Nothing
  /\ shift = Nothing
  /\ rhr = Nothing
  /\ nack = FALSE
  /\ heard = 0
  /\ delivered = <<>>

TXRDY == thr = Nothing
RXRDY == rhr # Nothing
TXCOMP == bus = "free"

\* A START of a transfer to slave a, repeated when one is under way.
Begins(direction, a) ==
  /\ bus' = direction
  /\ target' = a
  /\ addressed' = FALSE

FaultyTransmit(a, b) ==
  /\ thr' = b
  /\ IF bus = "free"
     THEN Begins("write", target) /\ stop' = FALSE
     ELSE UNCHANGED <<bus, target, addressed, stop>>

\* TWI_THR = b, which starts a transfer when none is under way.
Transmit(a, b) ==
  /\ thr' = b
  /\ IF bus = "free"
     THEN Begins("write", a) /\ stop' = FALSE
     ELSE UNCHANGED <<bus, target, addressed, stop>>

-----------------------------------------------------------------------------
\* What happens on the bus.

\* Nobody answers, or the slave refuses a byte: the transfer ends.
Refuse ==
  /\ (bus # "free" /\ ~addressed) \/ shift # Nothing
  /\ nack' = TRUE
  /\ bus' = "free"
  /\ thr' = Nothing
  /\ shift' = Nothing
  /\ stop' = FALSE
  /\ UNCHANGED <<target, addressed, rhr, line>>

Answer ==
  /\ bus # "free" /\ ~addressed
  /\ addressed' = TRUE
  /\ UNCHANGED <<bus, target, stop, thr, shift, rhr, nack, line>>

Load ==
  /\ bus = "write" /\ addressed
  /\ thr # Nothing /\ shift = Nothing
  /\ shift' = thr
  /\ thr' = Nothing
  /\ UNCHANGED <<bus, target, addressed, stop, rhr, nack, line>>

Accept ==
  /\ bus = "write" /\ addressed /\ shift # Nothing
  /\ delivered' = Append(delivered, <<target, shift>>)
  /\ shift' = Nothing
  /\ UNCHANGED <<bus, target, addressed, stop, thr, rhr, nack, heard>>

Complete ==
  /\ bus = "write" /\ addressed /\ stop
  /\ thr = Nothing /\ shift = Nothing
  /\ bus' = "free"
  /\ stop' = FALSE
  /\ UNCHANGED <<target, addressed, thr, shift, rhr, nack, line>>

\* The slave sends a byte, the last one when STOP was asked for in time.
Receive ==
  /\ bus = "read" /\ addressed
  /\ rhr = Nothing
  /\ heard' = heard + 1
  /\ rhr' = heard + 1
  /\ bus' = IF stop THEN "free" ELSE "read"
  /\ stop' = FALSE
  /\ UNCHANGED <<target, addressed, thr, shift, nack, delivered>>

Bus == Refuse \/ Answer \/ Load \/ Accept \/ Complete \/ Receive

=============================================================================
