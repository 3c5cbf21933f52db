------------------------------- MODULE Wire -------------------------------
(***************************************************************************)
(* Wire, the master port on the two-wire bus: write gathers bytes in the   *)
(* tx ring, endTransmission sends them, requestFrom reads bytes into the   *)
(* rx ring and read takes them from there.  twi_master_write and _read     *)
(* poll the peripheral: a read of its status and each access it leads to   *)
(* are steps of their own, and the bus does what it does in between.  No   *)
(* interrupt of the peripheral is ever enabled.                            *)
(*                                                                         *)
(* Left out are the clock speed, internal addresses of slaves, the slave   *)
(* role of the old library (its callbacks are never installed) and end,    *)
(* after which nothing works until begin.                                  *)
(***************************************************************************)
EXTENDS ByteRing, TwiPeripheral

CONSTANTS
  SendSize,     \* cells of sendBuffer, 32
  MaxQuantity,  \* bound on the bytes of one requestFrom
  Timeout,      \* TWI_TIMEOUT: turns of a polling loop without progress
  WriteTimeout, \* TWI_TIMEOUT*10: turns of the sending loop altogether
  MaxHeard,     \* bound on the bytes asked for; a slave may send one more
  MaxWritten    \* bound on the bytes the sketch writes

ASSUME WireAssumption ==
  /\ SendSize \in 1 .. Slots        \* 32 of 128
  /\ Slots < CountMod               \* in a uint8_t,
  /\ CountMod <= Limit              \* that never reaches the limit of 512
  /\ MaxQuantity \in 1 .. CountMod - 1
  /\ Timeout \in Nat
  /\ WriteTimeout \in Nat
  /\ MaxHeard \in Nat
  /\ MaxWritten \in Nat

VARIABLES
  pc,          \* "idle", or where in its polling loops the program is
  tx, rx,      \* the two rings
  txAddress,   \* as beginTransmission left it
  packet,      \* sendBuffer or tempBuffer: the bytes to send, or those read
  cnt,         \* the bytes the loop still has to move
  stopSent,    \* stop_sent
  ready,       \* RXRDY as twi_master_read has just seen it in the status
  timeout,
  written,     \* history: the program wrote bytes 1 .. written
  meant,       \* history: and meant byte k for the slave meant[k]
  first,       \* history: the bytes heard before this call
  stored,      \* history: the bytes put into the rx ring since begin
  taken,       \* history: how many of them read returned
  got,         \* history: what the last read returned
  abandoned,   \* history: a transmission was begun with bytes of another
  late,        \* history: a time-out, a STOP later than the byte it is for, or
               \*   a byte written when its slave had just refused
  overrun      \* history: requestFrom met a ring without room

rings == <<tx, rx>>
local == <<packet, cnt, stopSent, ready, timeout>>
reads == <<first, stored, taken, got, overrun>>
history == <<written, meant, reads, abandoned, late>>
vars == <<pc, rings, txAddress, local, history, peripheral, line>>

Writing == {"w_send", "w_put", "w_last", "w_ask", "w_stop"}
Reading == {"r_loop", "r_ask", "r_take", "r_stop"}

TypeOK ==
  /\ PeripheralTypeOK
  /\ pc \in {"idle"} \cup Writing \cup Reading
  /\ {tx, rx} \subseteq Ring
  /\ txAddress \in Addresses
  /\ packet \in Seq(Nat)
  /\ cnt \in 0 .. CountMod - 1
  /\ stopSent \in BOOLEAN
  /\ ready \in BOOLEAN
  /\ timeout \in 0 .. Timeout + WriteTimeout

\* After the first begin().
Init ==
  /\ PeripheralInit
  /\ pc = "idle"
  /\ tx = EmptyRing
  /\ rx = EmptyRing
  /\ txAddress \in Addresses
  /\ packet = <<>>
  /\ cnt = 0
  /\ stopSent = FALSE
  /\ ready = FALSE
  /\ timeout = 0
  /\ written = 0
  /\ meant = <<>>
  /\ first = 0
  /\ stored = <<>>
  /\ taken = 0
  /\ got = 0
  /\ abandoned = FALSE
  /\ late = FALSE
  /\ overrun = FALSE

Goto(from, to) == pc = from /\ pc' = to

-----------------------------------------------------------------------------
\* The calls that only touch the rings

\* begin() again, also to recover a bus.
Begin ==
  /\ pc = "idle"
  /\ Reset
  /\ tx' = EmptyRing
  /\ rx' = EmptyRing
  /\ stored' = <<>>
  /\ taken' = 0
  /\ got' = 0
  /\ abandoned' = FALSE
  /\ late' = FALSE
  /\ overrun' = FALSE
  /\ UNCHANGED <<pc, txAddress, local, written, meant, first, line>>

\* The ring keeps what an earlier transmission left.
BeginTransmission ==
  /\ pc = "idle"
  /\ txAddress' \in Addresses
  /\ abandoned' = (abandoned \/ tx.size > 0)
  /\ UNCHANGED <<pc, rings, local, written, meant, reads, late, peripheral, line>>

\* write(byte).  A sketch that gathers more than sendBuffer holds is wrong.
Write ==
  /\ pc = "idle"
  /\ written < MaxWritten
  /\ tx.size < SendSize
  /\ written' = written + 1
  /\ meant' = Append(meant, txAddress)
  /\ tx' = Appended(tx, written + 1)
  /\ UNCHANGED <<pc, rx, txAddress, local, reads, abandoned, late, peripheral, line>>

Read ==
  /\ pc = "idle"
  /\ rx.size > 0
  /\ got' = First(rx)
  /\ taken' = taken + 1
  /\ rx' = Removed(rx)
  /\ UNCHANGED <<pc, tx, txAddress, local, written, meant, first, stored, abandoned,
                 late, overrun, peripheral, line>>

-----------------------------------------------------------------------------
\* endTransmission and twi_master_write

Drained(r) == [r EXCEPT !.head = Ahead(r.head, r.size), !.size = 0]

\* Whatever becomes of the transfer, the bytes have left the ring.
EndTransmission ==
  /\ Goto("idle", "w_send")
  /\ tx.size > 0
  /\ packet' = FromHead(tx)
  /\ cnt' = tx.size
  /\ tx' = Drained(tx)
  /\ timeout' = WriteTimeout
  /\ delivered' = <<>>
  /\ UNCHANGED <<rx, txAddress, stopSent, ready, history, peripheral, heard>>

\* status = TWI_SR
ReadStatus == nack' = FALSE

\* The local variables of twi_master_write or _read are gone.
Return ==
  /\ pc' = "idle"
  /\ packet' = <<>>
  /\ cnt' = 0
  /\ stopSent' = FALSE
  /\ ready' = FALSE
  /\ timeout' = 0
  /\ first' = heard
  /\ UNCHANGED line

FaultyFails == nack

Fails == nack \/ (timeout = 0 /\ ~(pc = "w_last" /\ TXRDY))

\* A polling loop gives up, with TWI_RECEIVE_NACK or TWI_ERROR_TIMEOUT.
GiveUp ==
  /\ pc \in {"w_send", "w_last", "r_loop"}
  /\ Fails
  /\ Return
  /\ late' = (late \/ ~nack)
  /\ ReadStatus
  /\ UNCHANGED <<rings, txAddress, written, meant, stored, taken, got, overrun, abandoned,
                 bus, target, addressed, stop, thr, shift, rhr>>

Polls == ~nack /\ timeout > 0 /\ ReadStatus

\* Reads the status ...
PollSend ==
  /\ pc = "w_send"
  /\ Polls
  /\ timeout' = timeout - 1
  /\ pc' = IF TXRDY THEN "w_put" ELSE "w_send"
  /\ UNCHANGED <<rings, txAddress, packet, cnt, stopSent, ready, history,
                 bus, target, addressed, stop, thr, shift, rhr, line>>

\* ... and writes the byte.  When the slave refused in between, the byte starts
\* a transfer that nobody ends.
PutByte ==
  /\ pc = "w_put"
  /\ Transmit(txAddress, packet[Len(packet) - cnt + 1])
  /\ late' = (late \/ nack)
  /\ cnt' = cnt - 1
  /\ IF cnt = 1
     THEN pc' = "w_last" /\ timeout' = Timeout
     ELSE pc' = "w_send" /\ UNCHANGED timeout
  /\ UNCHANGED <<rings, txAddress, packet, stopSent, ready, written, meant, reads, abandoned,
                 shift, rhr, nack, line>>

FaultyPollLast ==
  /\ Goto("w_last", "w_ask")
  /\ UNCHANGED <<rings, txAddress, local, history, peripheral, line>>

\* The second loop: the last byte is on its way to the slave, not accepted yet.
PollLast ==
  /\ pc = "w_last"
  /\ ~nack
  /\ ReadStatus
  /\ IF TXRDY
     THEN pc' = "w_ask" /\ UNCHANGED timeout
     ELSE /\ timeout > 0
          /\ timeout' = timeout - 1
          /\ UNCHANGED pc
  /\ UNCHANGED <<rings, txAddress, packet, cnt, stopSent, ready, history,
                 bus, target, addressed, stop, thr, shift, rhr, line>>

\* TWI_CR = STOP, which means nothing when no transfer is under way.
AskStop == stop' = (stop \/ bus # "free")

SendStop ==
  /\ Goto("w_ask", "w_stop")
  /\ AskStop
  /\ UNCHANGED <<rings, txAddress, local, history,
                 bus, target, addressed, thr, shift, rhr, nack, line>>

\* The wait for TXCOMP, which has no time-out and does not look at NACK.
SendComplete ==
  /\ pc = "w_stop"
  /\ TXCOMP
  /\ Return
  /\ ReadStatus
  /\ UNCHANGED <<rings, txAddress, written, meant, stored, taken, got, overrun, abandoned, late,
                 bus, target, addressed, stop, thr, shift, rhr>>

-----------------------------------------------------------------------------
\* requestFrom and twi_master_read

\* Which slave is read makes no difference here.
RequestFrom ==
  /\ Goto("idle", "r_loop")
  /\ Begins("read", target)
  /\ \E quantity \in 1 .. MaxQuantity :
       /\ heard + quantity <= MaxHeard
       /\ cnt' = quantity
       /\ stopSent' = (quantity = 1)
       /\ stop' = (quantity = 1)
  /\ packet' = <<>>
  /\ timeout' = Timeout
  /\ first' = heard
  /\ UNCHANGED <<rings, txAddress, ready, written, meant, stored, taken, got, abandoned,
                 late, overrun, thr, shift, rhr, nack, line>>

FaultyStopDue == cnt = 0 /\ ~stopSent

StopDue == cnt = 1 /\ ~stopSent

PollRead ==
  /\ pc = "r_loop"
  /\ Polls
  /\ timeout' = timeout - 1
  /\ ready' = RXRDY
  /\ pc' = CASE StopDue -> "r_ask"
             [] ~StopDue /\ RXRDY -> "r_take"
             [] OTHER -> "r_loop"
  /\ UNCHANGED <<rings, txAddress, packet, cnt, stopSent, history,
                 bus, target, addressed, stop, thr, shift, rhr, line>>

\* STOP is asked for before the last byte is taken; when that byte has come
\* already, the slave sends one too many.
ReadStop ==
  /\ pc = "r_ask"
  /\ pc' = IF ready THEN "r_take" ELSE "r_loop"
  /\ AskStop
  /\ stopSent' = TRUE
  /\ late' = (late \/ RXRDY)
  /\ UNCHANGED <<rings, txAddress, packet, cnt, ready, timeout, written, meant, reads, abandoned,
                 bus, target, addressed, thr, shift, rhr, nack, line>>

TakeByte ==
  /\ pc = "r_take"
  /\ pc' = IF cnt = 1 THEN "r_stop" ELSE "r_loop"
  /\ packet' = Append(packet, rhr)
  /\ rhr' = Nothing
  /\ cnt' = cnt - 1
  /\ timeout' = Timeout
  /\ ready' = FALSE
  /\ UNCHANGED <<rings, txAddress, stopSent, history,
                 bus, target, addressed, stop, thr, shift, nack, line>>

\* The wait for TXCOMP, without time-out; then requestFrom fills the rx ring.
ReadComplete ==
  /\ pc = "r_stop"
  /\ TXCOMP
  /\ Return
  /\ ReadStatus
  /\ rx' = AppendedAll(rx, packet)
  /\ stored' = stored \o packet
  /\ overrun' = (overrun \/ rx.size + Len(packet) > Slots)
  /\ UNCHANGED <<tx, txAddress, written, meant, taken, got, abandoned, late,
                 bus, target, addressed, stop, thr, shift, rhr>>

-----------------------------------------------------------------------------

Call == Begin \/ BeginTransmission \/ Write \/ Read \/ EndTransmission \/ RequestFrom

Loop ==
  \/ GiveUp
  \/ PollSend \/ PutByte \/ PollLast \/ SendStop \/ SendComplete
  \/ PollRead \/ ReadStop \/ TakeByte \/ ReadComplete

Next ==
  \/ Call
  \/ Loop
  \/ Bus /\ UNCHANGED <<pc, rings, txAddress, local, history>>

Spec == Init /\ [][Next]_vars

\* The program runs; of the slaves nothing is assumed.
FairSpec == Spec /\ WF_vars(Loop)

-----------------------------------------------------------------------------
\* Properties

\* requestFrom collects what its slave sends during the call, in order, and no
\* byte that an earlier one left behind.
OwnBytes ==
  pc \in Reading /\ ~late => packet = [k \in 1 .. Len(packet) |-> first + k]

\* Unless requestFrom was called with too little room left, read returns the
\* bytes of the requests in order: the counter of 8 bits and the 128 cells do
\* what the limit of 512, which the counter never reaches, does not.
ReadsInOrder ==
  ~overrun => /\ FromHead(rx) = SubSeq(stored, taken + 1, Len(stored))
              /\ taken > 0 => got = stored[taken]

\* A slave accepts only bytes that were meant for it, each once and in order,
\* unless a transmission was abandoned, or a time-out or a byte written on top
\* of a refusal left the bus occupied.
OnlyToItsSlave ==
  pc \in Writing /\ ~late /\ ~abandoned =>
    \A j \in 1 .. Len(delivered) : delivered[j] = <<meant[packet[j]], packet[j]>>

\* When endTransmission succeeds, the slave has accepted all bytes but perhaps
\* the last one: whether it accepted that one is never looked at.
AcceptedButLast ==
  pc = "w_stop" /\ TXCOMP /\ ~late => Len(delivered) >= Len(packet) - 1

\* Whatever the slaves do, a call returns or waits for a STOP to complete: the
\* time-outs cover everything else.
StuckOnlyAtStop == pc # "idle" ~> pc \in {"idle", "w_stop", "r_stop"}

\* On a bus that moves, every call returns.
CallsReturn ==
  WF_vars(Bus /\ UNCHANGED <<pc, rings, txAddress, local, history>>)
    => (pc # "idle" ~> pc = "idle")

=============================================================================
