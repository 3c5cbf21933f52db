---------------------------- MODULE UsbSerialTx ----------------------------
(***************************************************************************)
(* The transmit path of Serial, the port on USB: write hands its bytes to  *)
(* putc of the CDC interface (udi_cdc.c), which fills one of two buffers   *)
(* while the endpoint sends the other.  A transfer starts from the start   *)
(* of frame interrupt, from the end of the transfer before it, or when the *)
(* host opens the interface.                                               *)
(*                                                                         *)
(* The foreground is in steps, with what cpu_irq_save protects in one; the *)
(* USB interrupt is one step and comes between any two of them.  The tx    *)
(* ring of usb_serial is left out: write appends to it only when it holds  *)
(* something already, so it stays empty.  So is the 9 bit mode of putc.    *)
(***************************************************************************)
EXTENDS Integers, Sequences

CONSTANTS
  BufSize,      \* UDI_CDC_TX_BUFFERS, 64: conf_usb.h defines UDI_CDC_LOW_RATE
  NumFrames,    \* frame numbers have 11 bits: 2048
  ZlpLimit,     \* 100, the SOFs after which an empty packet is sent
  MaxWritten,   \* bound on the bytes the program writes
  MaxOpened     \* bound on how often the host opens the interface

ASSUME UsbTxAssumption ==
  /\ BufSize \in Nat \ {0}
  /\ NumFrames \in Nat \ {0, 1}
  /\ ZlpLimit \in Nat \ {0}
  /\ MaxWritten \in Nat
  /\ MaxOpened \in Nat

VARIABLES
  pc,         \* where the foreground is; "idle" between two calls of write
  left,       \* the bytes this call of write still has to hand over
  buf,        \* the bytes of the CDC buffers, tx_buf_nb[b] = Len(buf[b])
  sel,        \* udi_cdc_tx_buf_sel: the buffer putc fills
  both,       \* udi_cdc_tx_both_buf_to_send
  ongoing,    \* udi_cdc_tx_trans_ongoing: buf[Other] is with the endpoint
  running,    \* udi_cdc_data_running
  sof,        \* udi_cdc_tx_sof_num
  zlp,        \* sof_zlp_counter
  frame,      \* the frame number of the controller
  wire,       \* the bytes the host took since it opened the interface
  written,    \* history: bytes 1 .. written were handed over, or given up
  taken,      \* history: those of them since the host opened the interface
  waited,     \* history: SOFs that passed over a byte of either buffer while
              \*   nothing was sent, up to 2; Store ends Choosing and counts anew
  opened      \* history: how often the host opened the interface

foreground == <<pc, left>>
cdc == <<buf, sel, both, ongoing, sof, zlp>>
history == <<written, taken, waited, opened>>
vars == <<foreground, cdc, running, frame, wire, history>>

Other == 1 - sel

TypeOK ==
  /\ pc \in {"idle", "check", "full", "store"}
  /\ left \in Nat
  /\ buf \in [0 .. 1 -> Seq(Nat)]
  /\ \A b \in 0 .. 1 : Len(buf[b]) <= BufSize
  /\ sel \in 0 .. 1
  /\ both \in BOOLEAN
  /\ ongoing \in BOOLEAN
  /\ running \in BOOLEAN
  /\ sof \in 0 .. NumFrames - 1
  /\ zlp \in 0 .. ZlpLimit - 1
  /\ frame \in 0 .. NumFrames - 1
  /\ wire \in Seq(Nat)
  /\ written \in Nat
  /\ taken \in Seq(Nat)
  /\ waited \in 0 .. 2
  /\ opened \in Nat

Empty == [b \in 0 .. 1 |-> <<>>]

\* After reset, before the host has opened the interface.
Init ==
  /\ pc = "idle"
  /\ left = 0
  /\ buf = Empty
  /\ sel = 0
  /\ both = FALSE
  /\ ongoing = FALSE
  /\ running = FALSE
  /\ sof = 0
  /\ zlp = 0
  /\ frame \in 0 .. NumFrames - 1
  /\ wire = <<>>
  /\ written = 0
  /\ taken = <<>>
  /\ waited = 0
  /\ opened = 0

-----------------------------------------------------------------------------
\* udi_cdc_tx_send, from a state in which no transfer is under way: b, s, two
\* and at are the buffers, the selection, both and sof at the call.

FaultySends(b, s, at) ==
  at # frame' /\ (Len(b[s]) = BufSize \/ zlp + 1 >= ZlpLimit)

\* No transfer starts in a frame that carried a short packet already, nor with
\* nothing to send, except that every ZlpLimit-th time an empty packet goes.
Sends(b, s, at) == at # frame' /\ (b[s] # <<>> \/ zlp + 1 >= ZlpLimit)

FaultySelAfter(s, two) == 1 - s

\* When both buffers wait, the other one is the older.
SelAfter(s, two) == IF two THEN s ELSE 1 - s

\* A full packet lets the next one follow in the same frame: 0 stands for
\* "none", but is also a frame number.
SofAfter(b, s, two) ==
  IF Len(b[1 - SelAfter(s, two)]) = BufSize THEN 0 ELSE frame'

TxSend(b, s, two, at) ==
  /\ buf' = b
  /\ both' = two
  /\ IF Sends(b, s, at)
     THEN /\ ongoing' = TRUE
          /\ sel' = SelAfter(s, two)
          /\ sof' = SofAfter(b, s, two)
          /\ zlp' = 0
     ELSE /\ ongoing' = FALSE
          /\ sel' = s
          /\ sof' = at
          /\ zlp' = IF at = frame' THEN zlp ELSE zlp + 1

-----------------------------------------------------------------------------
\* The USB interrupt

NextFrame == IF frame = NumFrames - 1 THEN 0 ELSE frame + 1

\* putc has moved to the other buffer and not stored its byte there yet: tx_send
\* finds nothing in it and leaves the full one behind it where it is.
Choosing == pc = "store" /\ both /\ buf[sel] = <<>>

\* udi_cdc_data_sof_notify: a new frame begins.
Sof ==
  /\ running
  /\ frame' = NextFrame
  /\ IF ongoing THEN UNCHANGED cdc ELSE TxSend(buf, sel, both, sof)
  /\ waited' = IF ongoing' \/ buf = Empty THEN 0 ELSE IF waited = 0 THEN 1 ELSE 2
  /\ UNCHANGED <<foreground, running, wire, written, taken, opened>>

FaultyDataSent ==
  /\ running
  /\ ongoing
  /\ wire' = wire \o buf[Other]
  /\ frame' = frame
  /\ TxSend([buf EXCEPT ![sel] = <<>>], sel, FALSE, sof)
  /\ UNCHANGED <<foreground, running, history>>

\* udi_cdc_data_sent: the host took the packet.
DataSent ==
  /\ running
  /\ ongoing
  /\ wire' = wire \o buf[Other]
  /\ frame' = frame
  /\ TxSend([buf EXCEPT ![Other] = <<>>], sel, FALSE, sof)
  /\ UNCHANGED <<foreground, running, history>>

\* udi_cdc_data_disable: a bus reset.  The endpoint is freed before, and the
\* callback of an aborted transfer changes nothing.
Disable ==
  /\ running
  /\ running' = FALSE
  /\ UNCHANGED <<foreground, cdc, frame, wire, history>>

\* udi_cdc_data_enable forgets what both buffers held, and sof_zlp_counter not.
Enable ==
  /\ ~running
  /\ opened < MaxOpened
  /\ opened' = opened + 1
  /\ running' = TRUE
  /\ frame' \in 0 .. NumFrames - 1
  /\ TxSend(Empty, 0, FALSE, 0)
  /\ wire' = <<>>
  /\ taken' = <<>>
  /\ waited' = 0
  /\ UNCHANGED <<foreground, written>>

-----------------------------------------------------------------------------
\* write(), and udi_cdc_putc of each byte

CallWrite ==
  /\ pc = "idle"
  /\ \E n \in 1 .. MaxWritten - written : left' = n
  /\ pc' = "check"
  /\ UNCHANGED <<cdc, running, frame, wire, history>>

Goto(from, to) == pc = from /\ pc' = to

\* write goes on to its next byte, whatever putc returned of this one.
NextByte ==
  /\ written' = written + 1
  /\ taken' = Append(taken, written + 1)
  /\ left' = left - 1
  /\ pc' = IF left = 1 THEN "idle" ELSE "check"
  /\ UNCHANGED <<running, frame, wire, opened>>

\* The other buffer is neither with the endpoint nor full.
OtherFree == ~ongoing /\ ~both

\* udi_cdc_multi_get_free_tx_buffer: is there room, in the buffer that is being
\* filled or, when it is full, in the other one?
CheckRoom ==
  /\ Goto("check", "store")
  /\ Len(buf[sel]) < BufSize
  /\ UNCHANGED <<left, cdc, running, frame, wire, history>>

CheckOther ==
  /\ Goto("check", "store")
  /\ Len(buf[sel]) = BufSize
  /\ OtherFree
  /\ both' = TRUE
  /\ sel' = Other
  /\ UNCHANGED <<left, buf, ongoing, sof, zlp, running, frame, wire, history>>

CheckFull ==
  /\ Goto("check", "full")
  /\ Len(buf[sel]) = BufSize
  /\ ~OtherFree
  /\ UNCHANGED <<left, cdc, running, frame, wire, history>>

FaultyRetry ==
  /\ Goto("full", "check")
  /\ UNCHANGED <<left, cdc, running, frame, wire, history>>

\* putc tries again while the host has the interface open.
Retry ==
  /\ pc = "full"
  /\ IF running
     THEN /\ pc' = "check"
          /\ UNCHANGED <<left, running, frame, wire, history>>
     ELSE NextByte /\ UNCHANGED waited
  /\ UNCHANGED cdc

\* By now the interrupt may have swapped the buffers again.
Store ==
  /\ pc = "store"
  /\ buf' = [buf EXCEPT ![sel] = Append(@, written + 1)]
  /\ NextByte
  /\ waited' = IF Choosing THEN 0 ELSE waited
  /\ UNCHANGED <<sel, both, ongoing, sof, zlp>>

-----------------------------------------------------------------------------

Foreground == CheckRoom \/ CheckOther \/ CheckFull \/ Retry \/ Store

Next == CallWrite \/ Foreground \/ Sof \/ DataSent \/ Disable \/ Enable

Spec == Init /\ [][Next]_vars

\* The program runs, frames follow one another, and a host that has the
\* interface open reads it.
FairSpec == Spec /\ WF_vars(Foreground) /\ WF_vars(Sof) /\ WF_vars(DataSent)

-----------------------------------------------------------------------------
\* Properties

\* Since the host opened the interface, what it took and what the two buffers
\* hold is what write was given, each byte once and in order: both buffers are
\* swapped from the program and from the interrupt, and agree on the older one.
NothingLost == running => wire \o buf[Other] \o buf[sel] = taken

\* A byte is not stored behind a full buffer: room that putc saw is still there
\* after any interrupt.
RoomStays == pc = "store" => Len(buf[sel]) < BufSize

\* While nothing is sent a byte of either buffer goes with the next start of frame
\* or, when the number of a past frame comes up again, with the one after it.
\* Only from the moment putc has moved on from a full buffer to that of its next
\* store is the full one passed over, however many frames begin meanwhile.
SentPromptly == waited <= 1 \/ Choosing

\* Whatever write was given while the host has the interface open arrives.
AllSent ==
  \A k \in 1 .. MaxWritten :
    (\E j \in 1 .. Len(taken) : taken[j] = k)
      ~> (~running \/ \E j \in 1 .. Len(wire) : wire[j] = k)

\* write returns, also when the host goes away while putc waits for room.
CallsReturn == pc # "idle" ~> pc = "idle"

=============================================================================
