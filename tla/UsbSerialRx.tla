---------------------------- MODULE UsbSerialRx ----------------------------
(***************************************************************************)
(* The receive path of Serial, the port on USB: the host fills one of the  *)
(* two buffers of the CDC interface (udi_cdc.c) while the program reads    *)
(* the other; a notification moves bytes from there into the rx ring of    *)
(* usb_serial as far as they fit; read takes from the ring, or past it     *)
(* from the CDC buffer when the ring is empty.                             *)
(*                                                                         *)
(* The foreground is in steps, with what cpu_irq_save protects in one.     *)
(* The USB interrupt is one step and comes between any two of them while   *)
(* the endpoint runs.  rx_callback is one step also in the foreground: the *)
(* endpoint does not run then.  Left out are the 9 bit mode of getc and    *)
(* the host closing the interface.                                         *)
(***************************************************************************)
EXTENDS ByteRing

CONSTANTS
  BufSize,      \* UDI_CDC_RX_BUFFERS, 64: conf_usb.h defines UDI_CDC_LOW_RATE
  Polls,        \* the sketch calls read only after available said yes
  MaxSent       \* bound on the bytes the host sends

ASSUME UsbSerialAssumption ==
  /\ Limit = Slots                  \* both are USB_SERIAL_BUFFER_SIZE, 512
  /\ Slots < CountMod               \* in a uint16_t
  /\ BufSize \in 1 .. Slots
  /\ Polls \in BOOLEAN
  /\ MaxSent \in Nat

VARIABLES
  pc,         \* where the foreground is; "idle" between two calls of read
  rx,         \* the rx ring of usb_serial
  buf,        \* the bytes of the two CDC buffers, rx_buf_nb[b] = Len(buf[b])
  sel,        \* udi_cdc_rx_buf_sel: the buffer that is read
  pos,        \* udi_cdc_rx_pos
  ongoing,    \* udi_cdc_rx_trans_ongoing
  armed,      \* the endpoint receives into the other buffer
  at,         \* the local variable pos of getc
  byte,       \* the byte read is about to return
  sent,       \* bytes 1 .. sent came from the host
  returned,   \* history: what the reads returned
  overtaken   \* history: the interrupt filled the empty ring under a read

cdc == <<buf, sel, pos, ongoing, armed>>
local == <<at, byte>>
history == <<sent, returned, overtaken>>
vars == <<pc, rx, cdc, local, history>>

Other == 1 - sel

TypeOK ==
  /\ pc \in {"idle", "r_test", "r_head", "r_count", "r_ready",
             "g_check", "g_load", "g_store", "g_start", "g_notify", "g_run"}
  /\ rx \in Ring
  /\ \A b \in 0 .. 1 : Len(buf[b]) <= BufSize
  /\ sel \in 0 .. 1
  /\ pos \in 0 .. BufSize
  /\ ongoing \in BOOLEAN
  /\ armed \in BOOLEAN
  /\ at \in 0 .. BufSize
  /\ byte \in 0 .. sent
  /\ sent \in 0 .. MaxSent
  /\ overtaken \in BOOLEAN

\* The host opened the interface: udi_cdc_data_enable started a transfer into
\* buffer 0.
Init ==
  /\ pc = "idle"
  /\ rx = EmptyRing
  /\ buf = [b \in 0 .. 1 |-> <<>>]
  /\ sel = 1
  /\ pos = 0
  /\ ongoing = TRUE
  /\ armed = TRUE
  /\ at = 0
  /\ byte = NoByte
  /\ sent = 0
  /\ returned = <<>>
  /\ overtaken = FALSE

Goto(from, to) == pc = from /\ pc' = to

-----------------------------------------------------------------------------
\* What interrupt and foreground share

Ready == pos < Len(buf[sel])

FaultyMaySwap(going, p, b) == ~going

\* The early return of udi_cdc_rx_start: the current buffer is used up and no
\* transfer is under way.
MaySwap(going, p, b) == ~going /\ p >= Len(b[sel])

\* How many bytes of a fresh buffer rx_callback moves before the ring is full.
\* Its counter, meant to stop it after 32, is never incremented.
Fits(s) == IF Len(s) <= Limit - rx.size THEN Len(s) ELSE Limit - rx.size

\* rx_buffer_enqueue of every byte of s
Enqueued(s) == AppendedAll(rx, s)

\* udi_cdc_multi_is_rx_ready, UDI_CDC_RX_NOTIFY and rx_callback: the bytes of
\* a fresh buffer go into the ring.
Notify(s) ==
  /\ rx' = Enqueued(SubSeq(s, 1, Fits(s)))
  /\ pos' = Fits(s)

-----------------------------------------------------------------------------
\* udi_cdc_data_received, in the USB interrupt: n bytes came in.  A transfer
\* of 0 bytes just starts the next one.

Fresh(n) == [k \in 1 .. n |-> sent + k]

Received ==
  \E n \in 1 .. BufSize :
    LET filled == [buf EXCEPT ![Other] = Fresh(n)] IN
    /\ armed
    /\ sent + n <= MaxSent
    /\ sent' = sent + n
    /\ buf' = filled
    /\ IF MaySwap(FALSE, pos, filled)
       THEN /\ sel' = Other
            /\ Notify(Fresh(n))
            /\ overtaken' = (overtaken \/ (pc = "r_ready" /\ Fits(Fresh(n)) < n))
            /\ UNCHANGED <<ongoing, armed>>
       ELSE /\ ongoing' = FALSE
            /\ armed' = FALSE
            /\ UNCHANGED <<sel, pos, rx, overtaken>>
    /\ UNCHANGED <<pc, local, returned>>

-----------------------------------------------------------------------------
\* read() and, past the ring, udi_cdc_getc()

Look(from, to) == Goto(from, to) /\ UNCHANGED <<rx, cdc, local, history>>

Return(b) ==
  /\ returned' = Append(returned, b)
  /\ UNCHANGED <<sent, overtaken>>

CallRead == (Polls => rx.size > 0) /\ Look("idle", "r_test")

FaultyReadTest == Look("r_test", "r_ready")

ReadTest == Look("r_test", IF rx.size > 0 THEN "r_head" ELSE "r_ready")

\* rx_buffer_dequeue
ReadHead ==
  /\ Goto("r_head", "r_count")
  /\ byte' = First(rx)
  /\ rx' = AdvanceHead(rx)
  /\ UNCHANGED <<cdc, at, history>>

ReadCount ==
  /\ Goto("r_count", "idle")
  /\ rx' = CountDown(rx)
  /\ Return(byte)
  /\ UNCHANGED <<cdc, local>>

FaultyReadReady == Look("r_ready", "g_check")

\* Otherwise read returns -1.
ReadReady == Look("r_ready", IF Ready THEN "g_check" ELSE "idle")

\* getc loops until there is something.
GetCheck ==
  /\ Ready
  /\ Goto("g_check", "g_load")
  /\ at' = pos
  /\ UNCHANGED <<rx, cdc, byte, history>>

GetLoad ==
  /\ Goto("g_load", "g_store")
  /\ byte' = buf[sel][at + 1]
  /\ UNCHANGED <<rx, cdc, at, history>>

GetStore ==
  /\ Goto("g_store", "g_start")
  /\ pos' = at + 1
  /\ UNCHANGED <<rx, buf, sel, ongoing, armed, local, history>>

FaultyGetStart ==
  /\ Goto("g_start", "idle")
  /\ Return(byte)
  /\ UNCHANGED <<rx, cdc, local>>

\* udi_cdc_rx_start: the other buffer becomes the current one.
GetStart ==
  /\ pc = "g_start"
  /\ IF MaySwap(ongoing, pos, buf)
     THEN /\ pc' = "g_notify"
          /\ sel' = Other
          /\ pos' = 0
          /\ ongoing' = TRUE
          /\ UNCHANGED history
     ELSE /\ pc' = "idle"
          /\ Return(byte)
          /\ UNCHANGED <<sel, pos, ongoing>>
  /\ UNCHANGED <<rx, buf, armed, local>>

GetNotify ==
  /\ Goto("g_notify", "g_run")
  /\ Notify(buf[sel])
  /\ UNCHANGED <<buf, sel, ongoing, armed, local, history>>

\* udd_ep_run
GetRun ==
  /\ Goto("g_run", "idle")
  /\ armed' = TRUE
  /\ Return(byte)
  /\ UNCHANGED <<rx, buf, sel, pos, ongoing, local>>

-----------------------------------------------------------------------------

Foreground ==
  \/ ReadTest \/ ReadHead \/ ReadCount \/ ReadReady
  \/ GetCheck \/ GetLoad \/ GetStore \/ GetStart \/ GetNotify \/ GetRun

Next == CallRead \/ Foreground \/ Received

Spec == Init /\ [][Next]_vars

\* The program runs and the sketch keeps reading; the host sends or not.
FairSpec == Spec /\ WF_vars(Foreground) /\ WF_vars(CallRead)

-----------------------------------------------------------------------------
\* Properties

\* The byte getc took out of the CDC buffer and has not returned yet.
Hand == IF pc \in {"g_start", "g_notify", "g_run"} THEN <<byte>> ELSE <<>>

\* What waits: in the ring, in the rest of the current buffer, and in the
\* other one when its transfer is over.
Pending ==
  UpToTail(rx) \o SubSeq(buf[sel], pos + 1, Len(buf[sel]))
               \o (IF ongoing THEN <<>> ELSE buf[Other])

\* Every byte from the host is in exactly one place: the endpoint never fills
\* a buffer that is still read, however read, getc and the interrupt meet.
NothingLost ==
  LET all == returned \o Hand \o Pending IN
  Len(all) = sent /\ \A b \in 1 .. sent : \E k \in 1 .. Len(all) : all[k] = b

\* Reads return the bytes in order unless transfers filled the ring after read
\* had found it empty: then getc, which looks past the ring, is ahead of it.
ReadsInOrderUnlessOvertaken ==
  ~overtaken => returned = [k \in 1 .. Len(returned) |-> k]

\* read never hangs in getc: what is_rx_ready saw is still there.
GetcNeverWaits == pc = "g_check" => Ready

\* "so loop to eat all data for each call to ensure we catch all data": what
\* the host sent is read eventually by a sketch that keeps reading.
AllRead ==
  \A k \in 1 .. MaxSent : sent >= k ~> \E j \in 1 .. Len(returned) : returned[j] = k

=============================================================================
