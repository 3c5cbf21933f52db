------------------------- MODULE UsbSerialTx_proofs -------------------------
(***************************************************************************)
(* Theorems about UsbSerialTx, for buffers of every size, any number of    *)
(* frames, bytes and times the host opens the interface.                   *)
(***************************************************************************)
EXTENDS UsbSerialTx, TLAPS, SequenceTheorems

Buffers == [0 .. 1 -> Seq(Nat)]
Frames == 0 .. NumFrames - 1

-----------------------------------------------------------------------------
\* The inductive invariant

\* A write under way has bytes left.
LeftOver == pc # "idle" => left > 0

\* Only a transfer, or the choice of putc to fill it, leaves bytes in the
\* buffer that is not selected.
OtherEmpty == ~ongoing /\ ~both => buf[Other] = <<>>

\* putc moves to an empty buffer only to store into it.
Chosen == ~ongoing /\ both /\ buf[sel] = <<>> => pc = "store"

\* A byte is passed over only in the frame a short packet went in, or before
\* putc stores into the other buffer.
PassedOver == waited = 0 \/ (~ongoing /\ (Choosing \/ (waited = 1 /\ sof = frame)))

IInv == TypeOK /\ LeftOver /\ OtherEmpty /\ RoomStays /\ Chosen /\ PassedOver /\ NothingLost

LEMMA InitInv == Init => IInv
<1> SUFFICES ASSUME Init PROVE IInv
  OBVIOUS
<1>1. <<>> \in Seq(Nat) /\ Len(<<>>) = 0
  BY EmptySeq
<1>2. buf \in Buffers /\ \A b \in 0 .. 1 : buf[b] = <<>>
  BY <1>1 DEF Init, Empty, Buffers
<1>3. TypeOK
  <2>1. /\ wire \in Seq(Nat)
        /\ taken \in Seq(Nat)
        /\ \A b \in 0 .. 1 : Len(buf[b]) <= BufSize
    BY <1>1, <1>2, UsbTxAssumption DEF Init
  <2>2. /\ pc \in {"idle", "check", "full", "store"}
        /\ {left, written, opened} \subseteq Nat
        /\ sel \in 0 .. 1
        /\ waited \in 0 .. 2
    BY DEF Init
  <2>3. both \in BOOLEAN /\ ongoing \in BOOLEAN /\ running \in BOOLEAN
    BY DEF Init
  <2>4. {sof, frame} \subseteq Frames /\ zlp \in 0 .. ZlpLimit - 1
    BY UsbTxAssumption DEF Init, Frames
  <2> QED
    BY <1>2, <2>1, <2>2, <2>3, <2>4 DEF TypeOK, Buffers, Frames
<1>4. OtherEmpty
  BY <1>2 DEF OtherEmpty, Other, Init
<1> QED
  BY <1>3, <1>4 DEF IInv, LeftOver, RoomStays, Chosen, PassedOver, NothingLost, Init

-----------------------------------------------------------------------------
\* What udi_cdc_tx_send keeps, wherever it is called from.

LEMMA TxSendType ==
  ASSUME NEW b \in Buffers, NEW s \in 0 .. 1, NEW two \in BOOLEAN, NEW at \in Frames,
         zlp \in 0 .. ZlpLimit - 1, frame' \in Frames,
         \A k \in 0 .. 1 : Len(b[k]) <= BufSize,
         TxSend(b, s, two, at)
  PROVE  /\ buf' \in Buffers
         /\ \A k \in 0 .. 1 : Len(buf'[k]) <= BufSize
         /\ sel' \in 0 .. 1
         /\ both' \in BOOLEAN
         /\ ongoing' \in BOOLEAN
         /\ sof' \in Frames
         /\ zlp' \in 0 .. ZlpLimit - 1
<1>1. buf' = b /\ both' = two
  BY DEF TxSend
<1>2. CASE Sends(b, s, at)
  <2>1. SofAfter(b, s, two) \in Frames
    BY UsbTxAssumption DEF SofAfter, Frames
  <2>2. SelAfter(s, two) \in 0 .. 1
    BY DEF SelAfter
  <2> QED
    BY <1>1, <1>2, <2>1, <2>2, UsbTxAssumption DEF TxSend
<1>3. CASE ~ Sends(b, s, at)
  <2>1. sel' = s /\ sof' = at /\ ongoing' = FALSE
    BY <1>3 DEF TxSend
  <2>2. zlp' \in 0 .. ZlpLimit - 1
    <3>1. CASE at = frame'
      BY <1>3, <3>1 DEF TxSend
    <3>2. CASE at # frame'
      <4>1. zlp + 1 < ZlpLimit
        BY <1>3, <3>2, UsbTxAssumption DEF Sends
      <4> QED
        BY <1>3, <3>2, <4>1, UsbTxAssumption DEF TxSend
    <3> QED
      BY <3>1, <3>2
  <2> QED
    BY <1>1, <2>1, <2>2
<1> QED
  BY <1>2, <1>3

LEMMA ThreeInARow ==
  ASSUME NEW w \in Seq(Nat), NEW x \in Seq(Nat), NEW y \in Seq(Nat)
  PROVE  (w \o x) \o y = w \o (x \o y)
BY ConcatAssociative, SMTT(30)

LEMMA Regroup ==
  ASSUME NEW b \in Buffers, NEW s \in 0 .. 1, NEW w \in Seq(Nat)
  PROVE  w \o b[1 - s] \o b[s] = w \o (b[1 - s] \o b[s])
<1>1. b[1 - s] \in Seq(Nat) /\ b[s] \in Seq(Nat)
  BY DEF Buffers
<1> QED
  BY <1>1, ThreeInARow

\* If the unselected buffer is empty unless both wait, the bytes that wait are
\* the same afterwards and in the same order, and room that was there still is.
LEMMA TxSendKeeps ==
  ASSUME NEW b \in Buffers, NEW s \in 0 .. 1, NEW two \in BOOLEAN, NEW at,
         ~two => b[1 - s] = <<>>,
         TxSend(b, s, two, at)
  PROVE  /\ buf'[1 - sel'] \o buf'[sel'] = b[1 - s] \o b[s]
         /\ ~ongoing' /\ ~both' => buf'[1 - sel'] = <<>>
         /\ Len(b[s]) < BufSize => Len(buf'[sel']) < BufSize
<1>1. buf' = b /\ both' = two
  BY DEF TxSend
<1>2. CASE sel' = s
  <2>1. ~ongoing' /\ ~both' => b[1 - s] = <<>>
    BY <1>1
  <2> QED
    BY <1>1, <1>2, <2>1
<1>3. CASE sel' # s
  <2>1. sel' = 1 - s /\ ~two /\ ongoing'
    BY <1>3 DEF TxSend, SelAfter
  <2>2. 1 - (1 - s) = s
    OBVIOUS
  <2>3. b[1 - s] = <<>> /\ b[s] \in Seq(Nat)
    BY <2>1 DEF Buffers
  <2>4. b[1 - s] \o b[s] = b[s] /\ b[s] \o b[1 - s] = b[s]
    BY <2>3, ConcatEmptySeq
  <2>5. Len(buf'[sel']) = 0
    BY <1>1, <2>1, <2>3
  <2>6. buf'[1 - sel'] \o buf'[sel'] = b[s] \o b[1 - s]
    BY <1>1, <2>1, <2>2
  <2> QED
    BY <2>1, <2>4, <2>5, <2>6, UsbTxAssumption
<1> QED
  BY <1>2, <1>3

-----------------------------------------------------------------------------
\* Every step keeps the invariant.

LEMMA SofInv ==
  ASSUME IInv, Sof
  PROVE  IInv'
<1> USE DEF IInv
<1>1. /\ frame' \in Frames
      /\ frame' # frame
  BY UsbTxAssumption DEF Sof, TypeOK, Frames, NextFrame
<1>2. /\ UNCHANGED <<pc, left, running, wire, written, taken, opened>>
      /\ waited' \in 0 .. 2
  BY DEF Sof, foreground, TypeOK
<1>3. CASE ongoing
  <2>1. UNCHANGED <<buf, sel, both, ongoing, sof, zlp>> /\ waited' = 0
    <3>1. UNCHANGED <<buf, sel, both, ongoing, sof, zlp>>
      BY <1>3, Zenon DEF Sof, cdc
    <3> QED
      BY <1>3, <3>1, Zenon DEF Sof
  <2> QED
    BY <1>1, <1>2, <2>1
       DEF TypeOK, LeftOver, OtherEmpty, RoomStays, Chosen, PassedOver, Choosing, NothingLost, Other, Frames
<1>4. CASE ~ongoing
  <2>1. TxSend(buf, sel, both, sof)
    BY <1>4 DEF Sof
  <2>2. buf \in Buffers /\ sof \in Frames
    BY DEF TypeOK, Buffers, Frames
  <2>3. TypeOK'
    <3>1. /\ buf' \in Buffers
          /\ \A k \in 0 .. 1 : Len(buf'[k]) <= BufSize
          /\ sel' \in 0 .. 1
          /\ both' \in BOOLEAN
          /\ ongoing' \in BOOLEAN
          /\ sof' \in Frames
          /\ zlp' \in 0 .. ZlpLimit - 1
      BY <1>1, <2>1, <2>2, TxSendType DEF TypeOK
    <3> QED
      BY <1>1, <1>2, <3>1 DEF TypeOK, Buffers, Frames
  <2>4. /\ buf'[1 - sel'] \o buf'[sel'] = buf[1 - sel] \o buf[sel]
        /\ OtherEmpty'
        /\ RoomStays'
    <3>1. ~both => buf[1 - sel] = <<>>
      BY <1>4 DEF OtherEmpty, Other
    <3> QED
      BY <1>2, <2>1, <2>2, <3>1, TxSendKeeps DEF TypeOK, OtherEmpty, RoomStays, Other
  <2>5. NothingLost'
    <3>1. /\ buf \in Buffers /\ sel \in 0 .. 1 /\ wire \in Seq(Nat)
          /\ buf' \in Buffers /\ sel' \in 0 .. 1
      BY <2>3 DEF TypeOK, Buffers
    <3>2. /\ wire \o buf[1 - sel] \o buf[sel] = wire \o (buf[1 - sel] \o buf[sel])
          /\ wire \o buf'[1 - sel'] \o buf'[sel'] = wire \o (buf'[1 - sel'] \o buf'[sel'])
      BY <3>1, Regroup
    <3> QED
      BY <1>2, <2>4, <3>2 DEF NothingLost, Other
  <2>6. PassedOver'
    <3>1. CASE ongoing' \/ buf = Empty
      BY <3>1, Zenon DEF Sof, PassedOver
    <3>2. CASE ~ongoing' /\ buf # Empty
      <4>1. UNCHANGED <<buf, sel, both>>
        BY <2>1, <3>2 DEF TxSend
      <4>2. CASE buf[sel] = <<>>
        <5>1. buf[Other] # <<>>
          BY <3>2, <4>2 DEF TypeOK, Empty, Other
        <5>2. Choosing
          BY <1>4, <4>2, <5>1 DEF OtherEmpty, Chosen, Choosing
        <5> QED
          BY <1>2, <3>2, <4>1, <5>2 DEF PassedOver, Choosing
      <4>3. CASE buf[sel] # <<>>
        <5>1. sof' = sof /\ sof = frame'
          BY <2>1, <3>2, <4>3 DEF TxSend, Sends
        <5>2. waited = 0
          BY <1>1, <4>3, <5>1 DEF PassedOver, Choosing
        <5>3. waited' = 1
          BY <3>2, <5>2 DEF Sof
        <5> QED
          BY <3>2, <5>1, <5>3 DEF PassedOver
      <4> QED
        BY <4>2, <4>3
    <3> QED
      BY <3>1, <3>2
  <2>7. Chosen'
    BY <1>2, <1>4, <2>1 DEF TxSend, Chosen
  <2> QED
    BY <1>2, <2>3, <2>4, <2>5, <2>6, <2>7 DEF LeftOver
<1> QED
  BY <1>3, <1>4

LEMMA DataSentInv ==
  ASSUME IInv, DataSent
  PROVE  IInv'
<1> USE DEF IInv
<1> DEFINE b == [buf EXCEPT ![Other] = <<>>]
<1>1. /\ UNCHANGED <<pc, left, running, written, taken, waited, opened, frame>>
      /\ wire' = wire \o buf[Other]
      /\ TxSend(b, sel, FALSE, sof)
      /\ ongoing
  BY DEF DataSent, foreground, history
<1>2. /\ buf \in Buffers
      /\ buf[Other] \in Seq(Nat) /\ buf[sel] \in Seq(Nat) /\ wire \in Seq(Nat)
      /\ Other \in 0 .. 1 /\ Other # sel
  BY DEF TypeOK, Other, Buffers
<1>3. /\ b \in Buffers
      /\ b[1 - sel] = <<>>
      /\ b[sel] = buf[sel]
      /\ \A k \in 0 .. 1 : Len(b[k]) <= BufSize
  <2>1. <<>> \in Seq(Nat) /\ Len(<<>>) = 0
    BY EmptySeq
  <2>2. b \in Buffers /\ b[1 - sel] = <<>> /\ b[sel] = buf[sel]
    BY <1>2, <2>1 DEF Buffers, Other
  <2>3. ASSUME NEW k \in 0 .. 1
        PROVE  Len(b[k]) <= BufSize
    <3>1. k = sel \/ k = 1 - sel
      BY DEF TypeOK
    <3> QED
      BY <2>1, <2>2, <3>1, UsbTxAssumption DEF TypeOK
  <2> QED
    BY <2>2, <2>3
<1> HIDE DEF b
<1>4. TypeOK'
  <2>1. /\ buf' \in Buffers
        /\ \A k \in 0 .. 1 : Len(buf'[k]) <= BufSize
        /\ sel' \in 0 .. 1
        /\ both' \in BOOLEAN
        /\ ongoing' \in BOOLEAN
        /\ sof' \in Frames
        /\ zlp' \in 0 .. ZlpLimit - 1
    <3>1. sof \in Frames /\ frame' \in Frames /\ sel \in 0 .. 1 /\ zlp \in 0 .. ZlpLimit - 1
      BY <1>1 DEF TypeOK, Frames
    <3> QED
      BY <1>1, <1>3, <3>1, TxSendType
  <2>2. wire' \in Seq(Nat)
    BY <1>1, <1>2, ConcatProperties
  <2> QED
    BY <1>1, <2>1, <2>2 DEF TypeOK, Buffers, Frames
<1>5. /\ buf'[1 - sel'] \o buf'[sel'] = b[1 - sel] \o b[sel]
      /\ OtherEmpty'
      /\ RoomStays'
  <2>1. sel \in 0 .. 1
    BY DEF TypeOK
  <2>2. /\ buf'[1 - sel'] \o buf'[sel'] = b[1 - sel] \o b[sel]
        /\ ~ongoing' /\ ~both' => buf'[1 - sel'] = <<>>
        /\ Len(b[sel]) < BufSize => Len(buf'[sel']) < BufSize
    BY <1>1, <1>3, <2>1, TxSendKeeps
  <2> QED
    BY <1>1, <1>3, <2>2 DEF OtherEmpty, RoomStays, Other
<1>6. NothingLost'
  <2>1. b[1 - sel] \o b[sel] = buf[sel]
    BY <1>2, <1>3, ConcatEmptySeq
  <2>2. buf' \in Buffers /\ sel' \in 0 .. 1 /\ wire' \in Seq(Nat)
    BY <1>4 DEF TypeOK, Buffers
  <2>3. wire' \o buf'[1 - sel'] \o buf'[sel'] = wire' \o (buf'[1 - sel'] \o buf'[sel'])
    BY <2>2, Regroup
  <2> QED
    BY <1>1, <1>5, <2>1, <2>3 DEF NothingLost, Other
<1>7. PassedOver'
  BY <1>1 DEF PassedOver
<1>8. Chosen'
  BY <1>1 DEF TxSend, Chosen
<1> QED
  BY <1>1, <1>4, <1>5, <1>6, <1>7, <1>8 DEF LeftOver

LEMMA EnableInv ==
  ASSUME IInv, Enable
  PROVE  IInv'
<1> USE DEF IInv
<1>0. opened' \in Nat
  BY DEF Enable, TypeOK
<1>1. /\ UNCHANGED <<pc, left, written>>
      /\ running' = TRUE /\ waited' = 0
      /\ wire' = <<>> /\ taken' = <<>>
      /\ frame' \in Frames
      /\ TxSend(Empty, 0, FALSE, 0)
  BY Zenon DEF Enable, foreground, Frames
<1>2. <<>> \in Seq(Nat) /\ Len(<<>>) = 0
  BY EmptySeq
<1>3. /\ Empty \in Buffers
      /\ Empty[0] = <<>> /\ Empty[1] = <<>> /\ Empty[1 - 0] = <<>>
      /\ \A k \in 0 .. 1 : Len(Empty[k]) <= BufSize
      /\ 0 \in 0 .. 1 /\ FALSE \in BOOLEAN
  BY <1>2, UsbTxAssumption DEF Empty, Buffers
<1>4. TypeOK'
  <2>1. /\ buf' \in Buffers
        /\ \A k \in 0 .. 1 : Len(buf'[k]) <= BufSize
        /\ sel' \in 0 .. 1
        /\ both' \in BOOLEAN
        /\ ongoing' \in BOOLEAN
        /\ sof' \in Frames
        /\ zlp' \in 0 .. ZlpLimit - 1
    <3>1. 0 \in Frames /\ zlp \in 0 .. ZlpLimit - 1
      BY UsbTxAssumption DEF TypeOK, Frames
    <3> QED
      BY <1>1, <1>3, <3>1, TxSendType, Zenon
  <2> QED
    BY <1>0, <1>1, <1>2, <2>1 DEF TypeOK, Buffers, Frames
<1>5. /\ buf'[Other'] \o buf'[sel'] = <<>>
      /\ OtherEmpty'
      /\ RoomStays'
  <2>1. /\ buf'[1 - sel'] \o buf'[sel'] = Empty[1 - 0] \o Empty[0]
        /\ ~ongoing' /\ ~both' => buf'[1 - sel'] = <<>>
        /\ Len(Empty[0]) < BufSize => Len(buf'[sel']) < BufSize
    BY <1>1, <1>3, TxSendKeeps, Zenon
  <2>2. <<>> \o <<>> = <<>>
    BY <1>2, ConcatEmptySeq
  <2> QED
    BY <1>2, <1>3, <2>1, <2>2, UsbTxAssumption DEF OtherEmpty, RoomStays, Other
<1>6. NothingLost'
  <2>1. buf' \in Buffers /\ sel' \in 0 .. 1 /\ wire' \in Seq(Nat)
    BY <1>4 DEF TypeOK, Buffers
  <2>2. wire' \o buf'[1 - sel'] \o buf'[sel'] = wire' \o (buf'[1 - sel'] \o buf'[sel'])
    BY <2>1, Regroup
  <2>3. <<>> \o <<>> = <<>>
    BY <1>2, ConcatEmptySeq
  <2> QED
    BY <1>1, <1>5, <2>2, <2>3 DEF NothingLost, Other
<1>7. Chosen'
  BY <1>1 DEF TxSend, Chosen
<1> QED
  BY <1>1, <1>4, <1>5, <1>6, <1>7 DEF LeftOver, PassedOver

LEMMA CallInv ==
  ASSUME IInv, CallWrite \/ Disable
  PROVE  IInv'
<1> USE DEF IInv
<1>1. CASE CallWrite
  <2>1. UNCHANGED <<buf, sel, both, ongoing, sof, zlp, running, frame, wire,
                    written, taken, waited, opened>>
    BY <1>1 DEF CallWrite, cdc, history
  <2>2. pc = "idle" /\ pc' = "check" /\ left' \in Nat /\ left' > 0
    BY <1>1, UsbTxAssumption DEF CallWrite, TypeOK
  <2>3. Chosen' /\ PassedOver'
    BY <2>1, <2>2 DEF Chosen, PassedOver, Choosing
  <2> QED
    BY <2>1, <2>2, <2>3 DEF TypeOK, LeftOver, OtherEmpty, RoomStays, NothingLost, Other
<1>2. CASE Disable
  BY <1>2 DEF Disable, foreground, cdc, history,
              TypeOK, LeftOver, OtherEmpty, RoomStays, Chosen, PassedOver, Choosing, NothingLost, Other
<1> QED
  BY <1>1, <1>2

\* Going on to the next byte.
LEMMA NextByteType ==
  ASSUME TypeOK, LeftOver, pc # "idle", NextByte
  PROVE  /\ written' \in Nat
         /\ taken' = Append(taken, written + 1)
         /\ taken' \in Seq(Nat)
         /\ left' \in Nat
         /\ pc' \in {"idle", "check"}
         /\ LeftOver'
         /\ UNCHANGED <<running, frame, wire, opened>>
<1>1. written' \in Nat /\ taken' = Append(taken, written + 1)
  BY DEF NextByte, TypeOK
<1>2. taken' \in Seq(Nat)
  BY <1>1, AppendProperties DEF TypeOK
<1>3. left' \in Nat /\ pc' \in {"idle", "check"} /\ LeftOver'
  BY DEF NextByte, TypeOK, LeftOver
<1>4. UNCHANGED <<running, frame, wire, opened>>
  BY DEF NextByte
<1> QED
  BY <1>1, <1>2, <1>3, <1>4

LEMMA CheckInv ==
  ASSUME IInv, CheckRoom \/ CheckOther \/ CheckFull
  PROVE  IInv'
<1> USE DEF IInv
<1>1. CASE CheckRoom \/ CheckFull
  <2>1. UNCHANGED <<left, buf, sel, both, ongoing, sof, zlp, running, frame, wire,
                    written, taken, waited, opened>>
    BY <1>1, Zenon DEF CheckRoom, CheckFull, cdc, history
  <2>2. /\ pc = "check" /\ pc' \in {"store", "full"}
        /\ pc' = "store" => Len(buf[sel]) < BufSize
    BY <1>1 DEF CheckRoom, CheckFull, Goto
  <2>3. Chosen' /\ PassedOver'
    BY <2>1, <2>2 DEF Chosen, PassedOver, Choosing
  <2> QED
    BY <2>1, <2>2, <2>3 DEF TypeOK, LeftOver, OtherEmpty, RoomStays, NothingLost, Other
<1>2. CASE CheckOther
  <2>1. /\ UNCHANGED <<left, buf, ongoing, sof, zlp, running, frame, wire,
                       written, taken, waited, opened>>
        /\ pc = "check" /\ pc' = "store"
        /\ both' = TRUE /\ sel' = Other
        /\ buf[Other] = <<>> /\ ~ongoing
    BY <1>2, Zenon DEF CheckOther, Goto, OtherFree, OtherEmpty, history
  <2>2. /\ sel' \in 0 .. 1 /\ Other' = sel /\ sel \in 0 .. 1
        /\ buf[sel] \in Seq(Nat)
    BY <2>1 DEF Other, TypeOK
  <2>3. TypeOK' /\ LeftOver' /\ OtherEmpty'
    BY <2>1, <2>2 DEF TypeOK, LeftOver, OtherEmpty
  <2>6. Chosen' /\ PassedOver'
    BY <2>1 DEF Chosen, PassedOver, Choosing
  <2>4. RoomStays'
    BY <2>1, UsbTxAssumption DEF RoomStays
  <2>5. NothingLost'
    <3>1. wire \o buf[Other] = wire /\ (wire \o buf[sel]) \o buf[Other] = wire \o buf[sel]
      <4>1. wire \o buf[sel] \in Seq(Nat) /\ wire \in Seq(Nat)
        BY <2>2, ConcatProperties DEF TypeOK
      <4> QED
        BY <2>1, <4>1, ConcatEmptySeq
    <3> QED
      BY <2>1, <2>2, <3>1 DEF NothingLost
  <2> QED
    BY <2>3, <2>4, <2>5, <2>6
<1> QED
  BY <1>1, <1>2

LEMMA RetryInv ==
  ASSUME IInv, Retry
  PROVE  IInv'
<1> USE DEF IInv
<1>1. pc = "full" /\ UNCHANGED <<buf, sel, both, ongoing, sof, zlp>>
  BY DEF Retry, cdc
<1>2. CASE running
  <2>1. /\ UNCHANGED <<left, running, frame, wire, written, taken, waited, opened>>
        /\ pc' = "check"
    BY <1>2 DEF Retry, history
  <2>2. Chosen' /\ PassedOver'
    BY <1>1, <2>1 DEF Chosen, PassedOver, Choosing
  <2> QED
    BY <1>1, <2>1, <2>2 DEF TypeOK, LeftOver, OtherEmpty, RoomStays, NothingLost, Other
<1>3. CASE ~running
  <2>1. NextByte /\ waited' = waited
    BY <1>3 DEF Retry
  <2>2. /\ written' \in Nat
        /\ taken' \in Seq(Nat)
        /\ left' \in Nat
        /\ pc' \in {"idle", "check"}
        /\ LeftOver'
        /\ UNCHANGED <<running, frame, wire, opened>>
    BY <1>1, <2>1, NextByteType
  <2>3. TypeOK'
    BY <1>1, <2>1, <2>2 DEF TypeOK
  <2>4. Chosen' /\ PassedOver'
    BY <1>1, <2>1, <2>2 DEF Chosen, PassedOver, Choosing
  <2> QED
    BY <1>1, <1>3, <2>2, <2>3, <2>4 DEF OtherEmpty, RoomStays, NothingLost, Other
<1> QED
  BY <1>2, <1>3

LEMMA StoreInv ==
  ASSUME IInv, Store
  PROVE  IInv'
<1> USE DEF IInv
<1>1. /\ pc = "store" /\ NextByte
      /\ waited' = IF Choosing THEN 0 ELSE waited
      /\ UNCHANGED <<sel, both, ongoing, sof, zlp>>
      /\ buf' = [buf EXCEPT ![sel] = Append(@, written + 1)]
  BY DEF Store
<1>2. /\ written' \in Nat
      /\ taken' = Append(taken, written + 1)
      /\ taken' \in Seq(Nat)
      /\ left' \in Nat
      /\ pc' \in {"idle", "check"}
      /\ LeftOver'
      /\ UNCHANGED <<running, frame, wire, opened>>
  BY <1>1, NextByteType
<1>3. /\ sel \in 0 .. 1 /\ Other \in 0 .. 1 /\ Other # sel
      /\ buf[sel] \in Seq(Nat) /\ buf[Other] \in Seq(Nat)
      /\ Len(buf[sel]) < BufSize
      /\ written + 1 \in Nat /\ wire \in Seq(Nat)
  BY <1>1 DEF TypeOK, Other, RoomStays
<1>4. /\ buf'[sel] = Append(buf[sel], written + 1)
      /\ buf'[Other] = buf[Other]
      /\ \A b \in 0 .. 1 : b # sel => buf'[b] = buf[b]
  BY <1>1, <1>3 DEF TypeOK
<1>5. /\ Append(buf[sel], written + 1) \in Seq(Nat)
      /\ Len(Append(buf[sel], written + 1)) = Len(buf[sel]) + 1
  BY <1>3, AppendProperties
<1>6. TypeOK'
  <2>1. buf' \in Buffers
    BY <1>1, <1>5 DEF TypeOK, Buffers
  <2>2. ASSUME NEW b \in 0 .. 1
        PROVE  Len(buf'[b]) <= BufSize
    <3>1. CASE b = sel
      BY <1>3, <1>4, <1>5, <3>1, UsbTxAssumption
    <3>2. CASE b # sel
      BY <1>4, <3>2 DEF TypeOK
    <3> QED
      BY <3>1, <3>2
  <2> QED
    BY <1>1, <1>2, <2>1, <2>2 DEF TypeOK, Buffers
<1>7. OtherEmpty' /\ RoomStays' /\ Chosen' /\ PassedOver'
  <2>1. OtherEmpty' /\ RoomStays'
    BY <1>1, <1>2, <1>4 DEF OtherEmpty, RoomStays, Other
  <2>2. buf'[sel] # <<>>
    BY <1>4, <1>5, EmptySeq
  <2>3. Chosen'
    BY <1>1, <2>2 DEF Chosen
  <2>4. PassedOver'
    <3>1. CASE Choosing
      BY <1>1, <3>1 DEF PassedOver
    <3>2. CASE ~Choosing
      BY <1>1, <1>2, <3>2 DEF PassedOver
    <3> QED
      BY <3>1, <3>2
  <2> QED
    BY <2>1, <2>3, <2>4
<1>8. NothingLost'
  <2> DEFINE w == wire \o buf[Other]
  <2>1. w \in Seq(Nat)
    BY <1>3, ConcatProperties
  <2>2. w \o buf[sel] \in Seq(Nat)
    BY <1>3, <2>1, ConcatProperties
  <2>3. <<written + 1>> \in Seq(Nat)
    BY <1>3
  <2>4. w \o (buf[sel] \o <<written + 1>>) = (w \o buf[sel]) \o <<written + 1>>
    <3> HIDE DEF w
    <3> QED
      BY <1>3, <2>1, <2>3, ThreeInARow
  <2>5. /\ Append(buf[sel], written + 1) = buf[sel] \o <<written + 1>>
        /\ Append(w \o buf[sel], written + 1) = (w \o buf[sel]) \o <<written + 1>>
    <3> HIDE DEF w
    <3> QED
      BY <1>3, <2>2, AppendIsConcat
  <2>6. w \o buf'[sel] = Append(w \o buf[sel], written + 1)
    BY <1>4, <2>4, <2>5, Zenon
  <2>7. wire' \o buf'[Other'] \o buf'[sel'] = w \o buf'[sel]
    BY <1>1, <1>2, <1>4 DEF Other
  <2>8. running => w \o buf[sel] = taken
    BY DEF NothingLost
  <2> QED
    BY <1>2, <2>6, <2>7, <2>8 DEF NothingLost
<1> QED
  BY <1>2, <1>6, <1>7, <1>8

LEMMA NextInv == IInv /\ [Next]_vars => IInv'
<1> SUFFICES ASSUME IInv, [Next]_vars
             PROVE  IInv'
  OBVIOUS
<1>1. CASE CallWrite \/ Disable
  BY <1>1, CallInv
<1>2. CASE Foreground
  BY <1>2, CheckInv, RetryInv, StoreInv DEF Foreground
<1>3. CASE Sof
  BY <1>3, SofInv
<1>4. CASE DataSent
  BY <1>4, DataSentInv
<1>5. CASE Enable
  BY <1>5, EnableInv
<1>6. CASE UNCHANGED vars
  BY <1>6 DEF vars, foreground, cdc, history, IInv,
              TypeOK, LeftOver, OtherEmpty, RoomStays, Chosen, PassedOver, Choosing, NothingLost, Other
<1> QED
  BY <1>1, <1>2, <1>3, <1>4, <1>5, <1>6 DEF Next

-----------------------------------------------------------------------------
\* The theorems

\* The counters and indexes of the CDC interface stay in range: putc never
\* writes past the end of a buffer.
THEOREM UsbTxType == Spec => []TypeOK
<1>1. IInv => TypeOK
  BY DEF IInv
<1> QED
  BY <1>1, InitInv, NextInv, PTL DEF Spec

\* While the host has the interface open, what it took and what the buffers
\* hold is what write was given, whichever of program and interrupt swapped the
\* buffers, and putc finds the room it saw.
THEOREM UsbTxCorrect == Spec => [](NothingLost /\ RoomStays)
<1>1. IInv => NothingLost /\ RoomStays
  BY DEF IInv
<1> QED
  BY <1>1, InitInv, NextInv, PTL DEF Spec

\* A waiting byte is passed over by one start of frame at most.
THEOREM UsbTxPrompt == Spec => []SentPromptly
<1>1. IInv => SentPromptly
  BY DEF IInv, PassedOver, SentPromptly
<1> QED
  BY <1>1, InitInv, NextInv, PTL DEF Spec

=============================================================================
