----------------------------- MODULE SerialPort -----------------------------
(***************************************************************************)
(* What a serial port promises, without rings, masks or interrupts: bytes  *)
(* the program writes leave in the order they were written and none is     *)
(* lost; bytes that come in are read in order, and one is lost only by an  *)
(* overrun of the receive register or because RxCapacity bytes already     *)
(* wait.                                                                   *)
(***************************************************************************)
EXTENDS Integers, Sequences, SequencesExt

CONSTANTS TxCapacity, RxCapacity

VARIABLES
  accepted,   \* the program handed over bytes 1 .. accepted
  wire,       \* the bytes that left
  heard,      \* bytes 1 .. heard came in
  waiting,    \* those that can still be read, oldest first
  got         \* the last one that was read

vars == <<accepted, wire, heard, waiting, got>>

Init ==
  /\ accepted = 0
  /\ wire = <<>>
  /\ heard = 0
  /\ waiting = <<>>
  /\ got = 0

Accept ==
  /\ accepted - Len(wire) < TxCapacity
  /\ accepted' = accepted + 1
  /\ UNCHANGED <<wire, heard, waiting, got>>

Emit ==
  /\ Len(wire) < accepted
  /\ wire' = Append(wire, Len(wire) + 1)
  /\ UNCHANGED <<accepted, heard, waiting, got>>

Hear ==
  /\ Len(waiting) < RxCapacity
  /\ heard' = heard + 1
  /\ waiting' = Append(waiting, heard + 1)
  /\ UNCHANGED <<accepted, wire, got>>

\* The newest byte is overwritten by the one that comes in.
Overrun ==
  /\ waiting # <<>>
  /\ heard' = heard + 1
  /\ waiting' = Append(Front(waiting), heard + 1)
  /\ UNCHANGED <<accepted, wire, got>>

\* The newest byte finds everything full.
Drop ==
  /\ Len(waiting) = RxCapacity
  /\ waiting' = Front(waiting)
  /\ UNCHANGED <<accepted, wire, heard, got>>

Take ==
  /\ waiting # <<>>
  /\ got' = Head(waiting)
  /\ waiting' = Tail(waiting)
  /\ UNCHANGED <<accepted, wire, heard>>

Next == Accept \/ Emit \/ Hear \/ Overrun \/ Drop \/ Take

Spec == Init /\ [][Next]_vars

=============================================================================
