------------------------------ MODULE ByteRing ------------------------------
(***************************************************************************)
(* The byte ring every serial port of the core keeps twice (rx and tx):    *)
(* an array, the index of the next byte to take (head), the index of the   *)
(* next byte to place (tail) and a separate byte counter (size).  The      *)
(* three fields are updated by different statements, so each statement has *)
(* an operator of its own; an interrupt service routine, which nothing     *)
(* interrupts, uses their composition.                                     *)
(*                                                                         *)
(*   Slots     cells of the array                                          *)
(*   Limit     the count at which the code calls the ring full             *)
(*   CountMod  2^(width of the size field): where the counter wraps        *)
(*                                                                         *)
(* The USART port has Slots = Limit = 512 and a 16 bit counter, the UART   *)
(* port 255 cells, a limit of 512 and an 8 bit counter.                    *)
(***************************************************************************)
EXTENDS Integers, Sequences

CONSTANTS Slots, Limit, CountMod

ASSUME RingAssumption ==
  /\ Slots \in Nat \ {0}
  /\ Limit \in Nat \ {0}
  /\ CountMod \in Nat \ {0}

Index == 0 .. Slots - 1

\* The value of a register or a cell that holds no byte yet; bytes are
\* numbered from 1 in the order they enter the port.
NoByte == 0

Ring == [buf : [Index -> Nat], head : Index, tail : Index, size : 0 .. CountMod - 1]

EmptyRing == [buf |-> [i \in Index |-> NoByte], head |-> 0, tail |-> 0, size |-> 0]

\* (Definitions named Faulty... are not the code: they are plausible mistakes
\* that the runs must be able to tell from it.)
FaultyAdvance(p) == p + 1

\* if(pointer == buffer_end) pointer = buffer; else pointer++;
Advance(p) == IF p = Slots - 1 THEN 0 ELSE p + 1

\* *tail = data
Store(r, b) == [r EXCEPT !.buf[r.tail] = b]

AdvanceTail(r) == [r EXCEPT !.tail = Advance(r.tail)]

AdvanceHead(r) == [r EXCEPT !.head = Advance(r.head)]

\* size++ and size-- with interrupts off, in the width of the field
CountUp(r) == [r EXCEPT !.size = IF r.size + 1 = CountMod THEN 0 ELSE r.size + 1]

CountDown(r) == [r EXCEPT !.size = IF r.size = 0 THEN CountMod - 1 ELSE r.size - 1]

FaultyHasRoom(r) == r.size < Limit - 1

HasRoom(r) == r.size < Limit

FaultyAppendedUnchecked(r, b) == CountUp(AdvanceTail(Store(r, b)))
FaultyAppendedOverwrite(r, b) ==
  IF HasRoom(r) THEN CountUp(AdvanceTail(Store(r, b))) ELSE AdvanceTail(Store(r, b))
FaultyAppendedDropOldest(r, b) ==
  IF HasRoom(r) THEN CountUp(AdvanceTail(Store(r, b))) ELSE AdvanceHead(AdvanceTail(Store(r, b)))

\* A whole append and a whole remove, as an interrupt service routine executes
\* them.
Appended(r, b) == IF HasRoom(r) THEN CountUp(AdvanceTail(Store(r, b))) ELSE r

\* An append of every byte of s, as the loops of the callbacks do.
AppendedAll(r, s) ==
  LET after[k \in 0 .. Len(s)] == IF k = 0 THEN r ELSE Appended(after[k - 1], s[k])
  IN  after[Len(s)]

FaultyRemoved(r) == IF r.size > 0 THEN CountDown(r) ELSE r

Removed(r) == IF r.size > 0 THEN CountDown(AdvanceHead(r)) ELSE r

First(r) == r.buf[r.head]

-----------------------------------------------------------------------------
\* What the fields mean.

\* The i-th cell (from 0) at or after index p, and the one i cells before it.
Ahead(p, i)  == IF p + i >= Slots THEN p + i - Slots ELSE p + i
Behind(p, i) == IF p - i < 0 THEN p - i + Slots ELSE p - i

\* The size bytes from head on, and the size bytes that end before tail.
FromHead(r) == [i \in 1 .. r.size |-> r.buf[Ahead(r.head, i - 1)]]
UpToTail(r) == [i \in 1 .. r.size |-> r.buf[Behind(r.tail, r.size + 1 - i)]]

\* What a register of one byte holds, as a sequence.
Register(r) == IF r = NoByte THEN <<>> ELSE <<r>>

\* size agrees with the two pointers once d more cells were filled (d > 0) or
\* emptied (d < 0) than the counter says.
Agrees(r, d) ==
  /\ r.size + d \in 0 .. Slots
  /\ r.tail = Ahead(r.head, r.size + d)

=============================================================================
