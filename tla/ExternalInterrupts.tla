-------------------------- MODULE ExternalInterrupts --------------------------
(***************************************************************************)
(* attachInterrupt and detachInterrupt, the handlers of the two pin        *)
(* controllers and the levels of the pins.  A pin has the number the       *)
(* sketch uses and, by the table PINS, an index: 0..31 is port A, 32..63   *)
(* port B.  The sketch gives every pin a function of its own, named by the *)
(* pin.                                                                    *)
(*                                                                         *)
(* attachInterrupt runs in the foreground one register access at a time; a *)
(* handler runs over it, up to its end, at any of these points.  It may    *)
(* come late, since the sketch may mask interrupts, and the two handlers   *)
(* do not interrupt each other.  Functions may detach their own pin.  Left *)
(* out are functions that attach, and numbers beyond the table, for which  *)
(* the code reads past its end.                                            *)
(***************************************************************************)
EXTENDS Naturals, Sequences, FiniteSets, TLC

CONSTANTS
  Pins,     \* the numbers the sketch uses
  Modes,    \* the modes it asks for
  MaxCalls, \* bound on its calls of attachInterrupt and detachInterrupt
  None

\* pins_sam4s8b.h: the index of pin 0, of pin 1, and so on.
PinTable == << 45, 46, 39, 38, 0, 1, 2, 36, 37, 3, 4, 5, 6, 9, 10, 14, 12, 13,
               17, 18, 19, 20, 32, 33, 34, 35, 21, 22, 23, 16, 15, 24, 25, 8, 7 >>
PINS(p) == PinTable[p + 1]

\* compiler.h and Arduino.h: HIGH and CHANGE are the same number.
LOW == 0
HIGH == 1
CHANGE == 1
FALLING == 2
RISING == 3

PIOA == 0 .. 31
PIOB == 32 .. 63
Index == PIOA \cup PIOB
PortOf(i) == IF i \in PIOA THEN PIOA ELSE PIOB

\* What a mode selects.  HIGH is tested before CHANGE, which is never reached.
interrupt_attributes(mode) ==
  IF mode = RISING THEN {"RE_OR_HL", "EDGE"}
  ELSE IF mode = FALLING THEN {"EDGE"}
  ELSE IF mode = LOW THEN {}
  ELSE IF mode = HIGH THEN {"RE_OR_HL"}
  ELSE IF mode = CHANGE THEN {"EDGE"}
  ELSE {}

(***************************************************************************)
(* The line attachInterrupt enables for a pin: its place within the port   *)
(* is that of the index, but the port is chosen by the number of the pin.  *)
(***************************************************************************)
get_pio_ptr(pin) == PortOf(pin)
GET_PIN_SHIFT(p) == PINS(p) % 32
Line(p) == GET_PIN_SHIFT(p) + (IF get_pio_ptr(p) = PIOA THEN 0 ELSE 32)

\* No two pins of the table have the same index.
ASSUME TableAssumption ==
  \A p, q \in 0 .. 34 : PINS(p) \in Index /\ (PINS(p) = PINS(q) => p = q)

ASSUME PinAssumption ==
  /\ Pins \subseteq 0 .. 34
  /\ IsFiniteSet(Pins)
  /\ Modes \subseteq {LOW, HIGH, CHANGE, FALLING, RISING}
  /\ MaxCalls \in Nat
  /\ None \notin Nat

VARIABLES
  user_interrupts, \* the function of each index, named by its pin
  imr,             \* PIO_IMR: the enabled lines
  aim,             \* PIO_AIMMR: the lines that detect what the next two select
  rehl,            \* PIO_FRLHSR: of these, the ones for rising edge or high level
  elsr,            \* PIO_ELSR: of these, the ones that detect a level, not an edge
  isr,             \* PIO_ISR: the lines that detected something nobody read yet
  high,            \* the lines whose pin is high
  pc, pin, mode,   \* where attachInterrupt is, and its arguments
  todo,            \* the lines a handler has read and not looked at yet
  calls,           \* the calls of the sketch so far
  promised,        \* history: the mode a pin was last attached with, as long
                   \* as nobody touched its line or its entry since
  owed,            \* history: pins with an edge their function must see
  seen             \* history: pins with a cause for a call since PIO_ISR was read

registers == <<imr, aim, rehl, elsr, isr>>
call == <<pc, pin, mode>>
history == <<promised, owed, seen>>
vars == <<user_interrupts, registers, high, call, todo, calls, history>>

TypeOK ==
  /\ user_interrupts \in [Index -> Pins \cup {None}]
  /\ imr \subseteq Index /\ aim \subseteq imr /\ rehl \subseteq aim /\ elsr \subseteq aim
  /\ isr \subseteq Index /\ high \subseteq Index /\ (todo \subseteq PIOA \/ todo \subseteq PIOB)
  /\ pc \in {"idle", "read", "enable", "aim", "edge", "select"}
  /\ pin \in Pins \cup {None} /\ mode \in Modes \cup {None}
  /\ pc # "idle" => pin \in Pins /\ mode \in Modes
  /\ calls \in 0 .. MaxCalls
  /\ promised \in [Pins -> Modes \cup {None}]
  /\ owed \subseteq Pins /\ seen \subseteq Pins

Init ==
  /\ user_interrupts = [i \in Index |-> None]
  /\ imr = {} /\ aim = {} /\ rehl = {} /\ elsr = {} /\ isr = {}
  /\ high \in SUBSET {PINS(p) : p \in Pins}
  /\ pc = "idle" /\ pin = None /\ mode = None
  /\ todo = {} /\ calls = 0
  /\ promised = [p \in Pins |-> None] /\ owed = {} /\ seen = {}

-----------------------------------------------------------------------------
(***************************************************************************)
(* The pins.  Without the additional mode a line detects both edges; with  *)
(* it one of them, or the level this edge leads to, which is detected for  *)
(* as long as it lasts.                                                    *)
(***************************************************************************)
Detects(i, kind) == i \in aim => (i \in rehl <=> kind = RISING)

Levels(on, rising, level) == {i \in on \cap level : i \in rising <=> i \in high}

\* The edge that a function was attached for, or that begins its level.
MustSee(asked, kind) ==
  \/ asked \in {RISING, HIGH} /\ kind = RISING
  \/ asked \in {FALLING, LOW} /\ kind = FALLING
AtLevel(asked, i) == \/ asked = HIGH /\ i \in high
                     \/ asked = LOW /\ i \notin high
MaySee(asked, kind) == asked = None \/ MustSee(asked, kind)

Edge(p, kind) ==
  LET i == PINS(p) IN
  /\ i \in high <=> kind = FALLING
  /\ high' = IF kind = RISING THEN high \cup {i} ELSE high \ {i}
  /\ isr' = IF Detects(i, kind) THEN isr \cup {i} ELSE isr
  /\ owed' = IF MustSee(promised[p], kind) THEN owed \cup {p} ELSE owed
  /\ seen' = IF MaySee(promised[p], kind) THEN seen \cup {p} ELSE seen
  /\ UNCHANGED <<user_interrupts, imr, aim, rehl, elsr, call, todo, calls, promised>>

(***************************************************************************)
(* Reading PIO_ISR clears the port's lines but those whose level lasts.    *)
(***************************************************************************)
FaultyClears(read, port) == read
Clears(read, port) == (read \ port) \cup (Levels(aim, rehl, elsr) \cap port)

\* The level of the pin is one its function was attached for; any will do as
\* long as it is not promised a mode.
Stands(p) == AtLevel(promised[p], PINS(p)) \/ (promised[p] = None /\ PINS(p) \in Levels(aim, rehl, elsr))

\* The causes that are left when a port was read.
Unread(port) == {p \in Pins : (PINS(p) \notin port /\ p \in seen) \/ (PINS(p) \in port /\ Stands(p))}

-----------------------------------------------------------------------------
Foreground == todo = {}

\* The pins whose promise ends when line or entry i is written.
Without(i) == [p \in Pins |-> IF PINS(p) = i THEN None ELSE promised[p]]
OthersOwed(i) == {p \in owed : PINS(p) # i}

CallAttach(p, m) ==
  LET i == PINS(p) IN
  /\ Foreground /\ pc = "idle" /\ calls < MaxCalls
  /\ pc' = "read" /\ pin' = p /\ mode' = m /\ calls' = calls + 1
  /\ user_interrupts' = [user_interrupts EXCEPT ![i] = p]
  /\ promised' = [Without(Line(p)) EXCEPT ![p] = None]
  /\ owed' = OthersOwed(Line(p)) \ {p}
  /\ UNCHANGED <<registers, high, todo, seen>>

(***************************************************************************)
(* pio_enable_interrupt reads PIO_ISR first, which clears the edges of     *)
(* every pin of that port: those of the other pins are lost.               *)
(***************************************************************************)
AttachRead ==
  LET port == get_pio_ptr(pin) IN
  /\ Foreground /\ pc = "read" /\ pc' = "enable"
  /\ isr' = Clears(isr, port)
  /\ owed' = {p \in owed : PINS(p) \notin port \/ Stands(p)}
  /\ seen' = Unread(port)
  /\ UNCHANGED <<user_interrupts, imr, aim, rehl, elsr, high, pin, mode, todo, calls, promised>>

\* The place of the register PIO_IER taken by that of PIO_IDR.
FaultyAttachEnable ==
  /\ Foreground /\ pc = "enable" /\ pc' = "aim"
  /\ imr' = imr \ {Line(pin)}
  /\ UNCHANGED <<user_interrupts, aim, rehl, elsr, isr, high, pin, mode, todo, calls, history>>

AttachEnable ==
  /\ Foreground /\ pc = "enable" /\ pc' = "aim"
  /\ imr' = imr \cup {Line(pin)}
  /\ UNCHANGED <<user_interrupts, aim, rehl, elsr, isr, high, pin, mode, todo, calls, history>>

(***************************************************************************)
(* pio_configure_interrupt: PIO_AIMER, PIO_REHLSR or PIO_FELLSR, PIO_ESR   *)
(* or PIO_LSR.  In between the line may detect a level nobody asked for,   *)
(* when it was attached for a level before.                                *)
(***************************************************************************)
Configure(from, to) == Foreground /\ pc = from /\ pc' = to

LevelSeen(on, rising, level) ==
  /\ isr' = isr \cup Levels(on, rising, level)
  /\ seen' = seen \cup {p \in Pins : PINS(p) = Line(pin) /\ Line(pin) \in Levels(on, rising, level)}

ConfigureAim ==
  /\ Configure("aim", "edge")
  /\ aim' = aim \cup {Line(pin)} /\ LevelSeen(aim', rehl, elsr)
  /\ UNCHANGED <<user_interrupts, imr, rehl, elsr, high, pin, mode, todo, calls, promised, owed>>

\* Written as if the register held the value and not one bit to set or clear.
FaultyRisingLines(m, i) == IF "RE_OR_HL" \in interrupt_attributes(m) THEN {i} ELSE {}
RisingLines(m, i) ==
  IF "RE_OR_HL" \in interrupt_attributes(m) THEN rehl \cup {i} ELSE rehl \ {i}

ConfigureEdge ==
  /\ Configure("edge", "select")
  /\ rehl' = RisingLines(mode, Line(pin)) /\ LevelSeen(aim, rehl', elsr)
  /\ UNCHANGED <<user_interrupts, imr, aim, elsr, high, pin, mode, todo, calls, promised, owed>>

LevelLines(m, i) == IF "EDGE" \in interrupt_attributes(m) THEN elsr \ {i} ELSE elsr \cup {i}

ConfigureSelect ==
  LET mine == Line(pin) = PINS(pin) /\ user_interrupts[PINS(pin)] = pin IN
  /\ Configure("select", "idle")
  /\ elsr' = LevelLines(mode, Line(pin)) /\ LevelSeen(aim, rehl, elsr')
  /\ pin' = None /\ mode' = None
  /\ promised' = IF mine THEN [promised EXCEPT ![pin] = mode] ELSE promised
  /\ owed' = IF mine /\ AtLevel(mode, PINS(pin)) THEN owed \cup {pin} ELSE owed
  /\ UNCHANGED <<user_interrupts, imr, aim, rehl, high, todo, calls>>

(***************************************************************************)
(* detachInterrupt clears the entry of the number and not of the index: it *)
(* is another pin, if any, that loses its function.                        *)
(***************************************************************************)
Detach(p) ==
  /\ calls < MaxCalls /\ calls' = calls + 1
  /\ user_interrupts' = [user_interrupts EXCEPT ![p] = None]
  /\ promised' = [Without(p) EXCEPT ![p] = None]

CallDetach(p) ==
  /\ Foreground /\ pc = "idle"
  /\ Detach(p) /\ owed' = OthersOwed(p) \ {p}
  /\ UNCHANGED <<registers, high, call, todo, seen>>

-----------------------------------------------------------------------------
(***************************************************************************)
(* PIOA_Handler and PIOB_Handler: when both are due, that of port A, which *)
(* has the lower number, runs first.                                       *)
(***************************************************************************)
Due(port) == isr \cap imr \cap port

HandlerRead(port) ==
  /\ todo = {} /\ Due(port) # {}
  /\ port = PIOB => Due(PIOA) = {}
  /\ todo' = Due(port) /\ seen' = Unread(port)
  /\ isr' = (isr \ port) \cup (Levels(aim, rehl, elsr) \cap port)
  /\ UNCHANGED <<user_interrupts, imr, aim, rehl, elsr, high, call, calls, promised, owed>>

\* The loop takes the lines in order.
First(i) == i \in todo /\ \A j \in todo : i <= j

HandlerSkip(i) ==
  /\ First(i) /\ user_interrupts[i] = None
  /\ todo' = todo \ {i}
  /\ UNCHANGED <<user_interrupts, registers, high, call, calls, history>>

CallFunction(i) ==
  LET p == user_interrupts[i] IN
  /\ First(i) /\ p # None
  /\ todo' = todo \ {i}
  /\ \/ owed' = owed \ {p} /\ UNCHANGED <<user_interrupts, calls, promised>>
     \/ Detach(p) /\ owed' = OthersOwed(p) \ {p}
  /\ UNCHANGED <<registers, high, call, seen>>

Handler == \/ \E port \in {PIOA, PIOB} : HandlerRead(port)
           \/ \E i \in todo : HandlerSkip(i) \/ CallFunction(i)

Next ==
  \/ \E p \in Pins, kind \in {RISING, FALLING} : Edge(p, kind)
  \/ \E p \in Pins, m \in Modes : CallAttach(p, m)
  \/ AttachRead \/ AttachEnable \/ ConfigureAim \/ ConfigureEdge \/ ConfigureSelect
  \/ \E p \in Pins : CallDetach(p)
  \/ Handler

Spec == Init /\ [][Next]_vars

\* The processor serves an interrupt that is due; nothing else has to happen.
FairSpec == Spec /\ WF_vars(Handler)

-----------------------------------------------------------------------------
(***************************************************************************)
(* An edge a function was attached for, or the begin of the level it was   *)
(* attached for, waits in the register or in the handler until the         *)
(* function runs: no handler, no other attachInterrupt that is being       *)
(* carried out and no function detached by another loses it, except by the *)
(* read of PIO_ISR in attachInterrupt.                                     *)
(***************************************************************************)
EdgesKept ==
  \A p \in owed : /\ PINS(p) \in todo \cup (isr \cap imr)
                  /\ user_interrupts[PINS(p)] = p

(***************************************************************************)
(* A handler that reads PIO_ISR finds there only pins that had an edge, or *)
(* stood at a level, since the register was read before; once a mode is    *)
(* configured only its edge or its level counts.                           *)
(***************************************************************************)
CalledForCause ==
  [][todo = {} => \A i \in todo' : user_interrupts[i] # None => user_interrupts[i] \in seen]_vars

(***************************************************************************)
(* The detection a pin was promised stays configured whatever other pins   *)
(* are attached to and detached from afterwards.  A pin attached with      *)
(* CHANGE was promised a level.                                            *)
(***************************************************************************)
PromiseKept ==
  \A p \in Pins : promised[p] # None =>
    /\ PINS(p) \in imr \cap aim
    /\ PINS(p) \in rehl <=> promised[p] \in {RISING, HIGH}
    /\ PINS(p) \in elsr <=> promised[p] \in {LOW, HIGH}
    /\ user_interrupts[PINS(p)] = p

\* Every owed edge is served, or its pin detached or attached anew.
EdgesServed == \A p \in Pins : p \in owed ~> p \notin owed

===============================================================================
