---------------------- MODULE ExternalInterrupts_proofs ----------------------
(***************************************************************************)
(* Theorems about ExternalInterrupts, for any pins of the board, any modes *)
(* and any number of calls.                                                *)
(***************************************************************************)
EXTENDS ExternalInterrupts, TLAPS

-----------------------------------------------------------------------------
\* The tables

LEMMA PinIndex ==
  \A p, q \in Pins : PINS(p) \in Index /\ (PINS(p) = PINS(q) => p = q) /\ p \in Index
<1> SUFFICES ASSUME NEW p \in Pins, NEW q \in Pins
             PROVE  PINS(p) \in Index /\ (PINS(p) = PINS(q) => p = q) /\ p \in Index
  OBVIOUS
<1>1. p \in 0 .. 34 /\ q \in 0 .. 34
  BY PinAssumption
<1>2. PINS(p) \in Index /\ (PINS(p) = PINS(q) => p = q)
  BY <1>1, TableAssumption
<1>3. p \in Index
  BY <1>1 DEF Index, PIOA, PIOB
<1> QED
  BY <1>2, <1>3

LEMMA LineOfPort ==
  ASSUME NEW p \in Pins
  PROVE  Line(p) \in get_pio_ptr(p) /\ Line(p) \in Index
<1>1. PINS(p) \in Nat
  BY PinIndex DEF Index, PIOA, PIOB
<1>2. GET_PIN_SHIFT(p) \in 0 .. 31
  BY <1>1 DEF GET_PIN_SHIFT
<1>3. 0 \in PIOA /\ 0 \notin PIOB
  BY DEF PIOA, PIOB
<1>4. CASE get_pio_ptr(p) = PIOA
  BY <1>2, <1>4 DEF Line, PIOA, Index
<1>5. CASE get_pio_ptr(p) # PIOA
  <2>1. get_pio_ptr(p) = PIOB
    BY <1>5 DEF get_pio_ptr, PortOf
  <2>2. Line(p) = GET_PIN_SHIFT(p) + 32
    BY <1>5 DEF Line
  <2>3. Line(p) \in PIOB
    BY <1>2, <2>2 DEF PIOB
  <2> QED
    BY <2>1, <2>3 DEF Index
<1> QED
  BY <1>4, <1>5

LEMMA NoneIsNew == None \notin Pins /\ None \notin 0 .. 3 /\ Modes \subseteq 0 .. 3
<1>1. {LOW, HIGH, CHANGE, FALLING, RISING} \subseteq 0 .. 3
  BY DEF LOW, HIGH, CHANGE, FALLING, RISING
<1>2. /\ None \notin Nat /\ Modes \subseteq {LOW, HIGH, CHANGE, FALLING, RISING}
      /\ Pins \subseteq 0 .. 34
  BY PinAssumption
<1>3. Pins \subseteq Nat /\ 0 .. 3 \subseteq Nat
  BY <1>2
<1> QED
  BY <1>1, <1>2, <1>3

\* What the IF chain of attachInterrupt selects: CHANGE, which is HIGH, a level.
LEMMA Attributes ==
  ASSUME NEW m \in Modes
  PROVE  /\ "RE_OR_HL" \in interrupt_attributes(m) <=> m \in {RISING, HIGH}
         /\ "EDGE" \notin interrupt_attributes(m) <=> m \in {LOW, HIGH}
<1>1. m \in 0 .. 3
  BY NoneIsNew
<1>2. "RE_OR_HL" # "EDGE"
  OBVIOUS
<1>3. CASE m = RISING
  BY <1>2, <1>3 DEF interrupt_attributes, LOW, HIGH, CHANGE, FALLING, RISING
<1>4. CASE m = FALLING
  BY <1>2, <1>4 DEF interrupt_attributes, LOW, HIGH, CHANGE, FALLING, RISING
<1>5. CASE m = LOW
  BY <1>2, <1>5 DEF interrupt_attributes, LOW, HIGH, CHANGE, FALLING, RISING
<1>6. CASE m = HIGH
  BY <1>2, <1>6 DEF interrupt_attributes, LOW, HIGH, CHANGE, FALLING, RISING
<1> QED
  BY <1>1, <1>3, <1>4, <1>5, <1>6 DEF LOW, HIGH, FALLING, RISING

-----------------------------------------------------------------------------
\* The inductive invariant

\* A function stands at the index of its pin.
Placed == \A i \in Index : user_interrupts[i] # None => PINS(user_interrupts[i]) = i

\* What attachInterrupt has written so far, and that no pin relies on the line.
Attaching ==
  pc # "idle" =>
    /\ pc \in {"aim", "edge", "select"} => Line(pin) \in imr
    /\ pc \in {"edge", "select"} => Line(pin) \in aim
    /\ pc = "select" => (Line(pin) \in rehl <=> mode \in {RISING, HIGH})
    /\ \A p \in Pins : PINS(p) = Line(pin) => promised[p] = None

OwedPromised == \A p \in owed : promised[p] # None

\* A level is detected again as soon as the register was read.
LevelsLatched == Levels(aim, rehl, elsr) \subseteq isr

\* CalledForCause, for the lines no handler has read yet.
WaitingSeen == \A p \in Pins : PINS(p) \in isr => p \in seen

IInv == /\ TypeOK /\ Placed /\ Attaching /\ OwedPromised
        /\ PromiseKept /\ EdgesKept /\ LevelsLatched /\ WaitingSeen

LEMMA InitInv == Init => IInv
<1> SUFFICES ASSUME Init PROVE IInv
  OBVIOUS
<1>1. TypeOK
  <2>1. \A p \in Pins : PINS(p) \in Index
    BY PinIndex
  <2>2. high \subseteq Index
    BY <2>1 DEF Init
  <2> QED
    BY <2>2, PinAssumption DEF Init, TypeOK
<1> QED
  BY <1>1 DEF Init, IInv, Placed, Attaching, OwedPromised, PromiseKept, EdgesKept,
              LevelsLatched, Levels, WaitingSeen

\* A pin whose configured line detects a level is promised that level.
LEMMA StandsAtLevel ==
  ASSUME IInv, NEW p \in Pins
  PROVE  /\ PINS(p) \in Levels(aim, rehl, elsr) => Stands(p)
         /\ Stands(p) /\ promised[p] # None => PINS(p) \in Levels(aim, rehl, elsr)
<1> USE DEF IInv
<1>1. CASE promised[p] = None
  BY <1>1 DEF Stands
<1>2. CASE promised[p] # None
  <2>1. promised[p] \in 0 .. 3
    BY <1>2, NoneIsNew DEF TypeOK
  <2>2. /\ PINS(p) \in aim
        /\ PINS(p) \in rehl <=> promised[p] \in {RISING, HIGH}
        /\ PINS(p) \in elsr <=> promised[p] \in {LOW, HIGH}
    BY <1>2 DEF PromiseKept
  <2> QED
    BY <1>2, <2>1, <2>2 DEF Stands, AtLevel, Levels, LOW, HIGH, RISING, FALLING
<1> QED
  BY <1>1, <1>2

-----------------------------------------------------------------------------
\* One lemma per action.

LEMMA EdgeInv ==
  ASSUME IInv, NEW p \in Pins, NEW kind \in {RISING, FALLING}, Edge(p, kind)
  PROVE  IInv'
<1> USE DEF IInv
<1> DEFINE i == PINS(p)
<1>1. i \in Index
  BY PinIndex
<1>2. TypeOK'
  BY <1>1 DEF TypeOK, Edge, call
<1>3. promised[p] # None =>
        /\ i \in imr \cap aim /\ user_interrupts[i] = p
        /\ Detects(i, kind) <=> MustSee(promised[p], kind)
  <2> SUFFICES ASSUME promised[p] # None
               PROVE  /\ i \in imr \cap aim /\ user_interrupts[i] = p
                      /\ Detects(i, kind) <=> MustSee(promised[p], kind)
    OBVIOUS
  <2>1. promised[p] \in 0 .. 3
    BY NoneIsNew DEF TypeOK
  <2>2. /\ i \in imr \cap aim /\ user_interrupts[i] = p
        /\ i \in rehl <=> promised[p] \in {RISING, HIGH}
    BY DEF PromiseKept
  <2> QED
    BY <2>1, <2>2 DEF MustSee, Detects, LOW, HIGH, RISING, FALLING
<1>4. EdgesKept' /\ OwedPromised'
  <2>1. ASSUME NEW q \in owed'
        PROVE  /\ promised[q] # None
               /\ user_interrupts[PINS(q)] = q
               /\ PINS(q) \in todo \cup (isr' \cap imr)
    <3>1. CASE q \in owed
      BY <3>1 DEF Edge, EdgesKept, OwedPromised
    <3>2. CASE q \notin owed
      <4>1. q = p /\ MustSee(promised[p], kind)
        BY <2>1, <3>2 DEF Edge
      <4>2. promised[p] # None
        BY <4>1, NoneIsNew DEF MustSee, LOW, HIGH, RISING, FALLING
      <4>3. i \in isr'
        BY <4>1, <4>2, <1>3 DEF Edge
      <4> QED
        BY <4>1, <4>2, <4>3, <1>3
    <3> QED
      BY <3>1, <3>2
  <2> QED
    BY <2>1 DEF Edge, EdgesKept, OwedPromised
<1>5. WaitingSeen'
  <2> SUFFICES ASSUME NEW q \in Pins, PINS(q) \in isr'
               PROVE  q \in seen'
    BY DEF WaitingSeen
  <2>1. CASE PINS(q) \in isr
    BY <2>1 DEF WaitingSeen, Edge
  <2>2. CASE PINS(q) \notin isr
    <3>1. q = p /\ Detects(i, kind)
      BY <2>2, PinIndex DEF Edge
    <3>2. MaySee(promised[p], kind)
      BY <3>1, <1>3 DEF MaySee
    <3> QED
      BY <3>1, <3>2 DEF Edge
  <2> QED
    BY <2>1, <2>2
<1>6. LevelsLatched'
  <2> SUFFICES ASSUME NEW j \in aim \cap elsr, j \in rehl <=> j \in high'
               PROVE  j \in isr'
    BY DEF LevelsLatched, Levels, Edge
  <2>1. CASE j = i
    BY <2>1 DEF Edge, Detects, RISING, FALLING
  <2>2. CASE j # i
    BY <2>2 DEF Edge, LevelsLatched, Levels
  <2> QED
    BY <2>1, <2>2
<1> QED
  BY <1>2, <1>4, <1>5, <1>6 DEF Edge, call, Placed, Attaching, PromiseKept

LEMMA CallAttachInv ==
  ASSUME IInv, NEW p \in Pins, NEW m \in Modes, CallAttach(p, m)
  PROVE  IInv'
<1> USE DEF IInv
<1>1. PINS(p) \in Index
  BY PinIndex
<1>2. /\ promised' \in [Pins -> Modes \cup {None}]
      /\ \A q \in Pins : promised'[q] =
           IF q = p \/ PINS(q) = Line(p) THEN None ELSE promised[q]
  BY DEF TypeOK, CallAttach, Without
<1>3. /\ user_interrupts' \in [Index -> Pins \cup {None}]
      /\ user_interrupts'[PINS(p)] = p
      /\ \A i \in Index : i # PINS(p) => user_interrupts'[i] = user_interrupts[i]
  BY <1>1 DEF TypeOK, CallAttach
<1>4. calls' \in 0 .. MaxCalls
  BY PinAssumption DEF TypeOK, CallAttach
<1>5. TypeOK'
  BY <1>2, <1>3, <1>4 DEF TypeOK, CallAttach, OthersOwed, registers
<1>6. Placed' /\ Attaching'
  BY <1>2, <1>3 DEF Placed, Attaching, CallAttach
<1>7. \A q \in owed' : q \in owed /\ q \in Pins /\ q # p /\ PINS(q) # Line(p) /\ PINS(q) # PINS(p)
  BY PinIndex DEF CallAttach, OthersOwed, TypeOK
<1>8. OwedPromised' /\ EdgesKept'
  BY <1>2, <1>3, <1>7, PinIndex DEF OwedPromised, EdgesKept, CallAttach, registers
<1>9. PromiseKept'
  BY <1>2, <1>3, PinIndex DEF PromiseKept, CallAttach, registers
<1>10. WaitingSeen' /\ LevelsLatched'
  BY DEF WaitingSeen, LevelsLatched, Levels, CallAttach, registers
<1> QED
  BY <1>5, <1>6, <1>8, <1>9, <1>10

\* Reading PIO_ISR, by attachInterrupt or a handler, leaves the levels.
LEMMA ReadKeeps ==
  ASSUME IInv, NEW port, UNCHANGED <<aim, rehl, elsr, high>>,
         isr' = (isr \ port) \cup (Levels(aim, rehl, elsr) \cap port),
         seen' = Unread(port)
  PROVE  LevelsLatched' /\ WaitingSeen' /\ isr' \subseteq isr /\ seen' \subseteq Pins
<1> USE DEF IInv
<1>1. LevelsLatched' /\ isr' \subseteq isr
  BY DEF LevelsLatched, Levels
<1>2. WaitingSeen'
  <2> SUFFICES ASSUME NEW p \in Pins, PINS(p) \in isr'
               PROVE  p \in seen'
    BY DEF WaitingSeen
  <2>1. CASE PINS(p) \notin port
    BY <2>1 DEF WaitingSeen, Unread
  <2>2. CASE PINS(p) \in port
    BY <2>2, StandsAtLevel DEF Unread
  <2> QED
    BY <2>1, <2>2
<1> QED
  BY <1>1, <1>2 DEF Unread

LEMMA AttachReadInv == ASSUME IInv, AttachRead PROVE IInv'
<1> USE DEF IInv
<1>1. LevelsLatched' /\ WaitingSeen' /\ isr' \subseteq isr /\ seen' \subseteq Pins
  BY ReadKeeps DEF AttachRead, Clears
<1>2. TypeOK'
  BY <1>1 DEF TypeOK, AttachRead
<1>3. EdgesKept'
  <2> SUFFICES ASSUME NEW p \in owed'
               PROVE  PINS(p) \in isr' \cap imr /\ user_interrupts[PINS(p)] = p
    BY DEF EdgesKept, AttachRead
  <2>1. p \in owed /\ p \in Pins /\ promised[p] # None
    BY DEF AttachRead, TypeOK, OwedPromised
  <2>2. PINS(p) \in isr \cap imr /\ user_interrupts[PINS(p)] = p
    BY <2>1 DEF EdgesKept, AttachRead, Foreground
  <2>3. CASE PINS(p) \notin get_pio_ptr(pin)
    BY <2>2, <2>3 DEF AttachRead, Clears
  <2>4. CASE PINS(p) \in get_pio_ptr(pin)
    <3>1. Stands(p)
      BY <2>4 DEF AttachRead
    <3>2. PINS(p) \in Levels(aim, rehl, elsr)
      BY <2>1, <3>1, StandsAtLevel
    <3> QED
      BY <2>2, <2>4, <3>2 DEF AttachRead, Clears
  <2> QED
    BY <2>3, <2>4
<1>4. OwedPromised'
  BY DEF OwedPromised, AttachRead
<1> QED
  BY <1>1, <1>2, <1>3, <1>4 DEF AttachRead, Placed, Attaching, PromiseKept

LEMMA AttachEnableInv == ASSUME IInv, AttachEnable PROVE IInv'
<1> USE DEF IInv
<1>1. pin \in Pins /\ Line(pin) \in Index
  BY LineOfPort DEF TypeOK, AttachEnable
<1>2. TypeOK'
  BY <1>1 DEF TypeOK, AttachEnable, history
<1>3. Placed' /\ Attaching' /\ OwedPromised'
  BY DEF AttachEnable, history, Placed, Attaching, OwedPromised
<1>4. EdgesKept' /\ PromiseKept'
  BY DEF AttachEnable, history, EdgesKept, PromiseKept
<1>5. WaitingSeen' /\ LevelsLatched'
  BY DEF AttachEnable, history, WaitingSeen, LevelsLatched, Levels
<1> QED
  BY <1>2, <1>3, <1>4, <1>5

\* A write to the configuration of one line leaves what the others detected.
LEMMA ConfigureKeeps ==
  ASSUME IInv, NEW on, NEW rising, NEW level, on \subseteq Index, LevelSeen(on, rising, level),
         UNCHANGED high, <<aim', rehl', elsr'>> = <<on, rising, level>>,
         \A i \in Index : i # Line(pin) => /\ i \in on <=> i \in aim
                                           /\ i \in rising <=> i \in rehl
                                           /\ i \in level <=> i \in elsr
  PROVE  /\ LevelsLatched' /\ WaitingSeen'
         /\ isr \subseteq isr' /\ isr' \subseteq Index /\ seen' \subseteq Pins
<1> USE DEF IInv
<1>1. isr' = isr \cup Levels(on, rising, level) /\ seen \subseteq seen'
  BY DEF LevelSeen
<1>2. LevelsLatched'
  BY <1>1 DEF LevelsLatched, Levels
<1>3. isr' \subseteq Index /\ seen' \subseteq Pins
  BY <1>1 DEF LevelSeen, Levels, TypeOK
<1>4. WaitingSeen'
  <2> SUFFICES ASSUME NEW p \in Pins, PINS(p) \in isr', PINS(p) \notin isr
               PROVE  p \in seen'
    BY <1>1 DEF WaitingSeen
  <2>1. PINS(p) \in Levels(on, rising, level)
    BY <1>1
  <2>2. PINS(p) = Line(pin)
    BY <2>1, PinIndex DEF LevelsLatched, Levels
  <2> QED
    BY <2>1, <2>2 DEF LevelSeen
<1> QED
  BY <1>1, <1>2, <1>3, <1>4

LEMMA ConfigureAimInv == ASSUME IInv, ConfigureAim PROVE IInv'
<1> USE DEF IInv
<1>1. Line(pin) \in imr /\ Line(pin) \in Index
  BY LineOfPort DEF TypeOK, Attaching, ConfigureAim, Configure
<1>2. /\ LevelsLatched' /\ WaitingSeen'
      /\ isr \subseteq isr' /\ isr' \subseteq Index /\ seen' \subseteq Pins
  <2>1. aim' \subseteq Index
    BY <1>1 DEF TypeOK, ConfigureAim
  <2> QED
    BY <2>1, ConfigureKeeps DEF ConfigureAim
<1>3. TypeOK'
  BY <1>1, <1>2 DEF TypeOK, ConfigureAim, Configure
<1>4. Placed' /\ Attaching' /\ OwedPromised'
  BY <1>1 DEF ConfigureAim, Configure, Placed, Attaching, OwedPromised
<1>5. EdgesKept' /\ PromiseKept'
  BY <1>2 DEF ConfigureAim, Configure, EdgesKept, PromiseKept
<1> QED
  BY <1>2, <1>3, <1>4, <1>5

LEMMA ConfigureEdgeInv == ASSUME IInv, ConfigureEdge PROVE IInv'
<1> USE DEF IInv
<1>1. /\ pin \in Pins /\ mode \in Modes /\ Line(pin) \in imr \cap aim
      /\ \A p \in Pins : PINS(p) = Line(pin) => promised[p] = None
  BY DEF TypeOK, Attaching, ConfigureEdge, Configure
<1>2. /\ rehl' \subseteq aim
      /\ \A i \in Index : i # Line(pin) => (i \in rehl' <=> i \in rehl)
      /\ Line(pin) \in rehl' <=> mode \in {RISING, HIGH}
  BY <1>1, Attributes DEF ConfigureEdge, RisingLines, TypeOK
<1>3. /\ LevelsLatched' /\ WaitingSeen'
      /\ isr \subseteq isr' /\ isr' \subseteq Index /\ seen' \subseteq Pins
  <2>1. aim \subseteq Index
    BY DEF TypeOK
  <2> QED
    BY <1>2, <2>1, ConfigureKeeps DEF ConfigureEdge
<1>4. TypeOK'
  BY <1>2, <1>3 DEF TypeOK, ConfigureEdge, Configure
<1>5. Placed' /\ Attaching' /\ OwedPromised'
  BY <1>1, <1>2 DEF ConfigureEdge, Configure, Placed, Attaching, OwedPromised
<1>6. EdgesKept'
  BY <1>3 DEF ConfigureEdge, Configure, EdgesKept
<1>7. PromiseKept'
  BY <1>1, <1>2, PinIndex DEF ConfigureEdge, PromiseKept
<1> QED
  BY <1>3, <1>4, <1>5, <1>6, <1>7

LEMMA ConfigureSelectInv == ASSUME IInv, ConfigureSelect PROVE IInv'
<1> USE DEF IInv
<1>1. /\ pin \in Pins /\ mode \in Modes /\ Line(pin) \in imr \cap aim
      /\ Line(pin) \in rehl <=> mode \in {RISING, HIGH}
      /\ \A p \in Pins : PINS(p) = Line(pin) => promised[p] = None
  BY DEF TypeOK, Attaching, ConfigureSelect, Configure
<1>2. /\ elsr' \subseteq aim
      /\ \A i \in Index : i # Line(pin) => (i \in elsr' <=> i \in elsr)
      /\ Line(pin) \in elsr' <=> mode \in {LOW, HIGH}
  BY <1>1, Attributes DEF ConfigureSelect, LevelLines, TypeOK
<1>3. /\ LevelsLatched' /\ WaitingSeen'
      /\ isr \subseteq isr' /\ isr' \subseteq Index /\ seen' \subseteq Pins
  <2>1. aim \subseteq Index
    BY DEF TypeOK
  <2> QED
    BY <1>2, <2>1, ConfigureKeeps DEF ConfigureSelect
<1>4. /\ promised' \in [Pins -> Modes \cup {None}]
      /\ \A q \in Pins : q # pin => promised'[q] = promised[q]
      /\ promised'[pin] # promised[pin] =>
           /\ promised'[pin] = mode
           /\ Line(pin) = PINS(pin)
           /\ user_interrupts[PINS(pin)] = pin
  BY <1>1 DEF TypeOK, ConfigureSelect
<1>5. /\ owed \subseteq owed' /\ owed' \subseteq Pins
      /\ \A q \in owed' \ owed : /\ q = pin /\ promised'[q] = mode
                                 /\ Line(pin) = PINS(pin) /\ AtLevel(mode, PINS(pin))
                                 /\ user_interrupts[PINS(pin)] = pin
  BY <1>1 DEF TypeOK, ConfigureSelect
<1>6. TypeOK'
  BY <1>2, <1>3, <1>4, <1>5 DEF TypeOK, ConfigureSelect, Configure
<1>7. Placed' /\ Attaching'
  BY DEF ConfigureSelect, Configure, Placed, Attaching
<1>8. PromiseKept'
  <2> SUFFICES ASSUME NEW q \in Pins, promised'[q] # None
               PROVE  /\ PINS(q) \in imr \cap aim
                      /\ PINS(q) \in rehl <=> promised'[q] \in {RISING, HIGH}
                      /\ PINS(q) \in elsr' <=> promised'[q] \in {LOW, HIGH}
                      /\ user_interrupts[PINS(q)] = q
    BY DEF PromiseKept, ConfigureSelect
  <2>1. CASE promised'[q] = promised[q]
    <3>1. PINS(q) # Line(pin) /\ PINS(q) \in Index
      BY <1>1, <2>1, PinIndex
    <3> QED
      BY <1>2, <2>1, <3>1 DEF PromiseKept
  <2>2. CASE promised'[q] # promised[q]
    BY <1>1, <1>2, <1>4, <2>2
  <2> QED
    BY <2>1, <2>2
<1>9. OwedPromised'
  <2> SUFFICES ASSUME NEW q \in owed' PROVE promised'[q] # None
    BY DEF OwedPromised
  <2>1. q \in owed => promised[q] # None
    BY DEF OwedPromised
  <2>2. mode # None
    BY <1>1, NoneIsNew
  <2> QED
    BY <1>4, <1>5, <2>1, <2>2
<1>10. EdgesKept'
  <2> SUFFICES ASSUME NEW q \in owed'
               PROVE  PINS(q) \in todo \cup (isr' \cap imr) /\ user_interrupts[PINS(q)] = q
    BY DEF EdgesKept, ConfigureSelect, Configure
  <2>1. CASE q \in owed
    BY <1>3, <2>1 DEF EdgesKept
  <2>2. CASE q \notin owed
    <3>1. /\ q = pin /\ Line(pin) = PINS(pin) /\ AtLevel(mode, PINS(pin))
          /\ user_interrupts[PINS(pin)] = pin
      BY <1>5, <2>2
    <3>2. PINS(pin) \in Levels(aim, rehl, elsr')
      BY <1>1, <1>2, <3>1, NoneIsNew DEF Levels, AtLevel, LOW, HIGH, RISING
    <3> QED
      BY <1>1, <3>1, <3>2 DEF ConfigureSelect, LevelSeen
  <2> QED
    BY <2>1, <2>2
<1> QED
  BY <1>3, <1>6, <1>7, <1>8, <1>9, <1>10

-----------------------------------------------------------------------------
\* detachInterrupt, called by the sketch or by a function.

LEMMA DetachTables ==
  ASSUME IInv, NEW p \in Pins, Detach(p)
  PROVE  /\ user_interrupts' \in [Index -> Pins \cup {None}]
         /\ promised' \in [Pins -> Modes \cup {None}]
         /\ calls' \in 0 .. MaxCalls
         /\ \A i \in Index : user_interrupts'[i] = IF i = p THEN None ELSE user_interrupts[i]
         /\ \A q \in Pins :
              promised'[q] = IF q = p \/ PINS(q) = p THEN None ELSE promised[q]
<1>1. p \in Index
  BY PinIndex
<1> QED
  BY <1>1, PinAssumption DEF IInv, TypeOK, Detach, Without

LEMMA DetachInv ==
  ASSUME IInv, NEW p \in Pins, Detach(p), owed' = OthersOwed(p) \ {p},
         UNCHANGED <<registers, high, call, seen>>, todo' \subseteq todo,
         \A q \in owed' : PINS(q) \in todo => PINS(q) \in todo'
  PROVE  IInv'
<1> USE DEF IInv
<1>1. /\ user_interrupts' \in [Index -> Pins \cup {None}]
      /\ promised' \in [Pins -> Modes \cup {None}]
      /\ calls' \in 0 .. MaxCalls
      /\ \A i \in Index : user_interrupts'[i] = IF i = p THEN None ELSE user_interrupts[i]
      /\ \A q \in Pins :
           promised'[q] = IF q = p \/ PINS(q) = p THEN None ELSE promised[q]
  BY DetachTables
<1>2. TypeOK'
  BY <1>1 DEF TypeOK, OthersOwed, registers, call
<1>3. Placed' /\ Attaching'
  BY <1>1 DEF TypeOK, Placed, Attaching, registers, call
<1>4. \A q \in owed' : q \in owed /\ q \in Pins /\ q # p /\ PINS(q) # p /\ PINS(q) \in Index
  BY PinIndex DEF OthersOwed, TypeOK
<1>5. OwedPromised' /\ EdgesKept'
  BY <1>1, <1>4 DEF OwedPromised, EdgesKept, registers
<1>6. PromiseKept'
  BY <1>1, PinIndex DEF PromiseKept, registers
<1>7. WaitingSeen' /\ LevelsLatched'
  BY DEF WaitingSeen, LevelsLatched, Levels, registers
<1> QED
  BY <1>2, <1>3, <1>5, <1>6, <1>7

LEMMA CallDetachInv == ASSUME IInv, NEW p \in Pins, CallDetach(p) PROVE IInv'
BY DetachInv DEF CallDetach

-----------------------------------------------------------------------------
\* The handlers

LEMMA HandlerReadInv ==
  ASSUME IInv, NEW port \in {PIOA, PIOB}, HandlerRead(port)
  PROVE  IInv'
<1> USE DEF IInv
<1>1. LevelsLatched' /\ WaitingSeen' /\ isr' \subseteq isr /\ seen' \subseteq Pins
  BY ReadKeeps DEF HandlerRead
<1>2. TypeOK'
  BY <1>1 DEF TypeOK, HandlerRead, Due, call
<1>3. EdgesKept'
  BY DEF EdgesKept, HandlerRead, Due
<1> QED
  BY <1>1, <1>2, <1>3 DEF HandlerRead, call, Placed, Attaching, OwedPromised, PromiseKept

LEMMA HandlerSkipInv == ASSUME IInv, NEW i \in todo, HandlerSkip(i) PROVE IInv'
<1> USE DEF IInv
<1>1. TypeOK'
  BY DEF TypeOK, HandlerSkip, registers, call, history
<1>2. EdgesKept'
  BY NoneIsNew DEF TypeOK, EdgesKept, HandlerSkip, registers, history
<1> QED
  BY <1>1, <1>2 DEF HandlerSkip, registers, call, history, Placed, Attaching, OwedPromised,
                    PromiseKept, WaitingSeen, LevelsLatched, Levels

LEMMA CallFunctionInv == ASSUME IInv, NEW i \in todo, CallFunction(i) PROVE IInv'
<1> USE DEF IInv
<1> DEFINE p == user_interrupts[i]
<1>1. i \in Index /\ p \in Pins /\ PINS(p) = i
  BY DEF CallFunction, TypeOK, Placed, Index
<1>2. todo' = todo \ {i} /\ UNCHANGED <<registers, high, call, seen>>
  BY DEF CallFunction
<1>3. \A q \in owed : q # p => PINS(q) # i
  BY <1>1 DEF EdgesKept
<1>4. CASE owed' = owed \ {p} /\ UNCHANGED <<user_interrupts, calls, promised>>
  <2>1. TypeOK'
    BY <1>2, <1>4 DEF TypeOK, registers, call
  <2>2. EdgesKept'
    BY <1>2, <1>3, <1>4 DEF EdgesKept, registers
  <2> QED
    BY <1>2, <1>4, <2>1, <2>2 DEF registers, call, Placed, Attaching, OwedPromised,
                    PromiseKept, WaitingSeen, LevelsLatched, Levels
<1>5. CASE Detach(p) /\ owed' = OthersOwed(p) \ {p}
  <2>1. \A q \in owed' : PINS(q) \in todo => PINS(q) \in todo'
    BY <1>2, <1>3, <1>5 DEF OthersOwed
  <2> QED
    BY <1>1, <1>2, <1>5, <2>1, DetachInv
<1> QED
  BY <1>4, <1>5 DEF CallFunction

LEMMA NextInv == IInv /\ [Next]_vars => IInv'
<1> SUFFICES ASSUME IInv, [Next]_vars PROVE IInv'
  OBVIOUS
<1>1. CASE \E p \in Pins, kind \in {RISING, FALLING} : Edge(p, kind)
  BY <1>1, EdgeInv
<1>2. CASE \E p \in Pins, m \in Modes : CallAttach(p, m)
  BY <1>2, CallAttachInv
<1>3. CASE AttachRead \/ AttachEnable \/ ConfigureAim \/ ConfigureEdge \/ ConfigureSelect
  BY <1>3, AttachReadInv, AttachEnableInv, ConfigureAimInv, ConfigureEdgeInv, ConfigureSelectInv
<1>4. CASE \E p \in Pins : CallDetach(p)
  BY <1>4, CallDetachInv
<1>5. CASE Handler
  BY <1>5, HandlerReadInv, HandlerSkipInv, CallFunctionInv DEF Handler
<1>6. CASE UNCHANGED vars
  BY <1>6 DEF vars, registers, call, history, IInv, TypeOK, Placed, Attaching, OwedPromised,
              PromiseKept, EdgesKept, WaitingSeen, LevelsLatched, Levels
<1> QED
  BY <1>1, <1>2, <1>3, <1>4, <1>5, <1>6 DEF Next

-----------------------------------------------------------------------------
\* The theorems

\* The registers name lines of the ports, a handler works on one port, and only
\* enabled lines are configured.
THEOREM PinsType == Spec => []TypeOK
<1>1. IInv => TypeOK
  BY DEF IInv
<1> QED
  BY <1>1, InitInv, NextInv, PTL DEF Spec

\* The detection a pin was promised stays configured whatever other pins are
\* attached to and detached from afterwards.
THEOREM PinsConfigured == Spec => []PromiseKept
<1>1. IInv => PromiseKept
  BY DEF IInv
<1> QED
  BY <1>1, InitInv, NextInv, PTL DEF Spec

\* An edge a function was attached for, or the begin of its level, waits until
\* the function runs: only the read of PIO_ISR in attachInterrupt, for a pin of
\* the same port, loses one.
THEOREM PinsServed == Spec => []EdgesKept
<1>1. IInv => EdgesKept
  BY DEF IInv
<1> QED
  BY <1>1, InitInv, NextInv, PTL DEF Spec

\* No function runs for an edge or a level from before PIO_ISR was read, or for
\* one that its configured mode leaves out.
THEOREM PinsCalledForCause == Spec => CalledForCause
<1>1. ASSUME IInv, [Next]_vars, todo = {}, NEW i \in todo', user_interrupts[i] # None
      PROVE  user_interrupts[i] \in seen
  <2>1. PICK port \in {PIOA, PIOB} : HandlerRead(port)
    <3>1. todo' # todo
      BY <1>1
    <3> QED
      BY <1>1, <3>1 DEF Next, vars, call, history, Edge, CallAttach, AttachRead, AttachEnable,
                  ConfigureAim, ConfigureEdge, ConfigureSelect, CallDetach, Handler
  <2>2. i \in isr /\ i \in Index
    BY <2>1, <1>1 DEF HandlerRead, Due, IInv, TypeOK
  <2>3. user_interrupts[i] \in Pins /\ PINS(user_interrupts[i]) = i
    BY <1>1, <2>2 DEF IInv, TypeOK, Placed
  <2> QED
    BY <1>1, <2>2, <2>3 DEF IInv, WaitingSeen
<1>2. IInv /\ [Next]_vars =>
        [todo = {} => \A i \in todo' : user_interrupts[i] # None => user_interrupts[i] \in seen]_vars
  BY <1>1
<1> QED
  BY <1>2, InitInv, NextInv, PTL DEF Spec, CalledForCause

=============================================================================
