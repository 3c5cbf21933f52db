-------------------------- MODULE Scheduler_proofs --------------------------
(***************************************************************************)
(* Theorems about Scheduler: its types, that numEvents covers the active   *)
(* events, that schedule finds the slot it was promised, that an accepted  *)
(* event keeps its slot until its last run, that none runs too often, and  *)
(* while the clock does not wrap none too early and none that is due is    *)
(* left behind, for any number of slots and events, when each level is     *)
(* scheduled from one context and no callback resets.  Low priority events *)
(* must not be scheduled by interrupts: the main loop takes them away with *)
(* a load and a store.  Nor must HIGH ones when main resets: between the   *)
(* two loops of reset such an event would be active and not be counted.    *)
(***************************************************************************)
EXTENDS Scheduler, FiniteSetTheorems, TLAPS

\* What the sketch keeps to: one context schedules at each level, interrupts
\* not at LOW, and nobody resets while another is in schedule or handleEvents.
OneCaller ==
  /\ "reset in callback" \notin Calls
  /\ <<"isr", LOW>> \notin Callers
  /\ <<"main", HIGH>> \notin Callers \/ <<"isr", HIGH>> \notin Callers
  /\ "reset" \notin Calls \/ <<"isr", HIGH>> \notin Callers

LEMMA OnlyCaller ==
  ASSUME OneCaller, NEW c \in Contexts, NEW d \in Contexts, NEW p \in Priorities,
         <<c, p>> \in Callers, <<d, p>> \in Callers
  PROVE  c = d
<1>1. (c = "main" \/ c = "isr") /\ (d = "main" \/ d = "isr") /\ (p = HIGH \/ p = LOW)
  BY DEF Contexts, Priorities
<1>2. CASE c = "main" /\ d = "isr"
  BY <1>1, <1>2 DEF OneCaller
<1>3. CASE c = "isr" /\ d = "main"
  BY <1>1, <1>3 DEF OneCaller
<1> QED
  BY <1>1, <1>2, <1>3

-----------------------------------------------------------------------------
\* The number of active events

Size == [p \in Priorities |-> Cardinality(Active(p))]

Call == [id : Nat, prio : Priorities, interval : Nat, runs : Nat, slot : 0 .. Slots, count : Int]
Pass == [prio : Priorities, slot : 0 .. Slots, now : Int, count : Int]
Event == [active : BOOLEAN, id : Nat, interval : Nat, runs : Nat, at : Int]
Points == {"idle", "fault", "r_slot", "r_count"} \cup ScheduleSteps \cup HandleSteps

Typed ==
  /\ pc \in [Contexts -> Points]
  /\ asking \in [Contexts -> Call]
  /\ handling \in [Contexts -> Pass]
  /\ event \in [Priorities -> [Slot -> Event]]
  /\ num \in [Priorities -> Int]
  /\ ms \in Nat

LEMMA Parameters ==
  /\ TimeMod \in Nat \ {0} /\ UsPerMs \in Nat \ {0} /\ MaxEvents \in Nat
  /\ Intervals \subseteq Nat \ {0} /\ Runs \subseteq Nat
BY SchedulerAssumption, Zenon

LEMMA SlotsPositive == Slots \in Nat /\ Slots > 0 /\ 1 \in Slot
<1>1. Slots \in Nat \ {0}
  BY SchedulerAssumption, Zenon
<1> QED
  BY <1>1 DEF Slot

LEMMA ActiveFinite ==
  \A p \in Priorities : /\ IsFiniteSet(Active(p)) /\ Active(p) \subseteq Slot
                        /\ Size[p] = Cardinality(Active(p))
                        /\ Size[p] \in Nat /\ Size[p] <= Slots
<1> SUFFICES ASSUME NEW p \in Priorities
             PROVE  /\ IsFiniteSet(Active(p)) /\ Active(p) \subseteq Slot
                    /\ Size[p] = Cardinality(Active(p))
                    /\ Size[p] \in Nat /\ Size[p] <= Slots
  OBVIOUS
<1>1. Slots \in Nat /\ 1 \in Int /\ Slots \in Int /\ Slots > 0
  BY SlotsPositive
<1>2. IsFiniteSet(Slot) /\ Cardinality(Slot) = Slots
  BY <1>1, FS_Interval DEF Slot
<1>3. Active(p) \subseteq Slot
  BY DEF Active
<1>4. IsFiniteSet(Active(p)) /\ Cardinality(Active(p)) <= Slots
  BY <1>2, <1>3, FS_Subset
<1>5. Cardinality(Active(p)) \in Nat
  BY <1>4, FS_CardinalityType
<1> QED
  BY <1>3, <1>4, <1>5 DEF Size

\* A level with fewer active events than slots has a free one.
LEMMA FreeSlot ==
  ASSUME NEW p \in Priorities, Size[p] < Slots
  PROVE  Free(p) # {} /\ Free(p) \subseteq Slot
<1>1. Slots \in Nat /\ 1 \in Int /\ Slots \in Int /\ Slots > 0
  BY SlotsPositive
<1>2. Cardinality(Slot) = Slots
  BY <1>1, FS_Interval DEF Slot
<1>3. Free(p) = {} => Active(p) = Slot
  BY DEF Active
<1>4. Free(p) \subseteq Slot
  BY DEF Free
<1>5. Size[p] = Cardinality(Active(p))
  BY DEF Size
<1> QED
  BY <1>1, <1>2, <1>3, <1>4, <1>5

LEMMA SizeKept ==
  ASSUME \A p \in Priorities, i \in Slot : event'[p][i].active = event[p][i].active
  PROVE  Size' = Size
<1>1. \A p \in Priorities : Active(p)' = Active(p)
  BY DEF Active, Free
<1> QED
  BY <1>1 DEF Size

\* Where one slot changes.
Elsewhere(p, i) ==
  \A q \in Priorities, j \in Slot :
    <<q, j>> # <<p, i>> => event'[q][j].active = event[q][j].active

LEMMA SizeUp ==
  ASSUME NEW p \in Priorities, NEW i \in Slot, Elsewhere(p, i), event'[p][i].active
  PROVE  /\ Size'[p] <= Size[p] + 1
         /\ \A q \in Priorities : q # p => Size'[q] = Size[q]
<1>1. \A q \in Priorities : q # p => Active(q)' = Active(q)
  BY DEF Active, Free, Elsewhere
<1>2. Active(p)' = Active(p) \cup {i}
  BY DEF Active, Free, Elsewhere
<1>3. IsFiniteSet(Active(p)) /\ Cardinality(Active(p)) \in Nat
  BY ActiveFinite, FS_CardinalityType
<1>4. Cardinality(Active(p)') <= Cardinality(Active(p)) + 1
  <2>1. CASE i \in Active(p)
    <3>1. Active(p)' = Active(p)
      BY <1>2, <2>1
    <3> QED
      BY <1>3, <3>1
  <2>2. CASE i \notin Active(p)
    <3>1. Cardinality(Active(p) \cup {i}) = Cardinality(Active(p)) + 1
      BY <1>3, <2>2, FS_AddElement
    <3> QED
      BY <1>2, <1>3, <3>1
  <2> QED
    BY <2>1, <2>2
<1> QED
  BY <1>1, <1>4 DEF Size

LEMMA SizeDown ==
  ASSUME NEW p \in Priorities, NEW i \in Slot, Elsewhere(p, i),
         event[p][i].active, ~event'[p][i].active
  PROVE  /\ Size'[p] = Size[p] - 1
         /\ \A q \in Priorities : q # p => Size'[q] = Size[q]
<1>1. \A q \in Priorities : q # p => Active(q)' = Active(q)
  BY DEF Active, Free, Elsewhere
<1>2. Active(p)' = Active(p) \ {i} /\ i \in Active(p)
  BY DEF Active, Free, Elsewhere
<1>3. Cardinality(Active(p)') = Cardinality(Active(p)) - 1
  <2>1. IsFiniteSet(Active(p))
    BY ActiveFinite
  <2>2. Cardinality(Active(p) \ {i}) = Cardinality(Active(p)) - 1
    BY <1>2, <2>1, FS_RemoveElement
  <2> QED
    BY <1>2, <2>2
<1> QED
  BY <1>1, <1>3 DEF Size

-----------------------------------------------------------------------------
\* The inductive invariant

\* The level whose events a context handles.
Level(c) == IF c = "main" THEN LOW ELSE HIGH

\* schedule: until the count is stored there is room, and the count it loaded
\* covers the active events.  reset: the slot it clears is one of the table.
Asking(c) ==
  LET a == asking[c] IN
  /\ pc[c] \in ScheduleSteps => <<c, a.prio>> \in Callers
  /\ pc[c] \in {"s_slot", "s_fill", "s_due", "s_load"} => num[a.prio] < Slots
  /\ pc[c] \in {"s_fill", "s_due", "s_load", "s_store", "s_active"} => a.slot \in Slot
  /\ pc[c] = "s_store" => Size[a.prio] <= a.count /\ a.count < Slots
  /\ pc[c] \in {"r_slot", "r_count"} => a.slot \in Slot

\* handleEvents: the event that runs stays active, and nobody else changes the
\* count between its load and its store.
Handling(c) ==
  LET h == handling[c] IN
  /\ pc[c] \in HandleSteps \/ h.slot # 0 => h.prio = Level(c)
  /\ pc[c] \in HandleSteps \ {"h_test"} => h.slot \in Slot
  /\ pc[c] \in ScheduleSteps \cup {"callback", "h_runs"} /\ h.slot # 0 =>
       event[Level(c)][h.slot].active
  /\ pc[c] = "h_store" => h.count = num[Level(c)]
  /\ pc[c] \in {"r_slot", "r_count"} => c = "main" /\ h.slot = 0 /\ "reset" \in Calls
  /\ pc[c] # "fault"

\* The count is ahead of the active events by those that are being added or
\* taken away.
Adding(p) == IF \E c \in Contexts : pc[c] = "s_active" /\ asking[c].prio = p THEN 1 ELSE 0
Retiring(p) ==
  IF \E c \in Contexts : pc[c] \in {"h_load", "h_store"} /\ Level(c) = p THEN 1 ELSE 0
Counted(p) == Size[p] + Adding(p) + Retiring(p) <= num[p] /\ num[p] <= Slots

IInv == /\ Typed
        /\ \A c \in Contexts : Asking(c) /\ Handling(c)
        /\ \A p \in Priorities : Counted(p)

\* What reset cleared stays so: nobody adds an event behind it.  Inductive
\* together with IInv.
Clearing ==
  LET a == asking["main"] IN
  pc["main"] \in {"r_slot", "r_count"} =>
    /\ pc["main"] = "r_count" => a.slot = 1
    /\ \A i \in Slot :
         /\ a.prio = LOW => ~event[HIGH][i].active
         /\ pc["main"] = "r_count" \/ i < a.slot => ~event[a.prio][i].active

LEMMA InitInv == Init => IInv
<1> SUFFICES ASSUME Init PROVE IInv
  OBVIOUS
<1>1. Slots \in Nat /\ Slots > 0
  BY SlotsPositive
<1>2. Typed
  BY <1>1 DEF Init, Typed, Points, Call, Pass, Event, NoCall, Outside, NoEvent,
              Priorities, HIGH, LOW
<1>3. \A p \in Priorities : Size[p] = 0
  <2>1. \A p \in Priorities : Active(p) = {}
    BY DEF Init, Active, Free, NoEvent
  <2> QED
    BY <2>1, FS_EmptySet DEF Size
<1>4. \A c \in Contexts : pc[c] = "idle" /\ handling[c].slot = 0
  BY DEF Init, Outside
<1>5. \A c \in Contexts : Asking(c) /\ Handling(c)
  BY <1>4 DEF Asking, Handling, ScheduleSteps, HandleSteps
<1>6. \A p \in Priorities : Counted(p)
  BY <1>1, <1>3, <1>4 DEF Counted, Adding, Retiring, Init
<1> QED
  BY <1>2, <1>5, <1>6 DEF IInv

-----------------------------------------------------------------------------
\* Steps that change neither a count nor an active flag

\* Only c moves.
Only(c) ==
  \A d \in Contexts \ {c} :
    pc'[d] = pc[d] /\ asking'[d] = asking[d] /\ handling'[d] = handling[d]

SameFlags == \A p \in Priorities, i \in Slot : event'[p][i].active = event[p][i].active

Quiet(c) == Only(c) /\ SameFlags /\ num' = num

LEMMA ClockType == Typed => Clock \in Int /\ \A n \in Nat : (Clock + n) % TimeMod \in Int
<1> SUFFICES ASSUME Typed PROVE Clock \in Int /\ \A n \in Nat : (Clock + n) % TimeMod \in Int
  OBVIOUS
<1>1. Time \in Int
  BY Parameters DEF Time, Typed
<1>2. Clock \in Int
  BY <1>1, Parameters DEF Clock, Typed
<1> QED
  BY <1>2, Parameters

\* When numEvents, the flags and the other context stay, the invariant is about
\* the context that moves, unless it begins to add or to take away.
LEMMA QuietInv ==
  ASSUME IInv, NEW c \in Contexts, Typed', Only(c), SameFlags, num' = num,
         Asking(c)', Handling(c)', pc'[c] # "s_active",
         pc'[c] \in {"h_load", "h_store"} => pc[c] \in {"h_load", "h_store"}
  PROVE  IInv'
<1>1. Size' = Size
  BY SizeKept DEF SameFlags
<1>2. ASSUME NEW d \in Contexts, d # c PROVE Asking(d)' /\ Handling(d)'
  <2>1. pc'[d] = pc[d] /\ asking'[d] = asking[d] /\ handling'[d] = handling[d]
    BY <1>2 DEF Only
  <2>2. Asking(d) /\ Handling(d)
    BY DEF IInv
  <2>3. Asking(d)'
    BY <1>1, <2>1, <2>2 DEF Asking
  <2>4. handling[d].slot # 0 => handling[d].slot \in Slot
    <3>1. handling[d].slot \in 0 .. Slots
      BY DEF IInv, Typed, Pass
    <3> QED
      BY <3>1, SlotsPositive DEF Slot
  <2>5. Level(d) \in Priorities
    BY DEF Level, Priorities
  <2>6. Handling(d)'
    BY <2>1, <2>2, <2>4, <2>5 DEF Handling, SameFlags, Level
  <2> QED
    BY <2>3, <2>6
<1>3. ASSUME NEW p \in Priorities PROVE Counted(p)'
  <2>1. Counted(p)
    BY DEF IInv
  <2>2. Adding(p) \in {0, 1} /\ Adding(p)' \in {0, 1} /\ Adding(p)' <= Adding(p)
    BY DEF Adding, Only
  <2>3. Retiring(p) \in {0, 1} /\ Retiring(p)' \in {0, 1} /\ Retiring(p)' <= Retiring(p)
    BY DEF Retiring, Only, Level
  <2>4. Size[p] \in Nat /\ num[p] \in Int /\ Slots \in Nat
    BY ActiveFinite, SlotsPositive DEF IInv, Typed
  <2> QED
    BY <1>1, <2>1, <2>2, <2>3, <2>4 DEF Counted
<1> QED
  BY <1>2, <1>3 DEF IInv

LEMMA NewCall ==
  ASSUME NEW id \in Nat, NEW p \in Priorities, NEW n \in Nat, NEW r \in Nat
  PROVE  [NoCall EXCEPT !.id = id, !.prio = p, !.interval = n, !.runs = r] \in Call
<1> DEFINE a == [NoCall EXCEPT !.id = id]
           b == [a EXCEPT !.prio = p]
           d == [b EXCEPT !.interval = n]
           e == [d EXCEPT !.runs = r]
<1>1. NoCall \in Call
  BY SlotsPositive DEF NoCall, Call, Priorities
<1>2. a \in Call
  BY <1>1 DEF Call
<1>3. b \in Call
  BY <1>2 DEF Call
<1>4. d \in Call
  BY <1>3 DEF Call
<1>5. e \in Call
  BY <1>4 DEF Call
<1> QED
  BY <1>5

LEMMA CallScheduleInv == ASSUME IInv, NEW c \in Contexts, CallSchedule(c) PROVE IInv' /\ Quiet(c)
<1> USE DEF CallSchedule, Step, table
<1>1. PICK p \in Priorities, n \in Intervals, r \in Runs, id \in Ids :
        CallSchedule(c)!(p, n, r, id)
  BY Zenon
<1>2. n \in Nat /\ r \in Nat /\ id \in Nat /\ 0 \in 0 .. Slots
  BY Parameters, SlotsPositive DEF Ids
<1>3. Typed'
  <2>1. [NoCall EXCEPT !.id = id, !.prio = p, !.interval = n, !.runs = r] \in Call
    BY <1>2, NewCall
  <2>2. asking' \in [Contexts -> Call]
    BY <1>1, <2>1 DEF IInv, Typed
  <2>3. pc' \in [Contexts -> Points]
    BY DEF IInv, Typed, Points, ScheduleSteps
  <2> QED
    BY <2>2, <2>3 DEF IInv, Typed
<1>4. Only(c) /\ SameFlags /\ num' = num
  BY <1>1 DEF Only, SameFlags, IInv, Typed
<1>5. asking'[c].prio = p /\ pc'[c] = "s_room"
  BY <1>1 DEF IInv, Typed, NoCall
<1>6. Asking(c)'
  BY <1>1, <1>5 DEF Asking
<1>7. Handling(c)'
  BY <1>5 DEF IInv, Handling, Caller, ScheduleSteps, HandleSteps
<1> QED
  BY <1>3, <1>4, <1>5, <1>6, <1>7, QuietInv DEF Quiet

LEMMA ScheduleRefuseInv == ASSUME IInv, NEW c \in Contexts, ScheduleRefuse(c) PROVE IInv' /\ Quiet(c)
<1> USE DEF ScheduleRefuse, Step, table
<1>1. Typed'
  BY SlotsPositive DEF IInv, Typed, Call, NoCall, Points, ScheduleSteps, HandleSteps, Caller,
     Priorities
<1>2. Only(c) /\ SameFlags /\ num' = num
  BY DEF Only, SameFlags, IInv, Typed
<1>3. pc'[c] = Caller(c) /\ Caller(c) \in {"idle", "callback"}
  BY DEF IInv, Typed, Caller
<1>4. Asking(c)'
  BY <1>3 DEF Asking, ScheduleSteps
<1>5. Handling(c)'
  BY <1>3, SlotsPositive
  DEF IInv, Typed, Handling, Pass, Slot, Caller, ScheduleSteps, HandleSteps, Level
<1> QED
  BY <1>1, <1>2, <1>3, <1>4, <1>5, QuietInv DEF Quiet

LEMMA ScheduleRoomInv == ASSUME IInv, NEW c \in Contexts, ScheduleRoom(c) PROVE IInv' /\ Quiet(c)
<1> USE DEF ScheduleRoom, Step, table
<1>1. Typed'
  BY DEF IInv, Typed, Points, ScheduleSteps
<1>2. Only(c) /\ SameFlags /\ num' = num
  BY DEF Only, SameFlags, IInv, Typed
<1>3. pc'[c] = "s_slot"
  BY DEF IInv, Typed
<1>4. num[asking[c].prio] < Slots
  <2>1. asking[c].prio \in Priorities
    BY DEF IInv, Typed, Call
  <2>2. num[asking[c].prio] \in Int /\ num[asking[c].prio] <= Slots
    BY <2>1 DEF IInv, Typed, Counted
  <2> QED
    BY <2>2, SlotsPositive
<1>5. Asking(c)'
  BY <1>3, <1>4 DEF IInv, Asking, ScheduleSteps
<1>6. Handling(c)'
  BY <1>3 DEF IInv, Handling, ScheduleSteps, HandleSteps
<1> QED
  BY <1>1, <1>2, <1>3, <1>5, <1>6, QuietInv DEF Quiet

\* The free slot schedule looks for is there.
LEMMA SlotFound ==
  ASSUME IInv, NEW c \in Contexts, pc[c] = "s_slot"
  PROVE  Free(asking[c].prio) # {} /\ Free(asking[c].prio) \subseteq Slot
<1>1. asking[c].prio \in Priorities
  BY DEF IInv, Typed, Call
<1>2. num[asking[c].prio] < Slots /\ Counted(asking[c].prio)
  BY <1>1 DEF IInv, Asking
<1>3. Size[asking[c].prio] < Slots
  BY <1>1, <1>2, ActiveFinite, SlotsPositive DEF IInv, Typed, Counted, Adding, Retiring
<1> QED
  BY <1>1, <1>3, FreeSlot

\* The first of them.
LEMMA FirstFree ==
  ASSUME NEW free, free # {}, free \subseteq Slot
  PROVE  (CHOOSE i \in free : \A j \in free : i <= j) \in free
<1>1. free \in SUBSET Nat
  BY SlotsPositive DEF Slot
<1>2. \E i \in free : \A j \in free : <<j, i>> \notin OpToRel(<, Nat)
  BY <1>1, NatLessThanWellFounded, WFMin
<1>3. \A i, j \in Nat : <<j, i>> \notin OpToRel(<, Nat) => i <= j
  BY DEF OpToRel
<1> QED
  BY <1>1, <1>2, <1>3

LEMMA ScheduleSlotInv == ASSUME IInv, NEW c \in Contexts, ScheduleSlot(c) PROVE IInv' /\ Quiet(c)
<1> USE DEF ScheduleSlot, Step, table
<1> DEFINE free == Free(asking[c].prio)
<1>1. free # {} /\ free \subseteq Slot
  BY SlotFound
<1>2. PICK i \in Slot : asking' = [asking EXCEPT ![c].slot = i]
  BY <1>1, FirstFree
<1>3. pc' = [pc EXCEPT ![c] = "s_fill"]
  BY <1>1
<1> HIDE DEF free, ScheduleSlot
<1>4. i \in 0 .. Slots
  BY SlotsPositive DEF Slot
<1>5. Typed'
  <2>1. asking' \in [Contexts -> Call]
    BY <1>2, <1>4 DEF IInv, Typed, Call
  <2>2. pc' \in [Contexts -> Points]
    BY <1>3 DEF IInv, Typed, Points, ScheduleSteps
  <2> QED
    BY <2>1, <2>2 DEF IInv, Typed, ScheduleSlot
<1>6. Only(c) /\ SameFlags /\ num' = num
  BY <1>2 DEF Only, SameFlags, IInv, Typed, ScheduleSlot
<1>7. pc'[c] = "s_fill" /\ asking'[c].prio = asking[c].prio /\ asking'[c].slot = i
  BY <1>2, <1>3 DEF IInv, Typed, Call
<1>8. Asking(c)'
  BY <1>7 DEF IInv, Asking, ScheduleSteps, ScheduleSlot
<1>9. Handling(c)'
  BY <1>7 DEF IInv, Handling, ScheduleSteps, HandleSteps, ScheduleSlot
<1> QED
  BY <1>5, <1>6, <1>7, <1>8, <1>9, QuietInv DEF Quiet

\* A slot of the table.
LEMMA EventType ==
  ASSUME Typed, NEW p \in Priorities, NEW i \in Slot
  PROVE  event[p][i] \in Event
BY DEF Typed

\* A step that writes slot i of the table of p.
Writes(p, i, e) == event' = [event EXCEPT ![p][i] = e]

LEMMA EventWritten ==
  ASSUME Typed, NEW p \in Priorities, NEW i \in Slot, NEW e \in Event, Writes(p, i, e)
  PROVE  /\ event' \in [Priorities -> [Slot -> Event]]
         /\ event'[p][i] = e
         /\ \A q \in Priorities, j \in Slot : q # p \/ j # i => event'[q][j] = event[q][j]
<1>1. event' \in [Priorities -> [Slot -> Event]]
  BY DEF Typed, Writes
<1>2. event'[p][i] = e
  BY DEF Typed, Writes
<1>3. \A q \in Priorities, j \in Slot : q # p \/ j # i => event'[q][j] = event[q][j]
  BY DEF Typed, Writes
<1> QED
  BY <1>1, <1>2, <1>3

\* Inside of schedule the event that runs stays the same.
LEMMA HandlingKept ==
  ASSUME IInv, NEW c \in Contexts, SameFlags, handling'[c] = handling[c],
         pc[c] \in ScheduleSteps, pc'[c] \in ScheduleSteps
  PROVE  Handling(c)'
<1>1. Level(c) \in Priorities /\ (handling[c].slot # 0 => handling[c].slot \in Slot)
  BY SlotsPositive DEF IInv, Typed, Pass, Slot, Level, Priorities
<1>2. Handling(c)
  BY DEF IInv
<1> QED
  BY <1>1, <1>2 DEF Handling, SameFlags, Level, ScheduleSteps, HandleSteps

LEMMA ScheduleFillInv == ASSUME IInv, NEW c \in Contexts, ScheduleFill(c) PROVE IInv' /\ Quiet(c)
<1> USE DEF ScheduleFill, Step, table
<1> DEFINE a == asking[c]
           e == [event[a.prio][a.slot] EXCEPT !.id = a.id, !.interval = a.interval, !.runs = a.runs]
<1>1. a \in Call /\ a.prio \in Priorities /\ a.slot \in Slot
  BY DEF IInv, Typed, Call, Asking
<1>2. event[a.prio][a.slot] \in Event
  BY <1>1, EventType DEF IInv
<1>3. e \in Event /\ e.active = event[a.prio][a.slot].active
  BY <1>1, <1>2 DEF Call, Event
<1>4. event' = [event EXCEPT ![a.prio][a.slot] = e]
  OBVIOUS
<1> HIDE DEF e
<1>5. event' \in [Priorities -> [Slot -> Event]] /\ SameFlags
  <2> DEFINE p == a.prio
             i == a.slot
  <2>1. p \in Priorities /\ i \in Slot /\ Writes(p, i, e)
    BY <1>1, <1>4 DEF Writes
  <2>2. Typed /\ e.active = event[p][i].active /\ e \in Event
    BY <1>3 DEF IInv
  <2> HIDE DEF p, i, a
  <2> HIDE DEF ScheduleFill, ScheduleDue, e
  <2>3. event' \in [Priorities -> [Slot -> Event]]
    BY <2>1, <2>2, EventWritten
  <2>4. event'[p][i] = e
    BY <2>1, <2>2, EventWritten
  <2>5. \A q \in Priorities, j \in Slot : q # p \/ j # i => event'[q][j] = event[q][j]
    BY <2>1, <2>2, EventWritten
  <2> QED
    BY <2>1, <2>2, <2>3, <2>4, <2>5 DEF SameFlags
<1>6. pc'[c] = "s_due" /\ pc' \in [Contexts -> Points]
  BY DEF IInv, Typed, Points, ScheduleSteps
<1>7. Typed' /\ Only(c)
  BY <1>5, <1>6 DEF IInv, Typed, Only
<1>8. Asking(c)'
  BY <1>6 DEF IInv, Asking, ScheduleSteps
<1>9. Handling(c)'
  BY <1>5, <1>6, HandlingKept DEF ScheduleSteps
<1> QED
  BY <1>5, <1>6, <1>7, <1>8, <1>9, QuietInv DEF Quiet

LEMMA ScheduleDueInv == ASSUME IInv, NEW c \in Contexts, ScheduleDue(c) PROVE IInv' /\ Quiet(c)
<1> USE DEF ScheduleDue, Step, table
<1> DEFINE a == asking[c]
           e == [event[a.prio][a.slot] EXCEPT !.at = (Clock + a.interval) % TimeMod]
<1>1. a \in Call /\ a.prio \in Priorities /\ a.slot \in Slot
  BY DEF IInv, Typed, Call, Asking
<1>2. event[a.prio][a.slot] \in Event /\ (Clock + a.interval) % TimeMod \in Int
  BY <1>1, EventType, ClockType DEF IInv, Call
<1>3. e \in Event /\ e.active = event[a.prio][a.slot].active
  BY <1>1, <1>2 DEF Event
<1>4. event' = [event EXCEPT ![a.prio][a.slot] = e]
  OBVIOUS
<1> HIDE DEF e
<1>5. event' \in [Priorities -> [Slot -> Event]] /\ SameFlags
  <2> DEFINE p == a.prio
             i == a.slot
  <2>1. p \in Priorities /\ i \in Slot /\ Writes(p, i, e)
    BY <1>1, <1>4 DEF Writes
  <2>2. Typed /\ e.active = event[p][i].active /\ e \in Event
    BY <1>3 DEF IInv
  <2> HIDE DEF p, i, a
  <2> HIDE DEF ScheduleFill, ScheduleDue, e
  <2>3. event' \in [Priorities -> [Slot -> Event]]
    BY <2>1, <2>2, EventWritten
  <2>4. event'[p][i] = e
    BY <2>1, <2>2, EventWritten
  <2>5. \A q \in Priorities, j \in Slot : q # p \/ j # i => event'[q][j] = event[q][j]
    BY <2>1, <2>2, EventWritten
  <2> QED
    BY <2>1, <2>2, <2>3, <2>4, <2>5 DEF SameFlags
<1>6. pc'[c] = "s_load" /\ pc' \in [Contexts -> Points]
  BY DEF IInv, Typed, Points, ScheduleSteps
<1>7. Typed' /\ Only(c)
  BY <1>5, <1>6 DEF IInv, Typed, Only
<1>8. Asking(c)'
  BY <1>6 DEF IInv, Asking, ScheduleSteps
<1>9. Handling(c)'
  BY <1>5, <1>6, HandlingKept DEF ScheduleSteps
<1> QED
  BY <1>5, <1>6, <1>7, <1>8, <1>9, QuietInv DEF Quiet

LEMMA ScheduleLoadInv == ASSUME IInv, NEW c \in Contexts, ScheduleLoad(c) PROVE IInv' /\ Quiet(c)
<1> USE DEF ScheduleLoad, Step, table
<1>1. asking[c].prio \in Priorities /\ num[asking[c].prio] \in Int
  BY DEF IInv, Typed, Call
<1>2. Typed'
  BY <1>1 DEF IInv, Typed, Call, Points, ScheduleSteps
<1>3. Only(c) /\ SameFlags /\ num' = num
  BY DEF Only, SameFlags, IInv, Typed
<1>4. /\ pc'[c] = "s_store" /\ asking'[c].prio = asking[c].prio
      /\ asking'[c].slot = asking[c].slot /\ asking'[c].count = num[asking[c].prio]
  BY DEF IInv, Typed, Call
<1>5. Size' = Size
  BY <1>3, SizeKept DEF SameFlags
<1>6. Size[asking[c].prio] <= num[asking[c].prio]
  BY <1>1, ActiveFinite DEF IInv, Counted, Adding, Retiring
<1>7. Asking(c)'
  BY <1>4, <1>5, <1>6 DEF IInv, Asking, ScheduleSteps
<1>8. Handling(c)'
  BY <1>4 DEF IInv, Handling, ScheduleSteps, HandleSteps
<1> QED
  BY <1>2, <1>3, <1>4, <1>7, <1>8, QuietInv DEF Quiet

LEMMA ScheduleEnableInv == ASSUME IInv, NEW c \in Contexts, ScheduleEnable(c) PROVE IInv' /\ Quiet(c)
<1> USE DEF ScheduleEnable, Step, table
<1>1. Typed'
  BY SlotsPositive DEF IInv, Typed, Call, NoCall, Points, ScheduleSteps, HandleSteps, Caller,
     Priorities
<1>2. Only(c) /\ SameFlags /\ num' = num
  BY DEF Only, SameFlags, IInv, Typed
<1>3. pc'[c] = Caller(c) /\ Caller(c) \in {"idle", "callback"}
  BY DEF IInv, Typed, Caller
<1>4. Asking(c)'
  BY <1>3 DEF Asking, ScheduleSteps
<1>5. Handling(c)'
  BY <1>3, SlotsPositive
  DEF IInv, Typed, Handling, Pass, Slot, Caller, ScheduleSteps, HandleSteps, Level
<1> QED
  BY <1>1, <1>2, <1>3, <1>4, <1>5, QuietInv DEF Quiet

-----------------------------------------------------------------------------
\* The steps of schedule that move the count and the flag

\* Two contexts never schedule at the same level.
LEMMA NotBoth ==
  ASSUME OneCaller, IInv, NEW c \in Contexts, NEW d \in Contexts, c # d,
         pc[c] \in ScheduleSteps, pc[d] \in ScheduleSteps
  PROVE  asking[c].prio # asking[d].prio
<1>1. /\ <<c, asking[c].prio>> \in Callers /\ asking[c].prio \in Priorities
      /\ <<d, asking[d].prio>> \in Callers
  BY DEF IInv, Asking, Typed, Call
<1> QED
  BY <1>1, OnlyCaller

LEMMA ScheduleStoreInv ==
  ASSUME OneCaller, IInv, NEW c \in Contexts, ScheduleStore(c) PROVE IInv'
<1> USE DEF ScheduleStore, Step, table
<1> DEFINE p == asking[c].prio
<1>1. /\ p \in Priorities /\ <<c, p>> \in Callers
      /\ asking[c].count \in Int /\ Size[p] <= asking[c].count /\ asking[c].count < Slots
  BY DEF IInv, Typed, Call, Asking, ScheduleSteps
<1>2. Typed'
  BY <1>1 DEF IInv, Typed, Points, ScheduleSteps
<1>3. Only(c) /\ SameFlags /\ Size' = Size
  BY SizeKept DEF Only, SameFlags, IInv, Typed
<1>4. pc'[c] = "s_active" /\ num'[p] = asking[c].count + 1
  BY <1>1 DEF IInv, Typed
<1>5. \A q \in Priorities : q # p => num'[q] = num[q]
  BY <1>1 DEF IInv, Typed
<1>6. Asking(c)'
  BY <1>4 DEF IInv, Asking, ScheduleSteps
<1>7. Handling(c)'
  BY <1>3, <1>4, HandlingKept DEF ScheduleSteps
<1>8. ASSUME NEW d \in Contexts, d # c PROVE Asking(d)'
  <2>1. Asking(d) /\ pc'[d] = pc[d] /\ asking'[d] = asking[d]
    BY <1>3, <1>8 DEF IInv, Only
  <2>2. pc[d] \in ScheduleSteps => asking[d].prio # p /\ asking[d].prio \in Priorities
    BY <1>8, NotBoth DEF IInv, Typed, Call, ScheduleSteps
  <2> QED
    BY <1>3, <1>5, <2>1, <2>2 DEF Asking, ScheduleSteps
\* The other context is main, which never loads a HIGH count to take away.
<1>9. ASSUME NEW d \in Contexts, d # c PROVE Handling(d)'
  <2>1. Handling(d) /\ pc'[d] = pc[d] /\ handling'[d] = handling[d]
    BY <1>3, <1>9 DEF IInv, Only
  <2>2. Level(d) \in Priorities /\ (handling[d].slot # 0 => handling[d].slot \in Slot)
    BY SlotsPositive DEF IInv, Typed, Pass, Slot, Level, Priorities
  <2>3. pc[d] = "h_store" => d = "main" /\ c = "isr"
    BY <1>9 DEF Contexts
  <2>4. pc[d] = "h_store" => p # Level(d)
    BY <1>1, <2>3 DEF Level, OneCaller, Priorities
  <2> QED
    BY <1>3, <1>5, <2>1, <2>2, <2>4 DEF Handling, SameFlags, Level
<1>10. Counted(p)'
  <2>1. Counted(p) /\ Size[p] \in Nat /\ Slots \in Nat
    BY <1>1, ActiveFinite, SlotsPositive DEF IInv
  <2>2. Adding(p)' \in {0, 1}
    BY DEF Adding
  <2>3. Retiring(p)' = 0
    <3>1. ASSUME NEW d \in Contexts, pc'[d] \in {"h_load", "h_store"}, Level(d) = p PROVE FALSE
      <4>1. d # c /\ pc[d] = pc'[d]
        BY <1>3, <1>4, <3>1 DEF Only
      <4>2. d = "main" /\ c = "isr"
        BY <3>1, <4>1 DEF Contexts
      <4> QED
        BY <1>1, <3>1, <4>2 DEF Level, OneCaller
    <3> QED
      BY <3>1 DEF Retiring, Level
  <2> QED
    BY <1>1, <1>3, <1>4, <2>1, <2>2, <2>3 DEF Counted
<1>11. ASSUME NEW q \in Priorities, q # p PROVE Counted(q)'
  <2>1. Counted(q)
    BY DEF IInv
  <2>2. Adding(q)' = Adding(q) /\ Retiring(q)' = Retiring(q)
    BY <1>3, <1>4, <1>11 DEF Adding, Retiring, Only, Level
  <2> QED
    BY <1>3, <1>5, <1>11, <2>1, <2>2 DEF Counted
<1> QED
  BY <1>2, <1>6, <1>7, <1>8, <1>9, <1>10, <1>11 DEF IInv

LEMMA ScheduleActivateInv ==
  ASSUME OneCaller, IInv, NEW c \in Contexts, ScheduleActivate(c) PROVE IInv'
<1> USE DEF ScheduleActivate, Step, table
<1>1. PICK p \in Priorities, i \in Slot :
        p = asking[c].prio /\ i = asking[c].slot /\ Typed /\ pc[c] = "s_active"
  BY DEF IInv, Typed, Call, Asking
<1> DEFINE e == [event[p][i] EXCEPT !.active = TRUE]
<1>2. event[p][i] \in Event
  BY <1>1, EventType
<1>3. e \in Event /\ e.active /\ event' = [event EXCEPT ![p][i] = e]
  BY <1>1, <1>2 DEF Event
<1>4. pc'[c] = "s_enable" /\ pc' \in [Contexts -> Points] /\ Only(c)
  BY DEF IInv, Typed, Points, ScheduleSteps, Only
<1>5. num' = num /\ asking' = asking /\ handling' = handling /\ ms' = ms
  OBVIOUS
<1> HIDE DEF e, ScheduleActivate, Step, table
<1>6. /\ event' \in [Priorities -> [Slot -> Event]]
      /\ event'[p][i] = e
      /\ \A q \in Priorities, j \in Slot : q # p \/ j # i => event'[q][j] = event[q][j]
  <2>1. Typed /\ e \in Event /\ Writes(p, i, e)
    BY <1>1, <1>3 DEF Writes
  <2> QED
    BY <2>1, EventWritten
<1>7. event'[p][i] = e
  BY <1>6
<1>8. \A q \in Priorities, j \in Slot : q # p \/ j # i => event'[q][j] = event[q][j]
  BY <1>6
<1>9. Elsewhere(p, i) /\ event'[p][i].active
  <2>1. Elsewhere(p, i)
    BY <1>8 DEF Elsewhere
  <2> QED
    BY <1>3, <1>7, <2>1
<1>10. \A q \in Priorities, j \in Slot : event[q][j].active => event'[q][j].active
  BY <1>7, <1>8, <1>3
<1>11. Size'[p] <= Size[p] + 1 /\ \A q \in Priorities : q # p => Size'[q] = Size[q]
  <2>1. Size'[p] <= Size[p] + 1
    BY <1>1, <1>9, SizeUp
  <2>2. \A q \in Priorities : q # p => Size'[q] = Size[q]
    BY <1>1, <1>9, SizeUp
  <2> QED
    BY <2>1, <2>2
<1>12. Typed'
  BY <1>4, <1>5, <1>6 DEF IInv, Typed
<1>13. ASSUME NEW d \in Contexts PROVE Asking(d)'
  <2>1. CASE d = c
    <3>1. Asking(c) /\ pc[c] = "s_active" /\ pc'[c] = "s_enable" /\ asking'[c] = asking[c]
      BY <1>1, <1>4, <1>5 DEF IInv
    <3> QED
      BY <2>1, <3>1 DEF Asking, ScheduleSteps
  <2>2. CASE d # c
    <3>1. Asking(d) /\ pc'[d] = pc[d]
      BY <1>4, <2>2 DEF IInv, Only
    <3>2. pc[d] \in ScheduleSteps => asking[d].prio # p /\ asking[d].prio \in Priorities
      BY <1>1, <2>2, NotBoth DEF IInv, Typed, Call, ScheduleSteps
    <3> QED
      BY <1>5, <1>11, <3>1, <3>2 DEF Asking, ScheduleSteps
  <2> QED
    BY <2>1, <2>2
<1>14. ASSUME NEW d \in Contexts PROVE Handling(d)'
  <2>1. /\ Handling(d) /\ handling'[d] = handling[d]
        /\ pc'[d] = pc[d] \/ (pc[d] = "s_active" /\ pc'[d] = "s_enable")
    <3>1. d # c => pc'[d] = pc[d]
      BY <1>4 DEF Only
    <3>2. Handling(d) /\ handling'[d] = handling[d]
      BY <1>5 DEF IInv
    <3> QED
      BY <1>1, <1>4, <3>1, <3>2
  <2>2. Level(d) \in Priorities /\ (handling[d].slot # 0 => handling[d].slot \in Slot)
    BY SlotsPositive DEF IInv, Typed, Pass, Slot, Level, Priorities
  <2> QED
    BY <1>5, <1>10, <2>1, <2>2 DEF Handling, Level, ScheduleSteps, HandleSteps
<1>15. Counted(p)'
  <2>1. Counted(p) /\ Size[p] \in Nat /\ num[p] \in Int
    BY <1>1, ActiveFinite DEF IInv, Typed
  <2>2. Adding(p) = 1
    BY <1>1 DEF Adding
  <2>3. Adding(p)' = 0
    <3>1. ASSUME NEW d \in Contexts, pc'[d] = "s_active", asking[d].prio = p PROVE FALSE
      <4>1. d # c /\ pc[d] = "s_active"
        BY <1>4, <3>1 DEF Only
      <4> QED
        BY <1>1, <3>1, <4>1, NotBoth DEF ScheduleSteps
    <3> QED
      BY <1>5, <3>1 DEF Adding
  <2>4. Retiring(p)' = Retiring(p) /\ Retiring(p) \in {0, 1}
    BY <1>1, <1>4 DEF Retiring, Only, Level
  <2>5. Size'[p] \in Nat
    <3>1. IsFiniteSet(Active(p)')
      <4>1. Active(p)' \subseteq Slot /\ IsFiniteSet(Slot)
        BY SlotsPositive, FS_Interval DEF Active, Slot
      <4> QED
        BY <4>1, FS_Subset
    <3> QED
      BY <1>1, <3>1, FS_CardinalityType DEF Size
  <2> QED
    BY <1>5, <1>11, <2>1, <2>2, <2>3, <2>4, <2>5 DEF Counted
<1>16. ASSUME NEW q \in Priorities, q # p PROVE Counted(q)'
  <2>1. Counted(q)
    BY DEF IInv
  <2>2. Retiring(q)' = Retiring(q)
    BY <1>1, <1>4 DEF Retiring, Only, Level
  <2>3. Adding(q)' = Adding(q)
    BY <1>1, <1>4, <1>5, <1>16 DEF Adding, Only
  <2> QED
    BY <1>5, <1>11, <1>16, <2>1, <2>2, <2>3 DEF Counted
<1> QED
  BY <1>12, <1>13, <1>14, <1>15, <1>16 DEF IInv

-----------------------------------------------------------------------------
\* enable(), disable() and reset()

LEMMA EnableInv == ASSUME IInv, Enable \/ Disable PROVE IInv'
<1>1. /\ pc' = [pc EXCEPT !["main"] = "idle"] /\ pc["main"] = "idle"
      /\ UNCHANGED <<handling, asking, event, num, ms>>
  BY DEF Enable, Disable, Step, table
<1>2. Typed' /\ pc' = pc
  BY <1>1 DEF IInv, Typed
<1>3. Size' = Size
  BY <1>1, SizeKept
<1>4. \A c \in Contexts : Asking(c)' /\ Handling(c)'
  BY <1>1, <1>2, <1>3 DEF IInv, Asking, Handling, Level
<1>5. \A p \in Priorities : Counted(p)'
  BY <1>1, <1>2, <1>3 DEF IInv, Counted, Adding, Retiring, Level
<1> QED
  BY <1>2, <1>4, <1>5 DEF IInv

LEMMA FirstCell ==
  /\ [NoCall EXCEPT !.prio = HIGH, !.slot = 1] \in Call
  /\ [NoCall EXCEPT !.prio = HIGH, !.slot = 1].prio = HIGH
  /\ [NoCall EXCEPT !.prio = HIGH, !.slot = 1].slot = 1
<1> DEFINE a == [NoCall EXCEPT !.prio = HIGH]
           b == [a EXCEPT !.slot = 1]
<1>1. NoCall \in Call /\ HIGH \in Priorities /\ 1 \in 0 .. Slots
  BY SlotsPositive DEF NoCall, Call, Priorities
<1>2. a \in Call /\ a.prio = HIGH
  BY <1>1 DEF Call
<1>3. b \in Call /\ b.prio = HIGH /\ b.slot = 1
  BY <1>1, <1>2 DEF Call
<1> QED
  BY <1>3

LEMMA CallResetInv == ASSUME OneCaller, IInv, NEW c \in Contexts, CallReset(c) PROVE IInv' /\ Quiet(c)
<1> USE DEF CallReset, Step, table
<1>1. c = "main" /\ handling[c].slot = 0 /\ "reset" \in Calls
  BY DEF OneCaller, Contexts
<1>2. pc'[c] = "r_slot" /\ pc' \in [Contexts -> Points]
  BY DEF IInv, Typed, Points
<1>3. asking' \in [Contexts -> Call] /\ asking'[c].slot = 1
  BY FirstCell DEF IInv, Typed
<1>4. Typed' /\ Only(c) /\ SameFlags /\ num' = num
  BY <1>2, <1>3 DEF IInv, Typed, Only, SameFlags
<1>5. Asking(c)' /\ Handling(c)'
  BY <1>1, <1>2, <1>3, SlotsPositive DEF Asking, Handling, ScheduleSteps, HandleSteps
<1> QED
  BY <1>2, <1>4, <1>5, QuietInv DEF Quiet

\* reset runs in main, outside of handleEvents and between two interrupts.
LEMMA Resetting ==
  ASSUME IInv, NEW c \in Contexts, ResetSlot(c) \/ ResetCount(c)
  PROVE  /\ c = "main" /\ handling[c].slot = 0 /\ "reset" \in Calls
         /\ pc["isr"] = "idle" /\ pc'["isr"] = "idle"
         /\ pc[c] \in {"r_slot", "r_count"} /\ pc'[c] \in {"idle", "r_slot", "r_count"}
         /\ asking[c].prio \in Priorities /\ asking[c].slot \in Slot /\ Only(c)
         /\ handling' = handling /\ ms' = ms
<1>1. pc[c] \in {"r_slot", "r_count"} /\ (c = "main" => pc["isr"] = "idle")
  BY DEF ResetSlot, ResetCount, Step
<1>2. c = "main" /\ handling[c].slot = 0 /\ "reset" \in Calls /\ asking[c].slot \in Slot
  BY <1>1 DEF IInv, Handling, Asking
<1>3. asking[c].prio \in Priorities
  BY DEF IInv, Typed, Call
<1>4. Only(c) /\ handling' = handling /\ ms' = ms
  BY DEF ResetSlot, ResetCount, Step, Only, IInv, Typed
<1>5. pc'[c] \in {"idle", "r_slot", "r_count"}
  BY <1>2 DEF ResetSlot, ResetCount, Step, Caller, IInv, Typed
<1>6. pc'["isr"] = "idle"
  BY <1>1, <1>2, <1>4 DEF Only, Contexts
<1> QED
  BY <1>1, <1>2, <1>3, <1>4, <1>5, <1>6

\* One flag of the table goes down.
LEMMA SlotCleared ==
  ASSUME IInv, NEW c \in Contexts, ResetSlot(c)
  PROVE  /\ event' \in [Priorities -> [Slot -> Event]]
         /\ ~event'[asking[c].prio][asking[c].slot].active
         /\ \A q \in Priorities, j \in Slot :
              q # asking[c].prio \/ j # asking[c].slot => event'[q][j] = event[q][j]
<1>1. PICK p \in Priorities, i \in Slot : p = asking[c].prio /\ i = asking[c].slot
  BY Resetting
<1> DEFINE e == [event[p][i] EXCEPT !.active = FALSE]
<1>2. e \in Event /\ ~e.active
  BY EventType DEF IInv, Event
<1>3. Writes(p, i, e)
  BY <1>1 DEF ResetSlot, Writes
<1> HIDE DEF e
<1> QED
  BY <1>1, <1>2, <1>3, EventWritten DEF IInv

\* Nothing else is under way when main clears the table.
LEMMA ResetSlotInv == ASSUME IInv, NEW c \in Contexts, ResetSlot(c) PROVE IInv'
<1>1. PICK p \in Priorities, i \in Slot : p = asking[c].prio /\ i = asking[c].slot
  BY Resetting
<1>2. /\ pc' \in [Contexts -> Points] /\ pc'[c] \in {"r_slot", "r_count"}
      /\ asking' = [asking EXCEPT ![c].slot = IF i = Slots THEN 1 ELSE i + 1]
      /\ num' = num
  BY <1>1 DEF ResetSlot, Step, IInv, Typed, Points
<1>3. (IF i = Slots THEN 1 ELSE i + 1) \in Slot /\ (IF i = Slots THEN 1 ELSE i + 1) \in 0 .. Slots
  BY SlotsPositive DEF Slot
<1>4. asking' \in [Contexts -> Call] /\ asking'[c].slot \in Slot
  <2>1. asking[c] \in Call
    BY DEF IInv, Typed
  <2>2. /\ [asking[c] EXCEPT !.slot = IF i = Slots THEN 1 ELSE i + 1] \in Call
        /\ [asking[c] EXCEPT !.slot = IF i = Slots THEN 1 ELSE i + 1].slot \in Slot
    BY <1>3, <2>1 DEF Call
  <2> QED
    BY <1>2, <2>2 DEF IInv, Typed
<1>5. Typed'
  BY <1>2, <1>4, SlotCleared, Resetting DEF IInv, Typed
<1>6. \A q \in Priorities : Size'[q] <= Size[q] /\ Size'[q] \in Nat /\ Size[q] \in Nat
  <2>1. \A q \in Priorities : Size[q] \in Nat
    BY ActiveFinite
  <2>2. CASE event[p][i].active
    <3>1. Elsewhere(p, i) /\ ~event'[p][i].active
      BY <1>1, SlotCleared DEF Elsewhere
    <3>2. Size'[p] = Size[p] - 1 /\ \A q \in Priorities : q # p => Size'[q] = Size[q]
      BY <2>2, <3>1, SizeDown
    <3>3. Size[p] > 0
      <4>1. i \in Active(p) /\ IsFiniteSet(Active(p)) /\ Size[p] = Cardinality(Active(p))
        BY <2>2, ActiveFinite DEF Active, Free
      <4>2. Cardinality(Active(p)) # 0
        BY <4>1, FS_EmptySet
      <4> QED
        BY <2>1, <4>1, <4>2
    <3> QED
      BY <2>1, <3>2, <3>3
  <2>3. CASE ~event[p][i].active
    <3>1. \A q \in Priorities, j \in Slot : event[q][j] \in Event /\ event'[q][j] \in Event
      BY <1>5, EventType DEF IInv, Typed
    <3>2. SameFlags
      BY <1>1, <2>3, <3>1, SlotCleared DEF SameFlags, Event
    <3> QED
      BY <2>1, <3>2, SizeKept DEF SameFlags
  <2> QED
    BY <2>2, <2>3
<1>7. ASSUME NEW d \in Contexts PROVE Asking(d)' /\ Handling(d)'
  <2>1. d = c \/ (d # c /\ pc'[d] = "idle" /\ pc[d] = "idle")
    BY Resetting DEF Contexts
  <2>2. Asking(d)'
    BY <1>2, <1>4, <2>1 DEF Asking, ScheduleSteps
  <2>3. Handling(d)'
    BY <1>2, <2>1, Resetting DEF IInv, Handling, ScheduleSteps, HandleSteps, Level
  <2> QED
    BY <2>2, <2>3
<1>8. ASSUME NEW q \in Priorities PROVE Counted(q)'
  <2>1. Counted(q) /\ num[q] \in Int /\ Slots \in Nat
    BY SlotsPositive DEF IInv, Typed
  <2>2. Adding(q)' = 0 /\ Retiring(q)' = 0
    BY <1>2, Resetting DEF Adding, Retiring, Contexts, Level
  <2>3. Adding(q) \in {0, 1} /\ Retiring(q) \in {0, 1}
    BY DEF Adding, Retiring
  <2> QED
    BY <1>2, <1>6, <2>1, <2>2, <2>3 DEF Counted
<1> QED
  BY <1>5, <1>7, <1>8 DEF IInv

\* The count is zeroed when its level is clear.
LEMMA ResetCountInv == ASSUME IInv, Clearing, NEW c \in Contexts, ResetCount(c) PROVE IInv'
<1>1. PICK p \in Priorities : p = asking[c].prio
  BY Resetting
<1>2. /\ pc' \in [Contexts -> Points] /\ pc'[c] \in {"idle", "r_slot"} /\ pc[c] = "r_count"
      /\ num' = [num EXCEPT ![p] = 0] /\ event' = event
      /\ asking' = [asking EXCEPT ![c] = IF p = HIGH THEN [asking[c] EXCEPT !.prio = LOW] ELSE NoCall]
      /\ p = HIGH <=> pc'[c] = "r_slot"
  BY <1>1, Resetting DEF ResetCount, Step, Caller, IInv, Typed, Points
<1>3. asking' \in [Contexts -> Call] /\ (pc'[c] = "r_slot" => asking'[c].slot \in Slot)
  <2>1. asking[c] \in Call /\ NoCall \in Call /\ asking[c].slot \in Slot
    BY Resetting, SlotsPositive DEF IInv, Typed, NoCall, Call, Priorities
  <2>2. [asking[c] EXCEPT !.prio = LOW] \in Call /\ [asking[c] EXCEPT !.prio = LOW].slot \in Slot
    BY <2>1 DEF Call, Priorities
  <2> QED
    BY <1>2, <2>1, <2>2 DEF IInv, Typed
<1>4. Typed' /\ Size' = Size
  BY <1>2, <1>3, Resetting, SizeKept DEF IInv, Typed
<1>5. Size[p] = 0
  <2>1. Active(p) = {}
    BY <1>1, <1>2, Resetting DEF Clearing, Active, Free
  <2> QED
    BY <2>1, FS_EmptySet DEF Size
<1>6. ASSUME NEW d \in Contexts PROVE Asking(d)' /\ Handling(d)'
  <2>1. d = c \/ (d # c /\ pc'[d] = "idle" /\ pc[d] = "idle")
    BY Resetting DEF Contexts
  <2>2. Asking(d)'
    BY <1>2, <1>3, <2>1 DEF Asking, ScheduleSteps
  <2>3. Handling(d)'
    BY <1>2, <2>1, Resetting DEF IInv, Handling, ScheduleSteps, HandleSteps, Level
  <2> QED
    BY <2>2, <2>3
<1>7. ASSUME NEW q \in Priorities PROVE Counted(q)'
  <2>1. Counted(q) /\ num[q] \in Int /\ Slots \in Nat /\ Size[q] \in Nat
    BY SlotsPositive, ActiveFinite DEF IInv, Typed
  <2>2. Adding(q)' = 0 /\ Retiring(q)' = 0
    BY <1>2, Resetting DEF Adding, Retiring, Contexts, Level
  <2>3. Adding(q) \in {0, 1} /\ Retiring(q) \in {0, 1}
    BY DEF Adding, Retiring
  <2>4. num'[q] = IF q = p THEN 0 ELSE num[q]
    BY <1>2 DEF IInv, Typed
  <2> QED
    BY <1>4, <1>5, <2>1, <2>2, <2>3, <2>4 DEF Counted
<1> QED
  BY <1>4, <1>6, <1>7 DEF IInv

-----------------------------------------------------------------------------
\* handleEvents

LEMMA OutsideType == Outside \in Pass /\ Outside.slot = 0
BY SlotsPositive DEF Outside, Pass, Priorities

LEMMA HandleTestInv == ASSUME IInv, NEW c \in Contexts, HandleTest(c) PROVE IInv' /\ Quiet(c)
<1> USE DEF HandleTest, Step, table
<1>1. Clock \in Int /\ 0 \in 0 .. Slots /\ 1 \in 0 .. Slots /\ 1 \in Slot /\ LOW \in Priorities
  BY ClockType, SlotsPositive DEF IInv, Priorities
<1>2. pc' \in [Contexts -> Points] /\ pc'[c] \in {"idle", "h_look"}
  BY DEF IInv, Typed, Points, HandleSteps
<1>3. handling' \in [Contexts -> Pass]
  <2>1. CASE ~enabled \/ num[Prio(c)] = 0
    BY <2>1, OutsideType DEF IInv, Typed
  <2>2. CASE ~(~enabled \/ num[Prio(c)] = 0)
    <3>1. \A h \in Pass : [[h EXCEPT !.slot = 1] EXCEPT !.now = Clock] \in Pass
      BY <1>1 DEF Pass
    <3>2. handling' = [handling EXCEPT ![c] = [[handling[c] EXCEPT !.slot = 1] EXCEPT !.now = Clock]]
      BY <2>2 DEF IInv, Typed
    <3>3. handling[c] \in Pass
      BY DEF IInv, Typed
    <3> QED
      BY <3>1, <3>2, <3>3 DEF IInv, Typed
  <2> QED
    BY <2>1, <2>2
<1>4. Typed' /\ Only(c) /\ SameFlags /\ num' = num
  BY <1>2, <1>3 DEF IInv, Typed, Only, SameFlags
<1>5. Asking(c)'
  BY <1>2 DEF Asking, ScheduleSteps
<1>6. handling[c] \in Pass /\ handling[c].prio = Level(c)
  BY DEF IInv, Typed, Handling, HandleSteps
<1>7. pc'[c] = "h_look" => handling'[c].slot = 1 /\ handling'[c].prio = Level(c)
  BY <1>6 DEF IInv, Typed, Pass
<1>8. pc'[c] = "idle" => handling'[c].slot = 0
  BY DEF IInv, Typed, Outside
<1>9. Handling(c)'
  BY <1>1, <1>2, <1>7, <1>8 DEF Handling, ScheduleSteps, HandleSteps, Level
<1> QED
  BY <1>2, <1>4, <1>5, <1>9, QuietInv DEF Quiet

LEMMA NextPass ==
  ASSUME NEW h \in Pass, NEW i \in 0 .. Slots
  PROVE  LET g == [[h EXCEPT !.slot = i] EXCEPT !.count = 0]
         IN  g \in Pass /\ g.slot = i /\ g.prio = h.prio
<1> DEFINE f == [h EXCEPT !.slot = i]
           g == [f EXCEPT !.count = 0]
<1>1. f \in Pass /\ f.slot = i /\ f.prio = h.prio
  BY DEF Pass
<1> HIDE DEF f
<1>2. g \in Pass /\ g.slot = f.slot /\ g.prio = f.prio
  BY <1>1 DEF Pass
<1> QED
  BY <1>1, <1>2 DEF f

\* The context leaves the loop or looks at the next slot.
LEMMA Advanced ==
  ASSUME IInv, NEW c \in Contexts, NEW from \in {"h_look", "h_next"}, Advance(c, from)
  PROVE  /\ pc' \in [Contexts -> Points] /\ pc'[c] \in {"idle", "h_look"}
         /\ handling' \in [Contexts -> Pass]
         /\ \A d \in Contexts \ {c} : pc'[d] = pc[d] /\ handling'[d] = handling[d]
         /\ pc'[c] = "h_look" => handling'[c].slot \in Slot /\ handling'[c].prio = Level(c)
         /\ pc'[c] = "idle" => handling'[c].slot = 0
<1> USE DEF Advance, Step
<1>1. /\ pc[c] \in HandleSteps \ {"h_test"} /\ handling[c] \in Pass
      /\ handling[c].prio = Level(c) /\ handling[c].slot \in Slot
  BY DEF IInv, Typed, Handling, HandleSteps
<1>2. pc' \in [Contexts -> Points] /\ pc'[c] \in {"idle", "h_look"}
  BY DEF IInv, Typed, Points, HandleSteps
<1>3. 0 \in 0 .. Slots /\ LOW \in Priorities
  BY SlotsPositive DEF Priorities
<1>4. CASE handling[c].slot < Slots
  <2>1. handling[c].slot + 1 \in Slot /\ handling[c].slot + 1 \in 0 .. Slots
    BY <1>1, <1>4, SlotsPositive DEF Slot
  <2>2. handling' = [handling EXCEPT ![c].slot = @ + 1, ![c].count = 0] /\ pc'[c] = "h_look"
    BY <1>4 DEF IInv, Typed
  <2>3. handling'[c] = [[handling[c] EXCEPT !.slot = handling[c].slot + 1] EXCEPT !.count = 0]
    BY <2>2 DEF IInv, Typed
  <2>4. /\ handling'[c] \in Pass /\ handling'[c].slot = handling[c].slot + 1
        /\ handling'[c].prio = handling[c].prio
    <3> DEFINE h == handling[c]
               i == handling[c].slot + 1
    <3>1. h \in Pass /\ i \in 0 .. Slots
      BY <1>1, <2>1
    <3>2. handling'[c] = [[h EXCEPT !.slot = i] EXCEPT !.count = 0]
      BY <2>3
    <3> DEFINE g == [[h EXCEPT !.slot = i] EXCEPT !.count = 0]
    <3> HIDE DEF h, i
    <3>3. g \in Pass
      BY <3>1, NextPass
    <3>4. g.slot = i
      BY <3>1, NextPass
    <3>5. g.prio = h.prio
      BY <3>1, NextPass
    <3> HIDE DEF g
    <3>6. handling'[c] = g
      BY <3>2 DEF g
    <3> QED
      BY <3>3, <3>4, <3>5, <3>6 DEF h, i
  <2>5. handling' \in [Contexts -> Pass]
    BY <2>2, <2>4 DEF IInv, Typed
  <2> QED
    BY <1>1, <1>2, <2>1, <2>2, <2>4, <2>5 DEF IInv, Typed
<1>5. CASE ~(handling[c].slot < Slots)
  BY <1>2, <1>5, OutsideType DEF IInv, Typed
<1> QED
  BY <1>4, <1>5

LEMMA HandleSkipInv == ASSUME IInv, NEW c \in Contexts, HandleSkip(c) PROVE IInv' /\ Quiet(c)
<1>1. Advance(c, "h_look") /\ UNCHANGED <<asking, event, num, ms>>
  BY DEF HandleSkip, table
<1>2. /\ pc' \in [Contexts -> Points] /\ pc'[c] \in {"idle", "h_look"}
      /\ handling' \in [Contexts -> Pass]
      /\ \A d \in Contexts \ {c} : pc'[d] = pc[d] /\ handling'[d] = handling[d]
      /\ pc'[c] = "h_look" => handling'[c].slot \in Slot /\ handling'[c].prio = Level(c)
      /\ pc'[c] = "idle" => handling'[c].slot = 0
  BY <1>1, Advanced
<1>3. Typed' /\ Only(c) /\ SameFlags /\ num' = num
  BY <1>1, <1>2 DEF IInv, Typed, Only, SameFlags
<1>4. Asking(c)'
  BY <1>2 DEF Asking, ScheduleSteps
<1>5. Handling(c)'
  BY <1>2 DEF Handling, ScheduleSteps, HandleSteps, Level
<1> QED
  BY <1>2, <1>3, <1>4, <1>5, QuietInv DEF Quiet

LEMMA HandleRunInv == ASSUME IInv, NEW c \in Contexts, HandleRun(c) PROVE IInv' /\ Quiet(c)
<1> USE DEF HandleRun, Step, table
<1>1. Typed' /\ Only(c) /\ SameFlags /\ num' = num /\ pc'[c] = "callback"
  BY DEF IInv, Typed, Only, SameFlags, Points, HandleSteps
<1>2. Asking(c)'
  BY <1>1 DEF Asking, ScheduleSteps
<1>3. Handling(c) /\ handling'[c] = handling[c] /\ pc[c] = "h_look" /\ This(c).active
  BY DEF IInv, Elapsed
<1>4. Level(c) = handling[c].prio /\ event[Level(c)][handling[c].slot].active
  BY <1>3 DEF Handling, HandleSteps, This, Prio
<1>5. Handling(c)'
  BY <1>1, <1>3, <1>4 DEF Handling, HandleSteps, ScheduleSteps, Level
<1> QED
  BY <1>1, <1>2, <1>5, QuietInv DEF Quiet

LEMMA CallbackReturnInv == ASSUME IInv, NEW c \in Contexts, CallbackReturn(c) PROVE IInv' /\ Quiet(c)
<1> USE DEF CallbackReturn, Step, table
<1>1. Typed' /\ Only(c) /\ SameFlags /\ num' = num /\ pc'[c] = "h_runs"
  BY DEF IInv, Typed, Only, SameFlags, Points, HandleSteps
<1>2. Asking(c)'
  BY <1>1 DEF Asking, ScheduleSteps
<1>3. Handling(c) /\ handling'[c] = handling[c] /\ pc[c] = "callback" /\ event' = event
  BY DEF IInv
<1>4. Handling(c)'
  BY <1>1, <1>3 DEF Handling, HandleSteps, ScheduleSteps, Level
<1> QED
  BY <1>1, <1>2, <1>4, QuietInv DEF Quiet

LEMMA HandleLoadInv == ASSUME IInv, NEW c \in Contexts, HandleLoad(c) PROVE IInv' /\ Quiet(c)
<1> USE DEF HandleLoad, Step, table
<1>1. /\ Handling(c) /\ pc[c] = "h_load" /\ handling[c] \in Pass /\ Level(c) \in Priorities
      /\ handling[c].prio = Level(c) /\ handling[c].slot \in Slot
  BY DEF IInv, Typed, Handling, HandleSteps, Level, Priorities
<1>2. num[Prio(c)] \in Int
  BY <1>1 DEF IInv, Typed, Prio
<1>3. Typed' /\ Only(c) /\ SameFlags /\ num' = num /\ pc'[c] = "h_store"
  BY <1>2 DEF IInv, Typed, Only, SameFlags, Points, HandleSteps, Pass
<1>4. Asking(c)'
  BY <1>3 DEF Asking, ScheduleSteps
<1>5. /\ handling'[c].count = num[Level(c)] /\ handling'[c].slot = handling[c].slot
      /\ handling'[c].prio = handling[c].prio
  BY <1>1 DEF IInv, Typed, Pass, Prio
<1>6. Handling(c)'
  BY <1>1, <1>3, <1>5 DEF Handling, HandleSteps, ScheduleSteps, Level
<1> QED
  BY <1>1, <1>3, <1>4, <1>6, QuietInv DEF Quiet

\* Only the flag of the event that just ran goes down, and the count after it.
LEMMA HandleRunsInv == ASSUME IInv, NEW c \in Contexts, HandleRuns(c) PROVE IInv'
<1> USE DEF HandleRuns, Step, table
<1>1. PICK p \in Priorities, i \in Slot :
        /\ p = Level(c) /\ i = handling[c].slot /\ p = Prio(c) /\ event[p][i].active
        /\ Typed /\ Handling(c) /\ pc[c] = "h_runs"
  <2>1. /\ Handling(c) /\ Typed /\ pc[c] = "h_runs" /\ Level(c) \in Priorities
    BY DEF IInv, Level, Priorities
  <2>2. /\ handling[c].prio = Level(c) /\ handling[c].slot \in Slot /\ handling[c].slot # 0
        /\ event[Level(c)][handling[c].slot].active
    BY <2>1, SlotsPositive DEF Handling, HandleSteps, Slot
  <2> QED
    BY <2>1, <2>2 DEF Prio
<1>2. event[p][i] \in Event /\ This(c) = event[p][i]
  BY <1>1, EventType DEF This
<1> DEFINE runs == event[p][i].runs
           e == [event[p][i] EXCEPT !.active = This(c).active /\ runs # 1,
                                    !.runs = IF runs > 1 THEN runs - 1 ELSE runs]
<1>3. Writes(p, i, e)
  BY <1>1, <1>2 DEF Writes
<1>4. e \in Event /\ e.active = (runs # 1)
  <2>1. runs \in Nat /\ (IF runs > 1 THEN runs - 1 ELSE runs) \in Nat
    BY <1>2 DEF Event
  <2>2. [event[p][i] EXCEPT !.active = This(c).active /\ runs # 1] \in Event
    BY <1>2 DEF Event
  <2> QED
    BY <1>1, <1>2, <2>1, <2>2 DEF Event
<1>5. /\ pc' \in [Contexts -> Points] /\ pc'[c] = IF runs = 1 THEN "h_load" ELSE "h_next"
      /\ Only(c)
  BY <1>1, <1>2 DEF Typed, Points, HandleSteps, Only
<1>6. num' = num /\ asking' = asking /\ handling' = handling /\ ms' = ms
  OBVIOUS
<1> HIDE DEF e, HandleRuns
<1>7. event' \in [Priorities -> [Slot -> Event]]
  BY <1>1, <1>3, <1>4, EventWritten
<1>8. event'[p][i] = e
  BY <1>1, <1>3, <1>4, EventWritten
<1>9. \A q \in Priorities, j \in Slot : q # p \/ j # i => event'[q][j] = event[q][j]
  BY <1>1, <1>3, <1>4, EventWritten
<1>10. Typed'
  BY <1>5, <1>6, <1>7 DEF IInv, Typed
<1>11. Asking(c)'
  BY <1>5 DEF Asking, ScheduleSteps
<1>12. Handling(c)'
  BY <1>1, <1>5, <1>6 DEF Handling, ScheduleSteps, HandleSteps, Level
<1>13. CASE runs # 1
  <2>1. SameFlags
    BY <1>1, <1>4, <1>8, <1>9, <1>13 DEF SameFlags
  <2> QED
    BY <1>5, <1>6, <1>10, <1>11, <1>12, <1>13, <2>1, QuietInv
<1>14. CASE runs = 1
  <2>1. Elsewhere(p, i) /\ ~event'[p][i].active
    BY <1>4, <1>8, <1>9, <1>14 DEF Elsewhere
  <2>2. Size'[p] = Size[p] - 1
    BY <1>1, <2>1, SizeDown
  <2>3. \A q \in Priorities : q # p => Size'[q] = Size[q]
    BY <1>1, <2>1, SizeDown
  <2>4. \A q \in Priorities : Size[q] \in Nat /\ num[q] \in Int
    BY ActiveFinite DEF IInv, Typed
  <2>5. \A q \in Priorities : Size'[q] <= Size[q]
    BY <2>2, <2>3, <2>4
  <2>6. ASSUME NEW d \in Contexts, d # c PROVE Asking(d)' /\ Handling(d)'
    <3>1. Asking(d) /\ Handling(d) /\ pc'[d] = pc[d] /\ asking'[d] = asking[d]
      BY <1>5, <2>6 DEF IInv, Only
    <3>2. asking[d].prio \in Priorities /\ asking[d].count \in Int
      BY DEF IInv, Typed, Call
    <3>3. Size'[asking[d].prio] \in Int /\ Size[asking[d].prio] \in Int
      BY <2>2, <2>3, <2>4, <3>2
    <3>4. Asking(d)'
      <4>1. Size[asking[d].prio] <= asking[d].count => Size'[asking[d].prio] <= asking[d].count
        BY <2>5, <3>2, <3>3
      <4> QED
        BY <1>6, <3>1, <4>1 DEF Asking
    <3>5. Level(d) \in Priorities /\ Level(d) # p
      BY <1>1, <2>6 DEF Level, Priorities, Contexts, HIGH, LOW
    <3>6. handling[d].slot # 0 => handling[d].slot \in Slot
      BY SlotsPositive DEF IInv, Typed, Pass, Slot
    <3>7. Handling(d)'
      BY <1>6, <1>9, <3>1, <3>5, <3>6 DEF Handling, Level
    <3> QED
      BY <3>4, <3>7
  <2>7. ASSUME NEW q \in Priorities PROVE Counted(q)'
    <3>1. Counted(q)
      BY DEF IInv
    <3>2. Adding(q)' = Adding(q) /\ Adding(q) \in {0, 1}
      BY <1>1, <1>5, <1>6 DEF Adding, Only
    <3>3. Retiring(q) \in {0, 1} /\ Retiring(q)' \in {0, 1}
      BY DEF Retiring
    <3>4. CASE q = p
      BY <1>6, <2>2, <2>4, <3>1, <3>2, <3>3, <3>4 DEF Counted
    <3>5. CASE q # p
      <4>1. Retiring(q)' = Retiring(q)
        BY <1>1, <1>5, <3>5 DEF Retiring, Only, Level
      <4> QED
        BY <1>6, <2>3, <3>1, <3>2, <3>5, <4>1 DEF Counted
    <3> QED
      BY <3>4, <3>5
  <2> QED
    BY <1>10, <1>11, <1>12, <2>6, <2>7 DEF IInv
<1> QED
  BY <1>13, <1>14

LEMMA HandleStoreInv == ASSUME IInv, NEW c \in Contexts, HandleStore(c) PROVE IInv'
<1> USE DEF HandleStore, Step, table
<1>1. PICK p \in Priorities :
        /\ p = Level(c) /\ p = Prio(c) /\ handling[c].count = num[p] /\ pc[c] = "h_store"
        /\ handling[c].slot \in Slot /\ Typed
  <2>1. Handling(c) /\ Typed /\ pc[c] = "h_store" /\ Level(c) \in Priorities
    BY DEF IInv, Level, Priorities
  <2> QED
    BY <2>1 DEF Handling, HandleSteps, Prio
<1>2. num[p] \in Int /\ num' = [num EXCEPT ![p] = num[p] - 1]
  BY <1>1 DEF Typed
<1>3. num' \in [Priorities -> Int] /\ num'[p] = num[p] - 1
  BY <1>1, <1>2 DEF Typed
<1>4. \A q \in Priorities : q # p => num'[q] = num[q]
  BY <1>1, <1>2 DEF Typed
<1>5. pc' \in [Contexts -> Points] /\ pc'[c] = "h_next" /\ Only(c)
  BY <1>1 DEF Typed, Points, HandleSteps, Only
<1>6. Typed' /\ SameFlags /\ Size' = Size /\ handling' = handling /\ asking' = asking
  BY <1>3, <1>5, SizeKept DEF IInv, Typed, SameFlags
<1>7. Asking(c)'
  BY <1>5 DEF Asking, ScheduleSteps
<1>8. Handling(c)'
  BY <1>1, <1>5, <1>6 DEF IInv, Handling, ScheduleSteps, HandleSteps, Level
<1>9. ASSUME NEW d \in Contexts, d # c PROVE Asking(d)' /\ Handling(d)'
  <2>1. Asking(d) /\ Handling(d) /\ pc'[d] = pc[d]
    BY <1>5, <1>9 DEF IInv, Only
  <2>2. asking[d].prio \in Priorities /\ num[asking[d].prio] \in Int /\ Slots \in Nat
    BY SlotsPositive DEF IInv, Typed, Call
  <2>3. num[asking[d].prio] < Slots => num'[asking[d].prio] < Slots
    BY <1>2, <1>3, <1>4, <2>2
  <2>4. Asking(d)'
    BY <1>6, <2>1, <2>3 DEF Asking
  <2>5. Level(d) \in Priorities /\ Level(d) # p
    BY <1>1, <1>9 DEF Level, Priorities, Contexts, HIGH, LOW
  <2>6. handling[d].slot # 0 => handling[d].slot \in Slot
    BY SlotsPositive DEF IInv, Typed, Pass, Slot
  <2>7. Handling(d)'
    BY <1>4, <1>6, <2>1, <2>5, <2>6 DEF Handling, SameFlags, Level
  <2> QED
    BY <2>4, <2>7
<1>10. ASSUME NEW q \in Priorities PROVE Counted(q)'
  <2>1. Counted(q) /\ Size[q] \in Nat /\ Slots \in Nat
    BY ActiveFinite, SlotsPositive DEF IInv
  <2>2. Adding(q)' = Adding(q) /\ Adding(q) \in {0, 1}
    BY <1>1, <1>5, <1>6 DEF Adding, Only
  <2>3. CASE q = p
    <3>1. Retiring(q) = 1
      BY <1>1, <2>3 DEF Retiring
    <3>2. Retiring(q)' = 0
      BY <1>1, <1>5, <2>3 DEF Retiring, Only, Level, Contexts, HIGH, LOW
    <3> QED
      BY <1>2, <1>3, <1>6, <2>1, <2>2, <2>3, <3>1, <3>2 DEF Counted
  <2>4. CASE q # p
    <3>1. Retiring(q)' = Retiring(q)
      BY <1>1, <1>5, <2>4 DEF Retiring, Only, Level
    <3> QED
      BY <1>4, <1>6, <2>1, <2>2, <2>4, <3>1 DEF Counted
  <2> QED
    BY <2>3, <2>4
<1> QED
  BY <1>6, <1>7, <1>8, <1>9, <1>10 DEF IInv

LEMMA HandleNextInv == ASSUME IInv, NEW c \in Contexts, HandleNext(c) PROVE IInv' /\ Quiet(c)
<1>1. PICK p \in Priorities, i \in Slot :
        /\ p = Prio(c) /\ i = handling[c].slot /\ Typed /\ pc[c] = "h_next"
  <2>1. Handling(c) /\ Typed /\ pc[c] = "h_next" /\ Level(c) \in Priorities
    BY DEF IInv, Level, Priorities, HandleNext, Advance, Step
  <2> QED
    BY <2>1 DEF Handling, HandleSteps, Prio
<1> DEFINE e == [event[p][i] EXCEPT !.at = (This(c).at + This(c).interval) % TimeMod]
<1>2. event[p][i] \in Event /\ This(c) = event[p][i]
  BY <1>1, EventType DEF This
<1>3. Writes(p, i, e) /\ UNCHANGED <<asking, num, ms>>
  BY <1>1 DEF HandleNext, Writes
<1>4. e \in Event /\ e.active = event[p][i].active
  <2>1. (This(c).at + This(c).interval) % TimeMod \in Int
    BY <1>2, Parameters DEF Event
  <2> QED
    BY <1>2, <2>1 DEF Event
<1> HIDE DEF e
<1>5. event' \in [Priorities -> [Slot -> Event]]
  BY <1>1, <1>3, <1>4, EventWritten
<1>6. event'[p][i] = e
  BY <1>1, <1>3, <1>4, EventWritten
<1>7. \A q \in Priorities, j \in Slot : q # p \/ j # i => event'[q][j] = event[q][j]
  BY <1>1, <1>3, <1>4, EventWritten
<1>8. SameFlags
  BY <1>4, <1>6, <1>7 DEF SameFlags
<1>9. Advance(c, "h_next")
  BY DEF HandleNext
<1>10. /\ pc' \in [Contexts -> Points] /\ pc'[c] \in {"idle", "h_look"}
       /\ handling' \in [Contexts -> Pass]
       /\ \A d \in Contexts \ {c} : pc'[d] = pc[d] /\ handling'[d] = handling[d]
       /\ pc'[c] = "h_look" => handling'[c].slot \in Slot /\ handling'[c].prio = Level(c)
       /\ pc'[c] = "idle" => handling'[c].slot = 0
  BY <1>9, Advanced
<1>11. Typed' /\ Only(c)
  BY <1>3, <1>5, <1>10 DEF IInv, Typed, Only
<1>12. Asking(c)'
  BY <1>10 DEF Asking, ScheduleSteps
<1>13. Handling(c)'
  BY <1>10 DEF Handling, ScheduleSteps, HandleSteps, Level
<1> QED
  BY <1>3, <1>8, <1>10, <1>11, <1>12, <1>13, QuietInv DEF Quiet

-----------------------------------------------------------------------------
\* The main loop and the interrupts

\* A context that does nothing calls handleEvents for its level.
LEMMA BeginInv ==
  ASSUME IInv, NEW c \in Contexts, Step(c, "idle", "h_test"),
         handling' = [handling EXCEPT ![c].prio = Level(c)],
         UNCHANGED <<asking, event, num>>, ms' \in Nat
  PROVE  IInv' /\ Quiet(c)
<1> USE DEF Step
<1>1. Level(c) \in Priorities
  BY DEF Level, Priorities
<1>2. Typed' /\ Only(c) /\ SameFlags /\ num' = num /\ pc'[c] = "h_test"
  BY <1>1 DEF IInv, Typed, Only, SameFlags, Points, HandleSteps, Pass
<1>3. Asking(c)'
  BY <1>2 DEF Asking, ScheduleSteps
<1>4. handling'[c].prio = Level(c)
  BY DEF IInv, Typed, Pass
<1>5. Handling(c)'
  BY <1>2, <1>4 DEF Handling, ScheduleSteps, HandleSteps, Level
<1> QED
  BY <1>2, <1>3, <1>5, QuietInv DEF Quiet

LEMMA CallHandleInv == ASSUME IInv, CallHandle PROVE IInv'
<1>1. "main" \in Contexts /\ Level("main") = LOW /\ ms \in Nat
  BY DEF Contexts, Level, IInv, Typed
<1>2. Step("main", "idle", "h_test") /\ handling' = [handling EXCEPT !["main"].prio = Level("main")]
  BY <1>1 DEF CallHandle
<1>3. UNCHANGED <<asking, event, num>> /\ ms' \in Nat
  BY <1>1 DEF CallHandle, table
<1> QED
  BY <1>1, <1>2, <1>3, BeginInv

LEMMA InterruptInv == ASSUME IInv, Interrupt PROVE IInv'
<1>1. "isr" \in Contexts /\ Level("isr") = HIGH /\ ms \in Nat
  BY DEF Contexts, Level, IInv, Typed
<1>2. UNCHANGED <<asking, event, num>> /\ ms' \in Nat
  BY <1>1 DEF Interrupt, TC0_Handler, TC2_Handler, table
<1>3. CASE StartInterrupt
  <2>1. Step("isr", "idle", "h_test") /\ handling' = [handling EXCEPT !["isr"].prio = Level("isr")]
    BY <1>1, <1>3 DEF StartInterrupt
  <2> QED
    BY <1>1, <1>2, <2>1, BeginInv
<1>4. CASE UNCHANGED <<pc, handling>>
  <2>1. Size' = Size
    BY <1>2, SizeKept
  <2> QED
    BY <1>2, <1>4, <2>1 DEF IInv, Typed, Asking, Handling, Counted, Adding, Retiring, Level
<1> QED
  BY <1>3, <1>4 DEF Interrupt, TC0_Handler, TC2_Handler

LEMMA StutterInv == ASSUME IInv, UNCHANGED vars PROVE IInv'
<1>1. UNCHANGED <<pc, asking, handling, event, num, ms>>
  BY DEF vars, table
<1>2. Size' = Size
  BY <1>1, SizeKept
<1> QED
  BY <1>1, <1>2 DEF IInv, Typed, Asking, Handling, Counted, Adding, Retiring, Level

LEMMA CodeInv == ASSUME OneCaller, IInv, Clearing, NEW c \in Contexts, Code(c) PROVE IInv'
<1>1. CASE ScheduleRefuse(c)
  BY <1>1, ScheduleRefuseInv
<1>2. CASE ScheduleRoom(c)
  BY <1>2, ScheduleRoomInv
<1>3. CASE ScheduleSlot(c)
  BY <1>3, ScheduleSlotInv
<1>4. CASE ScheduleFill(c)
  BY <1>4, ScheduleFillInv
<1>5. CASE ScheduleDue(c)
  BY <1>5, ScheduleDueInv
<1>6. CASE ScheduleLoad(c)
  BY <1>6, ScheduleLoadInv
<1>7. CASE ScheduleStore(c)
  BY <1>7, ScheduleStoreInv
<1>8. CASE ScheduleActivate(c)
  BY <1>8, ScheduleActivateInv
<1>9. CASE ScheduleEnable(c)
  BY <1>9, ScheduleEnableInv
<1>10. CASE ResetSlot(c) \/ ResetCount(c)
  BY <1>10, ResetSlotInv, ResetCountInv
<1>11. CASE HandleTest(c)
  BY <1>11, HandleTestInv
<1>12. CASE HandleSkip(c)
  BY <1>12, HandleSkipInv
<1>13. CASE HandleRun(c)
  BY <1>13, HandleRunInv
<1>14. CASE CallbackReturn(c)
  BY <1>14, CallbackReturnInv
<1>15. CASE HandleRuns(c)
  BY <1>15, HandleRunsInv
<1>16. CASE HandleLoad(c)
  BY <1>16, HandleLoadInv
<1>17. CASE HandleStore(c)
  BY <1>17, HandleStoreInv
<1>18. CASE HandleNext(c)
  BY <1>18, HandleNextInv
<1> QED
  BY <1>1, <1>2, <1>3, <1>4, <1>5, <1>6, <1>7, <1>8, <1>9, <1>10, <1>11, <1>12, <1>13,
     <1>14, <1>15, <1>16, <1>17, <1>18 DEF Code

LEMMA NextInv == ASSUME OneCaller, IInv, Clearing, [Next]_vars PROVE IInv'
<1>1. CASE \E c \in Contexts : CallSchedule(c)
  BY <1>1, CallScheduleInv
<1>2. CASE \E c \in Contexts : CallReset(c)
  BY <1>2, CallResetInv
<1>3. CASE \E c \in Contexts : Code(c)
  BY <1>3, CodeInv
<1>4. CASE Enable \/ Disable
  BY <1>4, EnableInv
<1>5. CASE CallHandle
  BY <1>5, CallHandleInv
<1>6. CASE Interrupt
  BY <1>6, InterruptInv
<1>7. CASE UNCHANGED vars
  BY <1>7, StutterInv
<1> QED
  BY <1>1, <1>2, <1>3, <1>4, <1>5, <1>6, <1>7 DEF Next

-----------------------------------------------------------------------------
\* What reset has cleared

\* A step that takes main out of reset, or leaves its reset alone and activates
\* nothing.
LEMMA ClearingStays ==
  ASSUME Clearing, IInv,
         pc'["main"] \in {"r_slot", "r_count"} =>
           /\ pc'["main"] = pc["main"] /\ asking'["main"] = asking["main"]
           /\ \A p \in Priorities, i \in Slot : event'[p][i].active => event[p][i].active
  PROVE  Clearing'
<1>1. HIGH \in Priorities /\ asking["main"].prio \in Priorities
  BY DEF IInv, Typed, Call, Contexts, Priorities
<1> QED
  BY <1>1 DEF Clearing

\* main, but for reset.
LEMMA MainClearing ==
  ASSUME IInv, Clearing, CallSchedule("main") \/ Code("main"),
         ~(ResetSlot("main") \/ ResetCount("main"))
  PROVE  Clearing'
<1>1. pc'["main"] \notin {"r_slot", "r_count"}
  <2>1. pc \in [Contexts -> Points] /\ "main" \in Contexts
    BY DEF IInv, Typed, Contexts
  <2>2. CASE \/ CallSchedule("main") \/ ScheduleRefuse("main") \/ ScheduleRoom("main")
             \/ ScheduleSlot("main") \/ ScheduleFill("main") \/ ScheduleDue("main")
             \/ ScheduleLoad("main") \/ ScheduleStore("main") \/ ScheduleActivate("main")
             \/ ScheduleEnable("main")
    BY <2>1, <2>2 DEF CallSchedule, ScheduleRefuse, ScheduleRoom, ScheduleSlot, ScheduleFill,
         ScheduleDue, ScheduleLoad, ScheduleStore, ScheduleActivate, ScheduleEnable, Caller, Step
  <2>3. CASE \/ HandleTest("main") \/ HandleSkip("main") \/ HandleRun("main")
             \/ CallbackReturn("main") \/ HandleRuns("main") \/ HandleLoad("main")
             \/ HandleStore("main") \/ HandleNext("main")
    BY <2>1, <2>3 DEF HandleTest, HandleSkip, HandleRun, CallbackReturn, HandleRuns, HandleLoad,
         HandleStore, HandleNext, Advance, Step
  <2> QED
    BY <2>2, <2>3 DEF Code
<1> QED
  BY <1>1, ClearingStays

\* An interrupt activates an event only where main does not reset.
LEMMA InterruptClearing ==
  ASSUME OneCaller, IInv, Clearing, CallSchedule("isr") \/ Code("isr")
  PROVE  Clearing'
<1>1. "isr" \in Contexts /\ "main" \in Contexts \ {"isr"} /\ HIGH # LOW
  BY DEF Contexts, HIGH, LOW
<1>2. CASE ScheduleActivate("isr")
  <2>1. <<"isr", asking["isr"].prio>> \in Callers /\ asking["isr"].prio \in Priorities
    BY <1>1, <1>2 DEF ScheduleActivate, Step, IInv, Asking, ScheduleSteps, Typed, Call
  <2>2. "reset" \notin Calls
    BY <2>1 DEF OneCaller, Priorities
  <2>3. pc'["main"] \notin {"r_slot", "r_count"}
    BY <1>1, <1>2, <2>2 DEF IInv, Handling, ScheduleActivate, Step, Typed
  <2> QED
    BY <2>3, ClearingStays
<1>3. CASE ScheduleStore("isr") \/ HandleStore("isr")
  <2>1. pc'["main"] = pc["main"] /\ asking'["main"] = asking["main"] /\ event' = event
    BY <1>1, <1>3 DEF ScheduleStore, HandleStore, Step, IInv, Typed
  <2> QED
    BY <2>1, ClearingStays
<1>4. CASE HandleRuns("isr")
  <2>1. pc'["main"] = pc["main"] /\ asking'["main"] = asking["main"]
    BY <1>1, <1>4 DEF HandleRuns, Step, IInv, Typed
  <2>2. PICK p \in Priorities, i \in Slot : p = Prio("isr") /\ i = handling["isr"].slot
    <3>1. pc["isr"] = "h_runs"
      BY <1>4 DEF HandleRuns, Step
    <3> QED
      BY <1>1, <3>1, SlotsPositive DEF IInv, Handling, HandleSteps, Prio, Level, Priorities
  <2>3. \A q \in Priorities, j \in Slot : event'[q][j].active => event[q][j].active
    <3> DEFINE e == [event[p][i] EXCEPT
                       !.active = event[p][i].active /\ event[p][i].runs # 1,
                       !.runs = IF event[p][i].runs > 1 THEN event[p][i].runs - 1 ELSE event[p][i].runs]
    <3>1. event' = [event EXCEPT ![p][i] = e]
      BY <1>4, <2>2 DEF HandleRuns, This
    <3>2. e.active => event[p][i].active
      BY EventType DEF IInv, Event
    <3> HIDE DEF e
    <3> QED
      BY <3>1, <3>2 DEF IInv, Typed
  <2> QED
    BY <2>1, <2>3, ClearingStays
<1>5. CASE ~(\/ ScheduleActivate("isr") \/ ScheduleStore("isr") \/ HandleStore("isr")
             \/ HandleRuns("isr"))
  <2>1. ~(ResetSlot("isr") \/ ResetCount("isr"))
    BY <1>1, Resetting
  <2>2. Quiet("isr")
    BY <1>1, <1>5, <2>1, CallScheduleInv, ScheduleRefuseInv, ScheduleRoomInv, ScheduleSlotInv,
       ScheduleFillInv, ScheduleDueInv, ScheduleLoadInv, ScheduleEnableInv, HandleTestInv,
       HandleSkipInv, HandleRunInv, CallbackReturnInv, HandleLoadInv, HandleNextInv DEF Code
  <2>3. pc'["main"] = pc["main"] /\ asking'["main"] = asking["main"] /\ SameFlags
    BY <1>1, <2>2 DEF Quiet, Only
  <2> QED
    BY <2>3, ClearingStays DEF SameFlags
<1> QED
  BY <1>2, <1>3, <1>4, <1>5

\* The steps of reset.
LEMMA ResetClearing ==
  ASSUME OneCaller, IInv, Clearing,
         CallReset("main") \/ ResetSlot("main") \/ ResetCount("main")
  PROVE  Clearing'
<1>1. "main" \in Contexts /\ HIGH # LOW /\ HIGH \in Priorities /\ LOW \in Priorities
  BY DEF Contexts, Priorities, HIGH, LOW
<1>2. CASE CallReset("main")
  <2>1. /\ pc'["main"] = "r_slot" /\ asking'["main"].prio = HIGH /\ asking'["main"].slot = 1
    BY <1>1, <1>2, FirstCell DEF CallReset, Step, IInv, Typed
  <2>2. \A i \in Slot : ~(i < 1)
    BY SlotsPositive DEF Slot
  <2> QED
    BY <1>1, <2>1, <2>2 DEF Clearing
<1>3. CASE ResetSlot("main")
  <2>1. PICK p \in Priorities, i \in Slot : p = asking["main"].prio /\ i = asking["main"].slot
    BY <1>1, <1>3, Resetting
  <2>2. /\ pc["main"] = "r_slot" /\ pc'["main"] = IF i = Slots THEN "r_count" ELSE "r_slot"
        /\ asking'["main"].prio = p /\ asking'["main"].slot = IF i = Slots THEN 1 ELSE i + 1
    <3>1. asking["main"] \in Call
      BY <1>1 DEF IInv, Typed
    <3> QED
      BY <1>1, <1>3, <2>1, <3>1 DEF ResetSlot, Step, IInv, Typed, Call
  <2>3. /\ ~event'[p][i].active
        /\ \A q \in Priorities, j \in Slot : q # p \/ j # i => event'[q][j] = event[q][j]
    BY <1>1, <1>3, <2>1, SlotCleared
  <2>4. ASSUME p = LOW, NEW j \in Slot PROVE ~event'[HIGH][j].active
    BY <1>1, <2>1, <2>2, <2>3, <2>4 DEF Clearing
  <2>5. ASSUME NEW j \in Slot, i = Slots \/ j < i + 1 PROVE ~event'[p][j].active
    <3>1. j = i \/ j < i
      BY <2>5, SlotsPositive DEF Slot
    <3> QED
      BY <2>1, <2>2, <2>3, <3>1 DEF Clearing
  <2> QED
    BY <2>2, <2>4, <2>5 DEF Clearing
<1>4. CASE ResetCount("main")
  <2>1. PICK p \in Priorities : p = asking["main"].prio
    BY <1>1, <1>4, Resetting
  <2>2. CASE p = HIGH
    <3>1. /\ pc["main"] = "r_count" /\ pc'["main"] = "r_slot" /\ event' = event
          /\ asking'["main"].prio = LOW /\ asking'["main"].slot = asking["main"].slot
      <4>1. asking["main"] \in Call
        BY <1>1 DEF IInv, Typed
      <4> QED
        BY <1>1, <1>4, <2>1, <2>2, <4>1 DEF ResetCount, Step, IInv, Typed, Call
    <3>2. asking["main"].slot = 1 /\ \A i \in Slot : ~event[HIGH][i].active /\ ~(i < 1)
      BY <1>1, <2>1, <2>2, <3>1, SlotsPositive DEF Clearing, Slot
    <3> QED
      BY <1>1, <3>1, <3>2 DEF Clearing
  <2>3. CASE p # HIGH
    <3>1. pc'["main"] = "idle"
      BY <1>1, <1>4, <2>1, <2>3, Resetting DEF ResetCount, Step, Caller, IInv, Typed
    <3> QED
      BY <3>1, ClearingStays
  <2> QED
    BY <2>2, <2>3
<1> QED
  BY <1>2, <1>3, <1>4

LEMMA ClearingKept == ASSUME OneCaller, IInv, Clearing, [Next]_vars PROVE Clearing'
<1>1. CASE \E c \in Contexts : CallSchedule(c) \/ CallReset(c) \/ Code(c)
  <2>1. PICK c \in Contexts : CallSchedule(c) \/ CallReset(c) \/ Code(c)
    BY <1>1
  <2>2. CASE c = "main"
    BY <2>1, <2>2, MainClearing, ResetClearing
  <2>3. CASE c = "isr"
    <3>1. ~CallReset("isr")
      BY DEF CallReset, OneCaller
    <3> QED
      BY <2>1, <2>3, <3>1, InterruptClearing
  <2> QED
    BY <2>2, <2>3 DEF Contexts
<1>2. CASE Enable \/ Disable \/ CallHandle
  <2>1. pc'["main"] \in {"idle", "h_test"}
    BY <1>2 DEF Enable, Disable, CallHandle, Step, IInv, Typed, Contexts
  <2> QED
    BY <2>1, ClearingStays
<1>3. CASE Interrupt
  <2>1. asking' = asking /\ event' = event /\ pc'["main"] = pc["main"]
    BY <1>3 DEF Interrupt, TC0_Handler, TC2_Handler, StartInterrupt, Step, table, IInv, Typed, Contexts
  <2> QED
    BY <2>1, ClearingStays
<1>4. CASE UNCHANGED vars
  BY <1>4, ClearingStays DEF vars, table
<1> QED
  BY <1>1, <1>2, <1>3, <1>4 DEF Next

-----------------------------------------------------------------------------
\* What follows from it

LEMMA Inductive == ASSUME OneCaller PROVE Spec => []IInv
<1>1. Init => IInv /\ Clearing
  BY InitInv DEF Init, Clearing, Contexts
<1>2. IInv /\ Clearing /\ [Next]_vars => IInv' /\ Clearing'
  BY NextInv, ClearingKept
<1> QED
  BY <1>1, <1>2, PTL DEF Spec

\* However the timer interrupt runs events while main adds some, numEvents
\* never falls below the number of active events: schedule counts an event
\* before it activates it, handleEvents stops one before it counts it out, and
\* reset stops all of a level before it zeroes the count (SchedulerModule.cpp).
THEOREM CountNeverHides == ASSUME OneCaller PROVE Spec => []CountCovers
<1>1. IInv => CountCovers
  <2> SUFFICES ASSUME IInv, NEW p \in Priorities PROVE num[p] >= Cardinality(Active(p))
    BY DEF CountCovers
  <2>1. Counted(p) /\ Size[p] \in Nat /\ Size[p] = Cardinality(Active(p)) /\ num[p] \in Int
    BY ActiveFinite DEF IInv, Typed
  <2>2. Adding(p) \in {0, 1} /\ Retiring(p) \in {0, 1}
    BY DEF Adding, Retiring
  <2> QED
    BY <2>1, <2>2 DEF Counted
<1> QED
  BY <1>1, Inductive, PTL

\* A call of schedule that found room always finds the inactive slot it looks
\* for: it never writes through the NULL it started from.
NoFault == \A c \in Contexts : pc[c] # "fault"

THEOREM SlotAlwaysFound == ASSUME OneCaller PROVE Spec => []NoFault
<1>1. IInv => NoFault
  BY DEF IInv, Handling, NoFault
<1> QED
  BY <1>1, Inductive, PTL

-----------------------------------------------------------------------------
\* Each level scheduled from the context that handles it: the count is exact

OwnCaller ==
  /\ "reset" \notin Calls /\ "reset in callback" \notin Calls
  /\ \A c \in Contexts, p \in Priorities : <<c, p>> \in Callers => p = Level(c)

LEMMA OwnIsOne == OwnCaller => OneCaller
<1> SUFFICES ASSUME OwnCaller PROVE OneCaller
  OBVIOUS
<1>1. /\ "isr" \in Contexts /\ "main" \in Contexts /\ LOW \in Priorities /\ HIGH \in Priorities
      /\ Level("isr") = HIGH /\ Level("main") = LOW /\ HIGH # LOW
  BY DEF Contexts, Priorities, Level, HIGH, LOW
<1>2. <<"isr", LOW>> \notin Callers
  BY <1>1 DEF OwnCaller
<1>3. <<"main", HIGH>> \notin Callers
  BY <1>1 DEF OwnCaller
<1> QED
  BY <1>2, <1>3 DEF OwnCaller, OneCaller

\* The slot schedule fills is still inactive, and nobody changed the count
\* since it was loaded.
Vacant(c) ==
  LET a == asking[c] IN
  /\ pc[c] \in {"s_fill", "s_due", "s_load", "s_store", "s_active"} => ~event[a.prio][a.slot].active
  /\ pc[c] = "s_store" => a.count = num[a.prio]

ExactIn(p) == num[p] = Size[p] + Adding(p) + Retiring(p)

EInv == /\ \A c \in Contexts : Vacant(c)
        /\ \A p \in Priorities : ExactIn(p)

LEMMA OwnLevelAsked ==
  ASSUME OwnCaller, IInv, NEW c \in Contexts, pc[c] \in ScheduleSteps
  PROVE  asking[c].prio = Level(c)
BY DEF OwnCaller, IInv, Asking, Typed, Call

\* A step of c that leaves the other level alone.
LEMMA StepExact ==
  ASSUME OwnCaller, IInv, EInv, IInv', NEW c \in Contexts, Only(c),
         \A q \in Priorities : q # Level(c) => num'[q] = num[q] /\ Size'[q] = Size[q],
         \A q \in Priorities, i \in Slot :
           q # Level(c) => event'[q][i].active = event[q][i].active,
         Vacant(c)', ExactIn(Level(c))'
  PROVE  EInv'
<1>1. ASSUME NEW d \in Contexts, d # c PROVE Vacant(d)'
  <2>1. Vacant(d) /\ pc'[d] = pc[d] /\ asking'[d] = asking[d]
    BY <1>1 DEF EInv, Only
  <2>2. pc[d] \in ScheduleSteps => asking[d].prio = Level(d)
    BY OwnLevelAsked
  <2>3. Level(d) \in Priorities /\ Level(d) # Level(c)
    BY <1>1 DEF Level, Priorities, Contexts, HIGH, LOW
  <2>4. pc[d] \in {"s_fill", "s_due", "s_load", "s_store", "s_active"} => asking[d].slot \in Slot
    BY DEF IInv, Asking
  <2> QED
    BY <2>1, <2>2, <2>3, <2>4 DEF Vacant, ScheduleSteps
<1>2. ASSUME NEW q \in Priorities, q # Level(c) PROVE ExactIn(q)'
  <2>1. ExactIn(q)
    BY DEF EInv
  <2>2. Retiring(q)' = Retiring(q)
    BY <1>2 DEF Retiring, Only, Level
  <2>3. pc[c] = "s_active" => asking[c].prio # q
    BY <1>2, OwnLevelAsked DEF ScheduleSteps
  <2>4. pc'[c] = "s_active" => asking'[c].prio # q
    <3>1. pc'[c] = "s_active" =>
            <<c, asking'[c].prio>> \in Callers /\ asking'[c].prio \in Priorities
      BY DEF IInv, Asking, ScheduleSteps, Typed, Call
    <3> QED
      BY <1>2, <3>1 DEF OwnCaller
  <2>5. Adding(q)' = Adding(q)
    BY <2>3, <2>4 DEF Adding, Only
  <2> QED
    BY <1>2, <2>1, <2>2, <2>5 DEF ExactIn
<1>3. \A d \in Contexts : Vacant(d)'
  BY <1>1
<1>4. \A q \in Priorities : ExactIn(q)'
  BY <1>2
<1> QED
  BY <1>3, <1>4 DEF EInv

LEMMA QuietExact ==
  ASSUME OwnCaller, IInv, EInv, IInv', NEW c \in Contexts, Quiet(c), Vacant(c)',
         pc[c] # "s_active", pc'[c] # "s_active",
         pc[c] \in {"h_load", "h_store"} <=> pc'[c] \in {"h_load", "h_store"}
  PROVE  EInv'
<1>1. Only(c) /\ SameFlags /\ num' = num /\ Size' = Size
  BY SizeKept DEF Quiet, SameFlags
<1>2. Level(c) \in Priorities /\ ExactIn(Level(c))
  BY DEF Level, Priorities, EInv
<1>3. Adding(Level(c))' = Adding(Level(c))
  BY <1>1 DEF Adding, Only, Level
<1>4. Retiring(Level(c))' = Retiring(Level(c))
  BY <1>1 DEF Retiring, Only, Level
<1>5. ExactIn(Level(c))'
  BY <1>1, <1>2, <1>3, <1>4 DEF ExactIn, Level
<1> QED
  BY <1>1, <1>5, StepExact DEF SameFlags

\* Steps outside of the updates.
Calm == {"idle", "fault", "s_room", "s_slot", "s_enable",
         "h_test", "h_look", "callback", "h_runs", "h_next"}

LEMMA CalmExact ==
  ASSUME OwnCaller, IInv, EInv, IInv', NEW c \in Contexts, Quiet(c),
         pc[c] \in Calm, pc'[c] \in Calm
  PROVE  EInv'
<1>1. Vacant(c)'
  BY DEF Vacant, Calm
<1> QED
  BY <1>1, QuietExact DEF Calm

LEMMA CalmCode ==
  ASSUME OwnCaller, IInv, EInv, NEW c \in Contexts,
         \/ ScheduleRefuse(c) \/ ScheduleRoom(c) \/ ScheduleEnable(c) \/ HandleTest(c)
         \/ HandleSkip(c) \/ HandleRun(c) \/ CallbackReturn(c) \/ HandleNext(c)
  PROVE  EInv'
<1>1. CASE ScheduleRefuse(c)
  <2>1. pc[c] \in Calm /\ pc'[c] \in Calm
    BY <1>1 DEF ScheduleRefuse, Caller, Step, IInv, Typed, Calm
  <2> QED
    BY <1>1, <2>1, ScheduleRefuseInv, CalmExact
<1>2. CASE ScheduleRoom(c)
  <2>1. pc[c] \in Calm /\ pc'[c] \in Calm
    BY <1>2 DEF ScheduleRoom, Step, IInv, Typed, Calm
  <2> QED
    BY <1>2, <2>1, ScheduleRoomInv, CalmExact
<1>3. CASE ScheduleEnable(c)
  <2>1. pc[c] \in Calm /\ pc'[c] \in Calm
    BY <1>3 DEF ScheduleEnable, Caller, Step, IInv, Typed, Calm
  <2> QED
    BY <1>3, <2>1, ScheduleEnableInv, CalmExact
<1>4. CASE HandleTest(c)
  <2>1. pc[c] \in Calm /\ pc'[c] \in Calm
    BY <1>4 DEF HandleTest, Step, IInv, Typed, Calm
  <2> QED
    BY <1>4, <2>1, HandleTestInv, CalmExact
<1>5. CASE HandleSkip(c)
  <2>1. pc[c] \in Calm /\ pc'[c] \in Calm
    BY <1>5 DEF HandleSkip, Advance, Step, IInv, Typed, Calm
  <2> QED
    BY <1>5, <2>1, HandleSkipInv, CalmExact
<1>6. CASE HandleRun(c)
  <2>1. pc[c] \in Calm /\ pc'[c] \in Calm
    BY <1>6 DEF HandleRun, Step, IInv, Typed, Calm
  <2> QED
    BY <1>6, <2>1, HandleRunInv, CalmExact
<1>7. CASE CallbackReturn(c)
  <2>1. pc[c] \in Calm /\ pc'[c] \in Calm
    BY <1>7 DEF CallbackReturn, Step, IInv, Typed, Calm
  <2> QED
    BY <1>7, <2>1, CallbackReturnInv, CalmExact
<1>8. CASE HandleNext(c)
  <2>1. pc[c] \in Calm /\ pc'[c] \in Calm
    BY <1>8 DEF HandleNext, Advance, Step, IInv, Typed, Calm
  <2> QED
    BY <1>8, <2>1, HandleNextInv, CalmExact
<1> QED
  BY <1>1, <1>2, <1>3, <1>4, <1>5, <1>6, <1>7, <1>8

LEMMA CallsExact ==
  ASSUME OwnCaller, IInv, EInv, NEW c \in Contexts, CallSchedule(c) \/ CallReset(c)
  PROVE  EInv'
<1>1. CASE CallSchedule(c)
  <2>1. pc[c] \in Calm /\ pc'[c] \in Calm
    BY <1>1 DEF CallSchedule, Caller, Step, IInv, Typed, Calm
  <2> QED
    BY <1>1, <2>1, CallScheduleInv, CalmExact
<1>2. CASE CallReset(c)
  BY <1>2 DEF CallReset, OwnCaller
<1> QED
  BY <1>1, <1>2

\* schedule takes a free slot and keeps it to itself.
LEMMA SlotExact == ASSUME OwnCaller, IInv, EInv, NEW c \in Contexts, ScheduleSlot(c) PROVE EInv'
<1> DEFINE free == Free(asking[c].prio)
<1>1. pc[c] = "s_slot" /\ event' = event
  BY DEF ScheduleSlot, Step, table
<1>2. free # {} /\ free \subseteq Slot
  BY <1>1, SlotFound
<1>3. PICK i \in free : asking' = [asking EXCEPT ![c].slot = i]
  BY <1>2, FirstFree DEF ScheduleSlot
<1>4. pc'[c] = "s_fill"
  BY <1>2 DEF ScheduleSlot, Step, IInv, Typed
<1>5. asking'[c].slot = i /\ asking'[c].prio = asking[c].prio
  BY <1>3 DEF IInv, Typed, Call
<1>6. ~event[asking[c].prio][i].active
  BY <1>3 DEF Free
<1>7. Vacant(c)'
  BY <1>1, <1>4, <1>5, <1>6 DEF Vacant
<1> QED
  BY <1>1, <1>4, <1>7, ScheduleSlotInv, QuietExact

LEMMA FillExact ==
  ASSUME OwnCaller, IInv, EInv, NEW c \in Contexts, ScheduleFill(c) \/ ScheduleDue(c)
  PROVE  EInv'
<1>1. /\ pc[c] \in {"s_fill", "s_due"} /\ pc'[c] \in {"s_due", "s_load"}
      /\ asking' = asking
  BY DEF ScheduleFill, ScheduleDue, Step, IInv, Typed
<1>2. IInv' /\ Quiet(c)
  BY ScheduleFillInv, ScheduleDueInv
<1>3. asking[c].prio \in Priorities /\ asking[c].slot \in Slot
  BY <1>1 DEF IInv, Typed, Call, Asking
<1>4. Vacant(c)'
  BY <1>1, <1>2, <1>3 DEF EInv, Vacant, Quiet, SameFlags
<1> QED
  BY <1>1, <1>2, <1>4, QuietExact

LEMMA LoadExact == ASSUME OwnCaller, IInv, EInv, NEW c \in Contexts, ScheduleLoad(c) PROVE EInv'
<1>1. /\ pc[c] = "s_load" /\ pc'[c] = "s_store" /\ event' = event /\ num' = num
      /\ asking' = [asking EXCEPT ![c].count = num[asking[c].prio]]
  BY DEF ScheduleLoad, Step, IInv, Typed, table
<1>2. /\ asking'[c].prio = asking[c].prio /\ asking'[c].slot = asking[c].slot
      /\ asking'[c].count = num[asking[c].prio]
  BY <1>1 DEF IInv, Typed, Call
<1>3. Vacant(c)'
  BY <1>1, <1>2 DEF EInv, Vacant
<1> QED
  BY <1>1, <1>3, ScheduleLoadInv, QuietExact

LEMMA HandleLoadExact ==
  ASSUME OwnCaller, IInv, EInv, NEW c \in Contexts, HandleLoad(c) PROVE EInv'
<1>1. pc[c] = "h_load" /\ pc'[c] = "h_store"
  BY DEF HandleLoad, Step, IInv, Typed
<1>2. Vacant(c)'
  BY <1>1 DEF Vacant
<1> QED
  BY <1>1, <1>2, HandleLoadInv, QuietExact

\* num is moved at the level of c and no flag is.
LEMMA CountExactly ==
  ASSUME OwnCaller, IInv, EInv, IInv', NEW c \in Contexts, Only(c), event' = event,
         NEW p \in Priorities, p = Level(c), \A q \in Priorities : q # p => num'[q] = num[q],
         Vacant(c)', num'[p] = Size[p] + Adding(p)' + Retiring(p)'
  PROVE  EInv'
<1>1. Size' = Size
  BY SizeKept
<1>2. ExactIn(p)'
  BY <1>1 DEF ExactIn
<1>3. ExactIn(Level(c))'
  BY <1>2 DEF Level
<1> QED
  BY <1>1, <1>3, StepExact

LEMMA StoreExact ==
  ASSUME OwnCaller, IInv, EInv, NEW c \in Contexts, ScheduleStore(c) PROVE EInv'
<1> USE DEF ScheduleStore, Step, table
<1>1. /\ pc[c] = "s_store" /\ pc'[c] = "s_active" /\ Only(c) /\ event' = event
      /\ asking' = asking
  BY DEF IInv, Typed, Only
<1>2. IInv'
  BY OwnIsOne, ScheduleStoreInv
<1>3. PICK p \in Priorities : p = Level(c) /\ p = asking[c].prio /\ num[p] \in Int
  BY <1>1, OwnLevelAsked DEF ScheduleSteps, Level, Priorities, IInv, Typed
<1>4. num' = [num EXCEPT ![p] = num[p] + 1]
  BY <1>1, <1>3 DEF EInv, Vacant
<1>5. Vacant(c)'
  BY <1>1 DEF EInv, Vacant
<1>6. num[p] = Size[p] + Adding(p) + Retiring(p) /\ Size[p] \in Nat
  BY ActiveFinite DEF EInv, ExactIn
<1>7. Adding(p) = 0
  BY <1>1, <1>3, OwnLevelAsked DEF Adding, ScheduleSteps, Level, Contexts, HIGH, LOW
<1>8. Adding(p)' = 1
  BY <1>1, <1>3 DEF Adding
<1>9. Retiring(p) = 0 /\ Retiring(p)' = 0
  BY <1>1, <1>3 DEF Retiring, Only, Level, Contexts, HIGH, LOW
<1>10. num'[p] = num[p] + 1 /\ \A q \in Priorities : q # p => num'[q] = num[q]
  BY <1>4 DEF IInv, Typed
<1>11. num'[p] = Size[p] + Adding(p)' + Retiring(p)'
  BY <1>3, <1>6, <1>7, <1>8, <1>9, <1>10
<1> QED
  BY <1>1, <1>2, <1>3, <1>5, <1>10, <1>11, CountExactly

LEMMA HandleStoreExact ==
  ASSUME OwnCaller, IInv, EInv, NEW c \in Contexts, HandleStore(c) PROVE EInv'
<1> USE DEF HandleStore, Step, table
<1>1. /\ pc[c] = "h_store" /\ pc'[c] = "h_next" /\ Only(c) /\ event' = event
      /\ asking' = asking
  BY DEF IInv, Typed, Only
<1>2. IInv'
  BY HandleStoreInv
<1>3. PICK p \in Priorities :
        p = Level(c) /\ p = Prio(c) /\ handling[c].count = num[p] /\ num[p] \in Int
  BY <1>1 DEF IInv, Typed, Handling, HandleSteps, Prio, Level, Priorities
<1>4. num' = [num EXCEPT ![p] = num[p] - 1]
  BY <1>1, <1>3
<1>5. Vacant(c)'
  BY <1>1 DEF Vacant
<1>6. num[p] = Size[p] + Adding(p) + Retiring(p) /\ Size[p] \in Nat
  BY ActiveFinite DEF EInv, ExactIn
<1>7. Adding(p) = 0 /\ Adding(p)' = 0
  BY <1>1, <1>3, OwnLevelAsked DEF Adding, ScheduleSteps, Level, Only, Contexts, HIGH, LOW
<1>8. Retiring(p) = 1
  BY <1>1, <1>3 DEF Retiring
<1>9. Retiring(p)' = 0
  BY <1>1, <1>3 DEF Retiring, Only, Level, Contexts, HIGH, LOW
<1>10. num'[p] = num[p] - 1 /\ \A q \in Priorities : q # p => num'[q] = num[q]
  BY <1>4 DEF IInv, Typed
<1>11. num'[p] = Size[p] + Adding(p)' + Retiring(p)'
  BY <1>3, <1>6, <1>7, <1>8, <1>9, <1>10
<1> QED
  BY <1>1, <1>2, <1>3, <1>5, <1>10, <1>11, CountExactly

\* The flag of one slot is moved at the level of c.
LEMMA FlagExactly ==
  ASSUME OwnCaller, IInv, EInv, IInv', NEW c \in Contexts, Only(c), num' = num,
         NEW p \in Priorities, p = Level(c), NEW i \in Slot, Elsewhere(p, i),
         Vacant(c)', num[p] = Size'[p] + Adding(p)' + Retiring(p)'
  PROVE  EInv'
<1>1. \A q \in Priorities : q # p => Active(q)' = Active(q)
  BY DEF Active, Free, Elsewhere
<1>2. \A q \in Priorities : q # p => Size'[q] = Size[q]
  BY <1>1 DEF Size
<1>3. \A q \in Priorities, j \in Slot : q # p => event'[q][j].active = event[q][j].active
  BY DEF Elsewhere
<1>4. ExactIn(p)'
  BY DEF ExactIn
<1>5. ExactIn(Level(c))'
  BY <1>4 DEF Level
<1> QED
  BY <1>2, <1>3, <1>5, StepExact

LEMMA ActivateExact ==
  ASSUME OwnCaller, IInv, EInv, NEW c \in Contexts, ScheduleActivate(c) PROVE EInv'
<1> USE DEF ScheduleActivate, Step, table
<1>1. PICK p \in Priorities, i \in Slot :
        /\ p = asking[c].prio /\ i = asking[c].slot /\ Typed /\ pc[c] = "s_active"
        /\ p = Level(c) /\ ~event[p][i].active
  <2>1. pc[c] = "s_active" /\ Typed
    BY DEF IInv
  <2>2. asking[c].prio \in Priorities /\ asking[c].slot \in Slot
    BY <2>1 DEF IInv, Typed, Call, Asking
  <2>3. asking[c].prio = Level(c)
    BY <2>1, OwnLevelAsked DEF ScheduleSteps
  <2>4. ~event[asking[c].prio][asking[c].slot].active
    BY <2>1 DEF EInv, Vacant
  <2> QED
    BY <2>1, <2>2, <2>3, <2>4
<1>2. /\ pc'[c] = "s_enable" /\ Only(c) /\ num' = num /\ asking' = asking
      /\ event' = [event EXCEPT ![p][i] = [event[p][i] EXCEPT !.active = TRUE]]
  BY <1>1 DEF Typed, Only
<1> HIDE DEF ScheduleActivate
<1>3. Elsewhere(p, i) /\ event'[p][i].active
  <2> DEFINE e == [event[p][i] EXCEPT !.active = TRUE]
  <2>1. event[p][i] \in Event
    BY <1>1, EventType
  <2>2. e.active
    BY <2>1 DEF Event
  <2> HIDE DEF e
  <2>3. event'[p][i] = e /\ Elsewhere(p, i)
    BY <1>1, <1>2 DEF Typed, Elsewhere, e
  <2> QED
    BY <2>2, <2>3
<1>4. IInv'
  BY OwnIsOne, ScheduleActivateInv
<1>5. Active(p)' = Active(p) \cup {i} /\ i \notin Active(p)
  BY <1>1, <1>3 DEF Active, Free, Elsewhere
<1>6. IsFiniteSet(Active(p)) /\ Size[p] = Cardinality(Active(p)) /\ Size[p] \in Nat
  BY ActiveFinite
<1>7. Cardinality(Active(p) \cup {i}) = Cardinality(Active(p)) + 1
  BY <1>5, <1>6, FS_AddElement
<1>8. Size'[p] = Size[p] + 1
  BY <1>5, <1>6, <1>7 DEF Size
<1>9. num[p] = Size[p] + Adding(p) + Retiring(p)
  BY DEF EInv, ExactIn
<1>10. Adding(p) = 1
  BY <1>1 DEF Adding
<1>11. Adding(p)' = 0
  <2>1. ASSUME NEW d \in Contexts, pc'[d] = "s_active", asking'[d].prio = p PROVE FALSE
    <3>1. d # c /\ pc[d] = "s_active" /\ asking[d].prio = p
      BY <1>2, <2>1 DEF Only
    <3>2. asking[d].prio = Level(d)
      BY <3>1, OwnLevelAsked DEF ScheduleSteps
    <3> QED
      BY <1>1, <3>1, <3>2 DEF Level, Contexts, HIGH, LOW
  <2> QED
    BY <2>1 DEF Adding
<1>12. Retiring(p)' = Retiring(p) /\ Retiring(p) \in {0, 1}
  BY <1>1, <1>2 DEF Retiring, Only, Level
<1>13. num[p] = Size'[p] + Adding(p)' + Retiring(p)'
  BY <1>6, <1>8, <1>9, <1>10, <1>11, <1>12
<1>14. Vacant(c)'
  BY <1>2 DEF Vacant
<1> QED
  BY <1>1, <1>2, <1>3, <1>4, <1>13, <1>14, FlagExactly

LEMMA RunsExact ==
  ASSUME OwnCaller, IInv, EInv, NEW c \in Contexts, HandleRuns(c) PROVE EInv'
<1> USE DEF Step, table
<1>1. PICK p \in Priorities, i \in Slot :
        /\ p = Level(c) /\ i = handling[c].slot /\ p = Prio(c) /\ event[p][i].active
        /\ Typed /\ pc[c] = "h_runs"
  <2>1. Handling(c) /\ Typed /\ pc[c] = "h_runs" /\ Level(c) \in Priorities
    BY DEF IInv, Level, Priorities, HandleRuns
  <2>2. /\ handling[c].prio = Level(c) /\ handling[c].slot \in Slot /\ handling[c].slot # 0
        /\ event[Level(c)][handling[c].slot].active
    BY <2>1, SlotsPositive DEF Handling, HandleSteps, Slot
  <2> QED
    BY <2>1, <2>2 DEF Prio
<1> DEFINE runs == event[p][i].runs
           left == IF runs > 1 THEN runs - 1 ELSE runs
           e == [[event[p][i] EXCEPT !.active = This(c).active /\ runs # 1] EXCEPT !.runs = left]
<1>2. event[p][i] \in Event /\ This(c) = event[p][i]
  BY <1>1, EventType DEF This
<1>3. /\ pc'[c] = (IF runs = 1 THEN "h_load" ELSE "h_next")
      /\ Only(c) /\ num' = num /\ asking' = asking
      /\ event' = [event EXCEPT ![p][i] = e]
  BY <1>1, <1>2 DEF HandleRuns, Typed, Only
<1>4. e.active = (runs # 1)
  <2>1. [event[p][i] EXCEPT !.active = This(c).active /\ runs # 1].active = (runs # 1)
    BY <1>1, <1>2 DEF Event
  <2>2. \A f \in Event : [f EXCEPT !.runs = left].active = f.active
    BY DEF Event
  <2>3. [event[p][i] EXCEPT !.active = This(c).active /\ runs # 1] \in Event
    BY <1>2 DEF Event
  <2> QED
    BY <2>1, <2>2, <2>3
<1>5. IInv'
  BY HandleRunsInv
<1> HIDE DEF e
<1>6. event'[p][i] = e /\ Elsewhere(p, i)
  BY <1>1, <1>3 DEF Typed, Elsewhere
<1>7. Vacant(c)'
  BY <1>3 DEF Vacant
<1>8. CASE runs # 1
  <2>1. SameFlags
    BY <1>1, <1>4, <1>6, <1>8 DEF SameFlags, Elsewhere
  <2>2. pc[c] \in Calm /\ pc'[c] \in Calm
    BY <1>1, <1>3, <1>8 DEF Calm
  <2> QED
    BY <1>3, <1>5, <2>1, <2>2, CalmExact DEF Quiet
<1>9. CASE runs = 1
  <2>1. ~event'[p][i].active
    BY <1>4, <1>6, <1>9
  <2>2. Size'[p] = Size[p] - 1
    BY <1>1, <1>6, <2>1, SizeDown
  <2>3. num[p] = Size[p] + Adding(p) + Retiring(p) /\ Size[p] \in Nat
    BY ActiveFinite DEF EInv, ExactIn
  <2>4. Adding(p)' = Adding(p) /\ Adding(p) \in {0, 1}
    BY <1>1, <1>3, <1>9 DEF Adding, Only
  <2>5. Retiring(p) = 0
    BY <1>1 DEF Retiring, Level, Contexts, HIGH, LOW
  <2>6. Retiring(p)' = 1
    BY <1>1, <1>3, <1>9 DEF Retiring, Level
  <2>7. num[p] = Size'[p] + Adding(p)' + Retiring(p)'
    BY <2>2, <2>3, <2>4, <2>5, <2>6
  <2> QED
    BY <1>1, <1>3, <1>5, <1>6, <1>7, <2>7, FlagExactly
<1> QED
  BY <1>8, <1>9

LEMMA BeginExact ==
  ASSUME OwnCaller, IInv, EInv, NEW c \in Contexts, Step(c, "idle", "h_test"),
         handling' = [handling EXCEPT ![c].prio = Level(c)],
         UNCHANGED <<asking, event, num>>, ms' \in Nat
  PROVE  EInv'
<1>1. pc[c] \in Calm /\ pc'[c] \in Calm
  BY DEF Step, IInv, Typed, Calm
<1> QED
  BY <1>1, BeginInv, CalmExact

LEMMA CallHandleExact == ASSUME OwnCaller, IInv, EInv, CallHandle PROVE EInv'
<1>1. "main" \in Contexts /\ Level("main") = LOW /\ ms \in Nat
  BY DEF Contexts, Level, IInv, Typed
<1>2. Step("main", "idle", "h_test") /\ handling' = [handling EXCEPT !["main"].prio = Level("main")]
  BY <1>1 DEF CallHandle
<1>3. UNCHANGED <<asking, event, num>> /\ ms' \in Nat
  BY <1>1 DEF CallHandle, table
<1> QED
  BY <1>1, <1>2, <1>3, BeginExact

LEMMA SameExact == ASSUME EInv, UNCHANGED <<pc, asking, event, num>> PROVE EInv'
<1>1. Size' = Size
  BY SizeKept
<1> QED
  BY <1>1 DEF EInv, Vacant, ExactIn, Adding, Retiring, Level

LEMMA InterruptExact == ASSUME OwnCaller, IInv, EInv, Interrupt PROVE EInv'
<1>1. "isr" \in Contexts /\ Level("isr") = HIGH /\ ms \in Nat
  BY DEF Contexts, Level, IInv, Typed
<1>2. UNCHANGED <<asking, event, num>> /\ ms' \in Nat
  BY <1>1 DEF Interrupt, TC0_Handler, TC2_Handler, table
<1>3. CASE StartInterrupt
  <2>1. Step("isr", "idle", "h_test") /\ handling' = [handling EXCEPT !["isr"].prio = Level("isr")]
    BY <1>1, <1>3 DEF StartInterrupt
  <2> QED
    BY <1>1, <1>2, <2>1, BeginExact
<1>4. CASE UNCHANGED <<pc, handling>>
  BY <1>2, <1>4, SameExact
<1> QED
  BY <1>3, <1>4 DEF Interrupt, TC0_Handler, TC2_Handler

LEMMA CodeExact == ASSUME OwnCaller, IInv, EInv, NEW c \in Contexts, Code(c) PROVE EInv'
<1>1. CASE \/ ScheduleRefuse(c) \/ ScheduleRoom(c) \/ ScheduleEnable(c) \/ HandleTest(c)
           \/ HandleSkip(c) \/ HandleRun(c) \/ CallbackReturn(c) \/ HandleNext(c)
  BY <1>1, CalmCode
<1>2. CASE ScheduleSlot(c)
  BY <1>2, SlotExact
<1>3. CASE ScheduleFill(c) \/ ScheduleDue(c)
  BY <1>3, FillExact
<1>4. CASE ScheduleLoad(c)
  BY <1>4, LoadExact
<1>5. CASE ScheduleStore(c)
  BY <1>5, StoreExact
<1>6. CASE ScheduleActivate(c)
  BY <1>6, ActivateExact
<1>7. CASE ResetSlot(c) \/ ResetCount(c)
  BY <1>7, Resetting DEF OwnCaller
<1>8. CASE HandleRuns(c)
  BY <1>8, RunsExact
<1>9. CASE HandleLoad(c)
  BY <1>9, HandleLoadExact
<1>10. CASE HandleStore(c)
  BY <1>10, HandleStoreExact
<1> QED
  BY <1>1, <1>2, <1>3, <1>4, <1>5, <1>6, <1>7, <1>8, <1>9, <1>10 DEF Code

LEMMA NextExact == ASSUME OwnCaller, IInv, EInv, [Next]_vars PROVE EInv'
<1>1. CASE \E c \in Contexts : CallSchedule(c) \/ CallReset(c)
  BY <1>1, CallsExact
<1>2. CASE \E c \in Contexts : Code(c)
  BY <1>2, CodeExact
<1>3. CASE Enable \/ Disable
  <2>1. UNCHANGED <<pc, asking, event, num>>
    BY <1>3 DEF Enable, Disable, Step, table, IInv, Typed
  <2> QED
    BY <2>1, SameExact
<1>4. CASE CallHandle
  BY <1>4, CallHandleExact
<1>5. CASE Interrupt
  BY <1>5, InterruptExact
<1>6. CASE UNCHANGED vars
  BY <1>6, SameExact DEF vars, table
<1> QED
  BY <1>1, <1>2, <1>3, <1>4, <1>5, <1>6 DEF Next

\* numEvents is the number of active events whenever no context is between its
\* update of the one and its update of the other (SchedulerModule.cpp).
THEOREM CountNeverWrong == ASSUME OwnCaller PROVE Spec => []CountExact
<1>1. Init => EInv
  <2> SUFFICES ASSUME Init PROVE EInv
    OBVIOUS
  <2>1. \A c \in Contexts : pc[c] = "idle"
    BY DEF Init
  <2>2. \A p \in Priorities : Active(p) = {}
    BY DEF Init, Active, Free, NoEvent
  <2>3. \A p \in Priorities : Size[p] = 0 /\ num[p] = 0
    BY <2>2, FS_EmptySet DEF Init, Size
  <2> QED
    BY <2>1, <2>3 DEF EInv, Vacant, ExactIn, Adding, Retiring
<1>2. IInv /\ EInv /\ [Next]_vars => EInv'
  BY NextExact
<1>3. IInv /\ EInv => CountExact
  <2> SUFFICES ASSUME IInv, EInv, NEW p \in Priorities, ~Updating(p)
               PROVE  num[p] = Cardinality(Active(p))
    BY DEF CountExact
  <2>1. ExactIn(p) /\ Size[p] \in Nat /\ Size[p] = Cardinality(Active(p))
    BY ActiveFinite DEF EInv
  <2>2. Adding(p) = 0
    BY DEF Adding, Updating
  <2>3. \A c \in Contexts : pc[c] \in {"h_load", "h_store"} => handling[c].prio = Level(c)
    BY DEF IInv, Handling, HandleSteps
  <2>4. Retiring(p) = 0
    BY <2>3 DEF Retiring, Updating
  <2> QED
    BY <2>1, <2>2, <2>4 DEF ExactIn
<1>4. Spec => []IInv
  BY OwnIsOne, Inductive
<1> QED
  BY <1>1, <1>2, <1>3, <1>4, PTL DEF Spec

-----------------------------------------------------------------------------
\* The events: each accepted one keeps a slot until its last run, and none
\* runs too often.  The inductive invariant, on top of IInv:

States == {"none", "asked", "refused", "accepted", "cancelled"}
Entry == [state : States, prio : Priorities, interval : Nat, runs : Nat, start : Int,
          ran : Nat, last : Nat]

\* The context that handles the events of a level, and the event it is at.
Handler(p) == IF p = LOW THEN "main" ELSE "isr"
At(c, i) == handling[c].slot = i /\ pc[c] \in ScheduleSteps \cup {"callback", "h_runs"}
Running(p, i) == At(Handler(p), i)

\* An active slot belongs to a call of schedule, and its runs and those that
\* were made are what the call asked for.  A run is made before it is counted.
Entered(p, i) ==
  LET e == event[p][i]
      l == log[e.id]
  IN  e.active =>
        /\ e.id \in Asked /\ l.prio = p
        /\ l.runs = 0 => e.runs = 0
        /\ l.runs > 0 => /\ e.runs > 0
                         /\ Running(p, i) => l.ran + e.runs = l.runs + 1
                         /\ ~Running(p, i) => l.ran + e.runs = l.runs

\* No call has two slots.
Single(p) ==
  \A i, j \in Slot :
    event[p][i].active /\ event[p][j].active /\ event[p][i].id = event[p][j].id => i = j

Holding(id) == \E i \in Slot : event[log[id].prio][i].active /\ event[log[id].prio][i].id = id
Served(id) == Holding(id) \/ (log[id].runs > 0 /\ log[id].ran = log[id].runs)

Logged(id) ==
  /\ log[id].runs > 0 => log[id].ran <= log[id].runs
  /\ log[id].state = "accepted" => Served(id)

\* The calls are numbered in their order.
Numbered == \E n \in 0 .. MaxEvents : Asked = 1 .. n

\* A call under way: no active slot has its number, and the slot it fills is
\* inactive, until it activates it; an interrupt may run the event before the
\* call returns.
Filling == {"s_fill", "s_due", "s_load", "s_store", "s_active"}
Calling(c) ==
  LET a == asking[c]
      e == event[a.prio][a.slot]
  IN  /\ pc[c] \in ScheduleSteps =>
           /\ a.id \in Ids /\ log[a.id].state = "asked"
           /\ log[a.id].prio = a.prio /\ log[a.id].runs = a.runs
      /\ pc[c] \in ScheduleSteps \ {"s_enable"} =>
           log[a.id].ran = 0 /\ \A p \in Priorities, i \in Slot : event[p][i].active => event[p][i].id # a.id
      /\ pc[c] \in Filling => ~e.active
      /\ pc[c] \in Filling \ {"s_fill"} => e.id = a.id /\ e.runs = a.runs
      /\ pc[c] = "s_enable" => \A id \in Ids : id = a.id => Served(id)

Apart ==
  \A c, d \in Contexts :
    c # d /\ {pc[c], pc[d]} \subseteq ScheduleSteps => asking[c].id # asking[d].id

KInv ==
  /\ log \in [Ids -> Entry]
  /\ Numbered
  /\ \A p \in Priorities : Single(p) /\ \A i \in Slot : Entered(p, i)
  /\ \A id \in Ids : Logged(id)
  /\ \A c \in Contexts : Calling(c)
  /\ Apart

-----------------------------------------------------------------------------
\* Steps that neither run, add nor take away an event

SameActive ==
  \A p \in Priorities, i \in Slot :
    /\ event'[p][i].active = event[p][i].active
    /\ event[p][i].active => event'[p][i].id = event[p][i].id /\ event'[p][i].runs = event[p][i].runs

SameRuns(id) ==
  log'[id].prio = log[id].prio /\ log'[id].runs = log[id].runs /\ log'[id].ran = log[id].ran

SamePromise(n) ==
  log'[n].start = log[n].start /\ log'[n].ran = log[n].ran /\ log'[n].interval = log[n].interval

SamePlaces == \A c \in Contexts, i \in Slot : At(c, i)' = At(c, i)

\* A call that is under way and knows no more than before.
Onward(c) ==
  LET a == asking[c] IN
  pc'[c] \in ScheduleSteps =>
    /\ pc[c] \in ScheduleSteps /\ (pc'[c] = "s_enable" <=> pc[c] = "s_enable")
    /\ pc'[c] \in Filling => pc[c] \in Filling
    /\ pc'[c] \in Filling \ {"s_fill"} => pc[c] \in Filling \ {"s_fill"}
    /\ asking'[c].id = a.id /\ asking'[c].prio = a.prio
    /\ asking'[c].runs = a.runs /\ asking'[c].slot = a.slot
    /\ log'[a.id].state = log[a.id].state
    /\ pc[c] \in Filling => /\ event'[a.prio][a.slot].id = event[a.prio][a.slot].id
                            /\ event'[a.prio][a.slot].runs = event[a.prio][a.slot].runs

LEMMA LogFacts ==
  ASSUME KInv
  PROVE  /\ \A id \in Ids : log[id] \in Entry /\ log[id].prio \in Priorities
         /\ Asked \subseteq Ids
         /\ \A p \in Priorities, i \in Slot : event[p][i].active => event[p][i].id \in Asked
<1>1. \A id \in Ids : log[id] \in Entry /\ log[id].prio \in Priorities
  BY DEF KInv, Entry
<1>2. Asked \subseteq Ids
  BY DEF Asked
<1> QED
  BY <1>1, <1>2 DEF KInv, Entered

LEMMA HandlerOf == \A p \in Priorities : Handler(p) \in Contexts /\ Level(Handler(p)) = p
BY DEF Handler, Contexts, Priorities, Level, HIGH, LOW

LEMMA ServedKept ==
  ASSUME KInv, SameActive, NEW id \in Ids, SameRuns(id), Served(id)
  PROVE  Served(id)'
BY LogFacts DEF Served, Holding, SameActive, SameRuns

LEMMA TableKept ==
  ASSUME KInv, SameActive, SamePlaces, Asked \subseteq Asked', \A id \in Asked : SameRuns(id)
  PROVE  \A p \in Priorities : Single(p)' /\ \A i \in Slot : Entered(p, i)'
<1>1. \A p \in Priorities, i \in Slot : Running(p, i)' = Running(p, i)
  BY HandlerOf DEF Running, SamePlaces
<1>2. ASSUME NEW p \in Priorities, NEW i \in Slot PROVE Entered(p, i)'
  <2>1. Entered(p, i)
    BY DEF KInv
  <2> QED
    BY <1>1, <2>1, LogFacts DEF Entered, SameActive, SameRuns
<1>3. \A p \in Priorities : Single(p)'
  BY DEF KInv, Single, SameActive
<1> QED
  BY <1>2, <1>3

LEMMA LoggedKept ==
  ASSUME KInv, SameActive, NEW id \in Ids, SameRuns(id),
         log'[id].state = "accepted" => log[id].state = "accepted" \/ Served(id)
  PROVE  Logged(id)'
<1>1. Logged(id)
  BY DEF KInv
<1>2. Served(id) => Served(id)'
  BY ServedKept
<1> QED
  BY <1>1, <1>2 DEF Logged, SameRuns

LEMMA CallingKept ==
  ASSUME IInv, KInv, SameActive, \A id \in Asked : SameRuns(id), NEW c \in Contexts, Onward(c)
  PROVE  Calling(c)'
<1>1. /\ asking[c].prio \in Priorities
      /\ pc[c] \in Filling => asking[c].slot \in Slot
  BY DEF IInv, Typed, Call, Asking, Filling
<1>2. Calling(c)
  BY DEF KInv
<1> SUFFICES ASSUME pc'[c] \in ScheduleSteps PROVE Calling(c)'
  BY DEF Calling, ScheduleSteps, Filling
<1>3. asking[c].id \in Ids /\ SameRuns(asking[c].id)
  BY <1>2 DEF Calling, Onward, Asked
<1>4. ASSUME pc'[c] = "s_enable", NEW id \in Ids, id = asking'[c].id PROVE Served(id)'
  <2>1. id = asking[c].id /\ pc[c] = "s_enable"
    BY <1>4 DEF Onward
  <2> QED
    BY <1>2, <1>3, <2>1, ServedKept DEF Calling
<1>5. pc'[c] \in ScheduleSteps \ {"s_enable"} =>
        /\ log'[asking'[c].id].ran = 0
        /\ \A p \in Priorities, i \in Slot : event'[p][i].active => event'[p][i].id # asking'[c].id
  BY <1>2, <1>3 DEF Calling, Onward, SameActive, SameRuns
<1>6. pc'[c] \in Filling => ~event'[asking'[c].prio][asking'[c].slot].active
  BY <1>1, <1>2 DEF Calling, Onward, SameActive
<1>7. pc'[c] \in Filling \ {"s_fill"} =>
        LET e == event'[asking'[c].prio][asking'[c].slot]
        IN  e.id = asking'[c].id /\ e.runs = asking'[c].runs
  BY <1>2 DEF Calling, Onward
<1>8. /\ asking'[c].id \in Ids /\ log'[asking'[c].id].state = "asked"
      /\ log'[asking'[c].id].prio = asking'[c].prio /\ log'[asking'[c].id].runs = asking'[c].runs
  BY <1>2, <1>3 DEF Calling, Onward, SameRuns
<1> QED
  BY <1>4, <1>5, <1>6, <1>7, <1>8 DEF Calling

LEMMA ApartKept ==
  ASSUME KInv, \A c \in Contexts : Onward(c)
  PROVE  Apart'
BY DEF KInv, Apart, Onward

LEMMA SameAsked ==
  ASSUME \A id \in Ids : log'[id].state = "none" <=> log[id].state = "none"
  PROVE  Asked' = Asked
BY DEF Asked

\* The steps that change the state of an entry at most.
LEMMA KInvKept ==
  ASSUME IInv, KInv, SameActive, SamePlaces, log' \in [Ids -> Entry],
         \A id \in Ids : /\ SameRuns(id)
                         /\ log'[id].state = "none" <=> log[id].state = "none"
                         /\ log'[id].state = "accepted" => log[id].state = "accepted" \/ Served(id),
         \A c \in Contexts : Onward(c)
  PROVE  KInv'
<1>1. Asked' = Asked /\ Asked \subseteq Ids
  BY SameAsked, LogFacts
<1>2. \A id \in Ids : Logged(id)'
  BY LoggedKept
<1>3. \A c \in Contexts : Calling(c)'
  BY <1>1, CallingKept
<1>4. Numbered'
  BY <1>1 DEF KInv, Numbered
<1> QED
  BY <1>1, <1>2, <1>3, <1>4, TableKept, ApartKept DEF KInv

\* The calls of the other context go on.
LEMMA OthersOnward ==
  ASSUME IInv, KInv, NEW c \in Contexts, Only(c), NEW d \in Contexts, d # c,
         pc[d] \in ScheduleSteps => log'[asking[d].id].state = log[asking[d].id].state,
         \A p \in Priorities, i \in Slot :
           event'[p][i].id = event[p][i].id /\ event'[p][i].runs = event[p][i].runs
  PROVE  Onward(d)
<1>1. asking[d].prio \in Priorities /\ (pc[d] \in Filling => asking[d].slot \in Slot)
  BY DEF IInv, Typed, Call, Asking, Filling
<1>2. pc'[d] = pc[d] /\ asking'[d] = asking[d]
  BY DEF Only
<1> QED
  BY <1>1, <1>2 DEF Onward

SamePlace(c) == \A i \in Slot : At(c, i)' = At(c, i)

LEMMA PlacesKept ==
  ASSUME NEW c \in Contexts, Only(c), SamePlace(c)
  PROVE  SamePlaces
BY DEF Only, At, SamePlaces, SamePlace

\* Steps of one context that neither write an entry's state nor a slot.
LEMMA StillKept ==
  ASSUME IInv, KInv, NEW c \in Contexts, Only(c), SameFlags, log' \in [Ids -> Entry],
         \A id \in Ids : SameRuns(id) /\ log'[id].state = log[id].state,
         \A p \in Priorities, i \in Slot :
           event'[p][i].id = event[p][i].id /\ event'[p][i].runs = event[p][i].runs,
         Onward(c), SamePlace(c)
  PROVE  KInv'
<1>1. \A d \in Contexts : pc[d] \in ScheduleSteps => asking[d].id \in Ids
  BY DEF KInv, Calling
<1>2. \A d \in Contexts : Onward(d)
  BY <1>1, OthersOnward
<1>3. SameActive
  BY DEF SameActive, SameFlags
<1> QED
  BY <1>2, <1>3, PlacesKept, KInvKept

\* Those that leave the log and the slots alone.
LEMMA StepKept ==
  ASSUME IInv, KInv, NEW c \in Contexts, Quiet(c), UNCHANGED <<event, log>>,
         SamePlace(c), Onward(c)
  PROVE  KInv'
<1>1. log' \in [Ids -> Entry] /\ \A id \in Ids : SameRuns(id) /\ log'[id].state = log[id].state
  BY DEF KInv, SameRuns
<1> QED
  BY <1>1, StillKept DEF Quiet

LEMMA RoomKept == ASSUME IInv, KInv, NEW c \in Contexts, ScheduleRoom(c) PROVE KInv'
<1>1. /\ pc[c] = "s_room" /\ pc'[c] = "s_slot" /\ UNCHANGED <<handling, asking, event, log>>
  BY DEF ScheduleRoom, Step, table, IInv, Typed
<1>2. SamePlace(c) /\ Onward(c)
  BY <1>1 DEF SamePlace, At, Onward, ScheduleSteps, Filling
<1> QED
  BY <1>1, <1>2, ScheduleRoomInv, StepKept

LEMMA LoadKept == ASSUME IInv, KInv, NEW c \in Contexts, ScheduleLoad(c) PROVE KInv'
<1>1. /\ pc[c] = "s_load" /\ pc'[c] = "s_store" /\ UNCHANGED <<handling, event, log>>
      /\ asking' = [asking EXCEPT ![c].count = num[asking[c].prio]]
  BY DEF ScheduleLoad, Step, table, IInv, Typed
<1>2. /\ asking'[c].id = asking[c].id /\ asking'[c].prio = asking[c].prio
      /\ asking'[c].runs = asking[c].runs /\ asking'[c].slot = asking[c].slot
  BY <1>1 DEF IInv, Typed, Call
<1>3. SamePlace(c) /\ Onward(c)
  BY <1>1, <1>2 DEF SamePlace, At, Onward, ScheduleSteps, Filling
<1> QED
  BY <1>1, <1>3, ScheduleLoadInv, StepKept

LEMMA StoreKept == ASSUME IInv, KInv, NEW c \in Contexts, ScheduleStore(c) PROVE KInv'
<1>1. /\ pc[c] = "s_store" /\ pc'[c] = "s_active" /\ UNCHANGED <<handling, asking, event, log>>
      /\ Only(c) /\ SameFlags
  BY DEF ScheduleStore, Step, table, IInv, Typed, Only, SameFlags
<1>2. SamePlace(c) /\ Onward(c)
  BY <1>1 DEF SamePlace, At, Onward, ScheduleSteps, Filling
<1>3. log' \in [Ids -> Entry] /\ \A id \in Ids : SameRuns(id) /\ log'[id].state = log[id].state
  BY <1>1 DEF KInv, SameRuns
<1> QED
  BY <1>1, <1>2, <1>3, StillKept

LEMMA DueKept == ASSUME IInv, KInv, NEW c \in Contexts, ScheduleDue(c) PROVE KInv'
<1> DEFINE a == asking[c]
           e == [event[a.prio][a.slot] EXCEPT !.at = (Clock + a.interval) % TimeMod]
<1>1. /\ pc[c] = "s_due" /\ pc'[c] = "s_load" /\ UNCHANGED <<handling, asking>>
      /\ log' = [log EXCEPT ![a.id].start = Time]
      /\ event' = [event EXCEPT ![a.prio][a.slot] = e]
  BY DEF ScheduleDue, Step, table, IInv, Typed
<1>2. a.id \in Ids /\ Time \in Int /\ a.prio \in Priorities /\ a.slot \in Slot
  <2>1. a.id \in Ids
    BY <1>1 DEF KInv, Calling, ScheduleSteps
  <2>2. ms \in Nat /\ asking[c] \in Call /\ Asking(c)
    BY DEF IInv, Typed
  <2>3. Time \in Int
    BY <2>2, Parameters DEF Time
  <2>4. a.prio \in Priorities /\ a.slot \in Slot
    BY <1>1, <2>2 DEF Call, Asking
  <2> QED
    BY <2>1, <2>3, <2>4
<1>3. log' \in [Ids -> Entry] /\ \A id \in Ids : SameRuns(id) /\ log'[id].state = log[id].state
  <2>1. \A l \in Entry, t \in Int :
          LET k == [l EXCEPT !.start = t]
          IN  /\ k \in Entry /\ k.prio = l.prio /\ k.runs = l.runs /\ k.ran = l.ran
              /\ k.state = l.state
    BY DEF Entry
  <2> QED
    BY <1>1, <1>2, <2>1 DEF KInv, SameRuns
<1>4. \A p \in Priorities, i \in Slot :
        event'[p][i].id = event[p][i].id /\ event'[p][i].runs = event[p][i].runs
  <2>1. event[a.prio][a.slot] \in Event
    BY <1>2, EventType DEF IInv
  <2>2. e.id = event[a.prio][a.slot].id /\ e.runs = event[a.prio][a.slot].runs
    BY <2>1 DEF Event
  <2> HIDE DEF e
  <2> QED
    BY <1>1, <1>2, <2>2 DEF IInv, Typed
<1>5. SamePlace(c)
  BY <1>1 DEF SamePlace, At, ScheduleSteps
<1>6. Onward(c)
  BY <1>1, <1>2, <1>3, <1>4 DEF Onward, ScheduleSteps, Filling
<1> QED
  BY <1>3, <1>4, <1>5, <1>6, ScheduleDueInv, StillKept DEF Quiet

\* Steps of handleEvents outside of a callback and what follows it.
LEMMA HandlerKept ==
  ASSUME IInv, KInv, NEW c \in Contexts, Only(c), SameFlags, log' = log,
         \A p \in Priorities, i \in Slot :
           event'[p][i].id = event[p][i].id /\ event'[p][i].runs = event[p][i].runs,
         {pc[c], pc'[c]} \cap (ScheduleSteps \cup {"callback", "h_runs"}) = {}
  PROVE  KInv'
<1>1. SamePlace(c) /\ Onward(c)
  BY DEF SamePlace, At, Onward
<1>2. log' \in [Ids -> Entry] /\ \A id \in Ids : SameRuns(id) /\ log'[id].state = log[id].state
  BY DEF KInv, SameRuns
<1> QED
  BY <1>1, <1>2, StillKept

LEMMA HandlerStepsKept ==
  ASSUME IInv, KInv, NEW c \in Contexts,
         HandleTest(c) \/ HandleSkip(c) \/ HandleLoad(c) \/ HandleStore(c)
  PROVE  KInv'
<1>1. /\ pc[c] \in {"h_test", "h_look", "h_load", "h_store"}
      /\ pc'[c] \in {"idle", "h_look", "h_store", "h_next"}
  BY DEF HandleTest, HandleSkip, HandleLoad, HandleStore, Advance, Step, IInv, Typed
<1>2. UNCHANGED <<event, log>>
  BY DEF HandleTest, HandleSkip, HandleLoad, HandleStore, table
<1>3. Only(c) /\ SameFlags
  <2>1. CASE HandleStore(c)
    BY <1>2, <2>1 DEF HandleStore, Step, Only, SameFlags, IInv, Typed
  <2> QED
    BY <2>1, HandleTestInv, HandleSkipInv, HandleLoadInv DEF Quiet
<1>4. {pc[c], pc'[c]} \cap (ScheduleSteps \cup {"callback", "h_runs"}) = {}
  BY <1>1 DEF ScheduleSteps
<1> QED
  BY <1>2, <1>3, <1>4, HandlerKept

LEMMA HandleNextKept == ASSUME IInv, KInv, NEW c \in Contexts, HandleNext(c) PROVE KInv'
<1> DEFINE p == Prio(c)
           i == handling[c].slot
           e == [event[p][i] EXCEPT !.at = (This(c).at + This(c).interval) % TimeMod]
<1>1. /\ pc[c] = "h_next" /\ pc'[c] \in {"idle", "h_look"} /\ log' = log
      /\ event' = [event EXCEPT ![p][i] = e]
  BY DEF HandleNext, Advance, Step, IInv, Typed
<1>2. p \in Priorities /\ i \in Slot
  BY <1>1 DEF IInv, Typed, Pass, Handling, HandleSteps, Prio
<1>3. event[p][i] \in Event
  BY <1>2, EventType DEF IInv
<1>4. e.id = event[p][i].id /\ e.runs = event[p][i].runs
  BY <1>3 DEF Event
<1> HIDE DEF e, p, i
<1>5. \A q \in Priorities, j \in Slot :
        event'[q][j].id = event[q][j].id /\ event'[q][j].runs = event[q][j].runs
  BY <1>1, <1>2, <1>4 DEF IInv, Typed
<1>6. {pc[c], pc'[c]} \cap (ScheduleSteps \cup {"callback", "h_runs"}) = {}
  BY <1>1 DEF ScheduleSteps
<1> QED
  BY <1>1, <1>5, <1>6, HandleNextInv, HandlerKept DEF Quiet

LEMMA CallbackReturnKept == ASSUME IInv, KInv, NEW c \in Contexts, CallbackReturn(c) PROVE KInv'
<1>1. /\ pc[c] = "callback" /\ pc'[c] = "h_runs" /\ UNCHANGED <<handling, asking, event, log>>
  BY DEF CallbackReturn, Step, table, IInv, Typed
<1>2. SamePlace(c) /\ Onward(c)
  BY <1>1 DEF SamePlace, At, Onward, ScheduleSteps
<1> QED
  BY <1>1, <1>2, CallbackReturnInv, StepKept

LEMMA CallResetKept ==
  ASSUME OneCaller, IInv, KInv, NEW c \in Contexts, CallReset(c) PROVE KInv'
<1>1. c = "main" /\ handling[c].slot = 0
  BY DEF CallReset, OneCaller, Contexts
<1>2. pc[c] = "idle" /\ pc'[c] = "r_slot" /\ UNCHANGED <<handling, event, log>>
  BY <1>1 DEF CallReset, Caller, Step, table, IInv, Typed
<1>3. SamePlace(c) /\ Onward(c)
  BY <1>2 DEF SamePlace, At, Onward, ScheduleSteps
<1> QED
  BY <1>2, <1>3, CallResetInv, StepKept

LEMMA SameKept == ASSUME IInv, KInv, UNCHANGED <<pc, handling, asking, event, log>> PROVE KInv'
<1>1. Only("main") /\ SameFlags /\ "main" \in Contexts
  BY DEF Only, SameFlags, Contexts
<1>2. SamePlace("main") /\ Onward("main")
  BY DEF SamePlace, At, Onward
<1>3. log' \in [Ids -> Entry] /\ \A id \in Ids : SameRuns(id) /\ log'[id].state = log[id].state
  BY DEF KInv, SameRuns
<1> QED
  BY <1>1, <1>2, <1>3, StillKept

LEMMA BeginKept ==
  ASSUME IInv, KInv, NEW c \in Contexts, Step(c, "idle", "h_test"),
         handling' = [handling EXCEPT ![c].prio = Level(c)],
         UNCHANGED <<asking, event, num, log>>, ms' \in Nat
  PROVE  KInv'
<1>1. pc[c] = "idle" /\ pc'[c] = "h_test"
  BY DEF Step, IInv, Typed
<1>2. {pc[c], pc'[c]} \cap (ScheduleSteps \cup {"callback", "h_runs"}) = {}
  BY <1>1 DEF ScheduleSteps
<1> QED
  BY <1>2, BeginInv, HandlerKept DEF Quiet

LEMMA CallHandleKept == ASSUME IInv, KInv, CallHandle PROVE KInv'
<1>1. "main" \in Contexts /\ Level("main") = LOW /\ ms \in Nat
  BY DEF Contexts, Level, IInv, Typed
<1>2. Step("main", "idle", "h_test") /\ handling' = [handling EXCEPT !["main"].prio = Level("main")]
  BY <1>1 DEF CallHandle
<1>3. UNCHANGED <<asking, event, num, log>> /\ ms' \in Nat
  BY <1>1 DEF CallHandle, table
<1> QED
  BY <1>1, <1>2, <1>3, BeginKept

LEMMA InterruptKept == ASSUME IInv, KInv, Interrupt PROVE KInv'
<1>1. "isr" \in Contexts /\ Level("isr") = HIGH /\ ms \in Nat
  BY DEF Contexts, Level, IInv, Typed
<1>2. UNCHANGED <<asking, event, num, log>> /\ ms' \in Nat
  BY <1>1 DEF Interrupt, TC0_Handler, TC2_Handler, table
<1>3. CASE StartInterrupt
  <2>1. Step("isr", "idle", "h_test") /\ handling' = [handling EXCEPT !["isr"].prio = Level("isr")]
    BY <1>1, <1>3 DEF StartInterrupt
  <2> QED
    BY <1>1, <1>2, <2>1, BeginKept
<1>4. CASE UNCHANGED <<pc, handling>>
  BY <1>2, <1>4, SameKept
<1> QED
  BY <1>3, <1>4 DEF Interrupt, TC0_Handler, TC2_Handler

-----------------------------------------------------------------------------
\* The steps of schedule

\* Two calls are never about one number.
LEMMA OtherCall ==
  ASSUME KInv, NEW c \in Contexts, NEW d \in Contexts, c # d,
         pc[c] \in ScheduleSteps, pc[d] \in ScheduleSteps
  PROVE  asking[c].id # asking[d].id
BY DEF KInv, Apart

\* The end of a call: refused, or accepted with the event in its slot.
LEMMA EndKept ==
  ASSUME IInv, KInv, NEW c \in Contexts, Quiet(c), event' = event, handling' = handling,
         pc[c] \in ScheduleSteps, pc'[c] = Caller(c), NEW state \in {"refused", "accepted"},
         state = "accepted" => pc[c] = "s_enable",
         log' = [log EXCEPT ![asking[c].id].state = state]
  PROVE  KInv'
<1>1. PICK n \in Ids : n = asking[c].id /\ log[n].state = "asked"
  BY DEF KInv, Calling
<1>2. \A l \in Entry :
        LET k == [l EXCEPT !.state = state]
        IN  /\ k \in Entry /\ k.prio = l.prio /\ k.runs = l.runs /\ k.ran = l.ran
            /\ k.state = state
  BY DEF Entry, States
<1>3. /\ log' \in [Ids -> Entry]
      /\ \A id \in Ids : /\ SameRuns(id)
                         /\ log'[id].state = IF id = n THEN state ELSE log[id].state
  BY <1>1, <1>2 DEF KInv, SameRuns
<1>4. state = "accepted" => Served(n)
  BY <1>1 DEF KInv, Calling
<1>5. pc'[c] \notin ScheduleSteps /\ (handling[c].slot # 0 => pc'[c] = "callback")
  BY DEF Caller, ScheduleSteps
<1>6. \A i \in Slot : i # 0
  BY SlotsPositive DEF Slot
<1>7. SamePlace(c) /\ Onward(c)
  BY <1>5, <1>6 DEF SamePlace, At, Onward
<1>8. ASSUME NEW d \in Contexts, d # c PROVE Onward(d)
  <2>1. pc[d] \in ScheduleSteps => asking[d].id \in Ids /\ asking[d].id # n
    BY <1>1, <1>8, OtherCall DEF KInv, Calling
  <2> QED
    BY <1>3, <1>8, <2>1, OthersOnward DEF Quiet
<1>9. SamePlaces /\ SameActive
  BY <1>7, PlacesKept DEF Quiet, SameActive
<1> QED
  BY <1>1, <1>3, <1>4, <1>7, <1>8, <1>9, KInvKept

LEMMA RefuseKept == ASSUME IInv, KInv, NEW c \in Contexts, ScheduleRefuse(c) PROVE KInv'
<1>1. /\ pc[c] = "s_room" /\ pc'[c] = Caller(c) /\ event' = event /\ handling' = handling
      /\ log' = [log EXCEPT ![asking[c].id].state = "refused"]
  BY DEF ScheduleRefuse, Step, table, IInv, Typed
<1>2. pc[c] \in ScheduleSteps
  BY <1>1 DEF ScheduleSteps
<1> QED
  BY <1>1, <1>2, ScheduleRefuseInv, EndKept

LEMMA EnableKept == ASSUME IInv, KInv, NEW c \in Contexts, ScheduleEnable(c) PROVE KInv'
<1>1. /\ pc[c] = "s_enable" /\ pc'[c] = Caller(c) /\ event' = event /\ handling' = handling
      /\ log' = [log EXCEPT ![asking[c].id].state = "accepted"]
  BY DEF ScheduleEnable, Step, table, IInv, Typed
<1>2. pc[c] \in ScheduleSteps
  BY <1>1 DEF ScheduleSteps
<1> QED
  BY <1>1, <1>2, ScheduleEnableInv, EndKept

\* When a step is about the call of c alone, the rest is as it was.
LEMMA OwnCallKept ==
  ASSUME IInv, KInv, NEW c \in Contexts, SameActive, SamePlaces, log' = log,
         pc[c] \in ScheduleSteps, asking'[c].id = asking[c].id, Calling(c)',
         \A d \in Contexts \ {c} : Onward(d)
  PROVE  KInv'
<1>1. log' \in [Ids -> Entry] /\ Asked' = Asked /\ \A id \in Ids : SameRuns(id)
  BY DEF KInv, SameRuns, Asked
<1>2. Asked \subseteq Ids
  BY LogFacts
<1>3. \A id \in Ids : Logged(id)'
  BY <1>1, LoggedKept
<1>4. \A d \in Contexts : Calling(d)'
  BY <1>1, <1>2, CallingKept
<1>5. Apart'
  BY DEF KInv, Apart, Onward
<1> QED
  BY <1>1, <1>2, <1>3, <1>4, <1>5, TableKept DEF KInv, Numbered

LEMMA SlotKept == ASSUME IInv, KInv, NEW c \in Contexts, ScheduleSlot(c) PROVE KInv'
<1> DEFINE p == asking[c].prio
           free == Free(p)
<1>1. pc[c] = "s_slot" /\ free # {} /\ free \subseteq Slot
  BY SlotFound DEF ScheduleSlot, Step
<1>2. PICK i \in free : asking' = [asking EXCEPT ![c].slot = i]
  BY <1>1, FirstFree DEF ScheduleSlot
<1>3. pc'[c] = "s_fill" /\ UNCHANGED <<handling, event, log>>
  BY <1>1 DEF ScheduleSlot, Step, table, IInv, Typed
<1>4. ~event[p][i].active
  BY DEF Free
<1> HIDE DEF free
<1>5. /\ asking'[c].id = asking[c].id /\ asking'[c].prio = p /\ asking'[c].slot = i
      /\ asking'[c].runs = asking[c].runs
  BY <1>2 DEF IInv, Typed, Call
<1>6. Calling(c)'
  BY <1>1, <1>3, <1>4, <1>5 DEF KInv, Calling, ScheduleSteps, Filling
<1>7. SamePlaces /\ SameActive
  <2>1. SamePlace(c)
    BY <1>1, <1>3 DEF SamePlace, At, ScheduleSteps
  <2> QED
    BY <1>3, <2>1, ScheduleSlotInv, PlacesKept DEF Quiet, SameActive
<1>8. \A d \in Contexts \ {c} : Onward(d)
  BY <1>3, ScheduleSlotInv, OthersOnward DEF Quiet
<1>9. pc[c] \in ScheduleSteps
  BY <1>1 DEF ScheduleSteps
<1> QED
  BY <1>3, <1>5, <1>6, <1>7, <1>8, <1>9, OwnCallKept

LEMMA FillKept ==
  ASSUME OneCaller, IInv, KInv, NEW c \in Contexts, ScheduleFill(c) PROVE KInv'
<1> DEFINE a == asking[c]
           e == [event[a.prio][a.slot] EXCEPT !.id = a.id, !.interval = a.interval, !.runs = a.runs]
<1>1. /\ pc[c] = "s_fill" /\ pc'[c] = "s_due" /\ UNCHANGED <<handling, asking, log>>
      /\ event' = [event EXCEPT ![a.prio][a.slot] = e]
  BY DEF ScheduleFill, Step, table, IInv, Typed
<1>2. a.prio \in Priorities /\ a.slot \in Slot /\ ~event[a.prio][a.slot].active
  BY <1>1 DEF KInv, Calling, Filling, IInv, Typed, Call, Asking
<1>3. event[a.prio][a.slot] \in Event
  BY <1>2, EventType DEF IInv
<1>4. e.id = a.id /\ e.runs = a.runs /\ ~e.active
  BY <1>2, <1>3 DEF Event
<1> HIDE DEF e
<1>5. event'[a.prio][a.slot] = e
  BY <1>1, <1>2 DEF IInv, Typed
<1>6. \A q \in Priorities, j \in Slot :
        q # a.prio \/ j # a.slot => event'[q][j] = event[q][j]
  BY <1>1, <1>2 DEF IInv, Typed
<1>7. SameActive
  <2> SUFFICES ASSUME NEW q \in Priorities, NEW j \in Slot
               PROVE  /\ event'[q][j].active = event[q][j].active
                      /\ event[q][j].active => event'[q][j].id = event[q][j].id
                                               /\ event'[q][j].runs = event[q][j].runs
    BY DEF SameActive
  <2>1. event[q][j].active \in BOOLEAN /\ e.active \in BOOLEAN
    BY <1>2, <1>3, EventType DEF IInv, Event, e
  <2>2. CASE q = a.prio /\ j = a.slot
    BY <1>2, <1>4, <1>5, <2>1, <2>2
  <2> QED
    BY <1>6, <2>2
<1>8. Calling(c)'
  <2>1. Calling(c) /\ asking'[c] = a /\ log' = log
    BY <1>1 DEF KInv
  <2>2. /\ a.id \in Ids /\ log[a.id].state = "asked" /\ log[a.id].prio = a.prio
        /\ log[a.id].runs = a.runs /\ log[a.id].ran = 0
        /\ \A q \in Priorities, j \in Slot : event[q][j].active => event[q][j].id # a.id
    BY <1>1, <2>1 DEF Calling, ScheduleSteps
  <2>3. \A q \in Priorities, j \in Slot : event'[q][j].active => event'[q][j].id # a.id
    BY <1>7, <2>2 DEF SameActive
  <2>4. ~e.active /\ e.id = a.id /\ e.runs = a.runs /\ event'[a.prio][a.slot] = e
    BY <1>4, <1>5
  <2> HIDE DEF a
  <2> QED
    BY <1>1, <2>1, <2>2, <2>3, <2>4 DEF Calling
<1>9. pc[c] \in ScheduleSteps /\ Only(c)
  BY <1>1, ScheduleFillInv DEF ScheduleSteps, Quiet
<1>10. SamePlaces
  <2>1. SamePlace(c)
    BY <1>1 DEF SamePlace, At, ScheduleSteps
  <2> QED
    BY <1>9, <2>1, PlacesKept
<1>11. ASSUME NEW d \in Contexts, d # c PROVE Onward(d)
  <2>1. /\ asking[d].prio \in Priorities
        /\ pc[d] \in Filling => asking[d].slot \in Slot /\ asking[d].prio # a.prio
    BY <1>9, <1>11, NotBoth DEF IInv, Typed, Call, Asking, Filling, ScheduleSteps
  <2>2. pc'[d] = pc[d] /\ asking'[d] = asking[d]
    BY <1>9, <1>11 DEF Only
  <2> QED
    BY <1>1, <1>6, <2>1, <2>2 DEF Onward
<1> QED
  BY <1>1, <1>7, <1>8, <1>9, <1>10, <1>11, OwnCallKept

\* A call gets the next number.
LEMMA NextNumber ==
  ASSUME KInv, NEW id \in Ids, id = Cardinality(Asked) + 1,
         \A k \in Ids \ {id} : log'[k] = log[k], log'[id].state = "asked"
  PROVE  id \notin Asked /\ Asked' = Asked \cup {id} /\ Numbered'
<1>1. PICK n \in 0 .. MaxEvents : Asked = 1 .. n
  BY DEF KInv, Numbered
<1>2. n \in Nat /\ MaxEvents \in Nat
  BY <1>1, Parameters
<1>3. Cardinality(1 .. n) = n
  BY <1>2, FS_Interval
<1>4. id = n + 1 /\ id \in 0 .. MaxEvents
  BY <1>1, <1>2, <1>3 DEF Ids
<1>5. Asked' = Asked \cup {id}
  BY DEF Asked
<1>6. Asked \cup {id} = 1 .. id
  BY <1>1, <1>2, <1>4
<1>7. id \notin Asked
  BY <1>1, <1>2, <1>4
<1> QED
  BY <1>4, <1>5, <1>6, <1>7 DEF Numbered

LEMMA NewEntry ==
  ASSUME NEW p \in Priorities, NEW n \in Nat, NEW r \in Nat
  PROVE  [NoLog EXCEPT !.state = "asked", !.prio = p, !.interval = n, !.runs = r] \in Entry
<1> DEFINE a == [NoLog EXCEPT !.state = "asked"]
           b == [a EXCEPT !.prio = p]
           d == [b EXCEPT !.interval = n]
           e == [d EXCEPT !.runs = r]
<1>1. NoLog \in Entry
  BY DEF NoLog, Entry, States, Priorities
<1>2. a \in Entry
  BY <1>1 DEF Entry, States
<1>3. b \in Entry
  BY <1>2 DEF Entry
<1>4. d \in Entry
  BY <1>3 DEF Entry
<1>5. e \in Entry
  BY <1>4 DEF Entry
<1> QED
  BY <1>5

LEMMA NewCallFields ==
  ASSUME NEW id \in Nat, NEW p \in Priorities, NEW n \in Nat, NEW r \in Nat
  PROVE  LET a == [NoCall EXCEPT !.id = id, !.prio = p, !.interval = n, !.runs = r]
         IN  a.id = id /\ a.prio = p /\ a.runs = r
BY DEF NoCall

LEMMA CallScheduleKept == ASSUME IInv, KInv, NEW c \in Contexts, CallSchedule(c) PROVE KInv'
<1>1. PICK p \in Priorities, n \in Intervals, r \in Runs, id \in Ids :
        CallSchedule(c)!(p, n, r, id)
  BY Zenon DEF CallSchedule
<1> DEFINE l == [NoLog EXCEPT !.state = "asked", !.prio = p, !.interval = n, !.runs = r]
           a == [NoCall EXCEPT !.id = id, !.prio = p, !.interval = n, !.runs = r]
<1>2. n \in Nat /\ r \in Nat /\ id \in Nat
  BY Parameters DEF Ids
<1>3. l \in Entry /\ l.state = "asked" /\ l.prio = p /\ l.runs = r /\ l.ran = 0
  <2>1. l.state = "asked" /\ l.prio = p /\ l.runs = r /\ l.ran = 0
    BY DEF NoLog
  <2>2. l \in Entry
    BY <1>2, NewEntry
  <2> QED
    BY <2>1, <2>2
<1>4. a.id = id /\ a.prio = p /\ a.runs = r
  BY <1>2, NewCallFields
<1> HIDE DEF l, a
<1>5. /\ id = Cardinality(Asked) + 1 /\ pc[c] = Caller(c) /\ pc'[c] = "s_room"
      /\ UNCHANGED <<handling, event>>
      /\ asking' = [asking EXCEPT ![c] = a] /\ log' = [log EXCEPT ![id] = l]
  BY <1>1 DEF Step, table, IInv, Typed, a, l
<1>6. /\ log' \in [Ids -> Entry] /\ log'[id] = l /\ \A k \in Ids \ {id} : log'[k] = log[k]
      /\ asking'[c] = a
  BY <1>3, <1>5 DEF KInv, IInv, Typed
<1>7. id \notin Asked /\ Asked' = Asked \cup {id} /\ Numbered' /\ Asked \subseteq Ids
  BY <1>3, <1>5, <1>6, NextNumber, LogFacts
<1>8. SameActive /\ SamePlaces /\ Only(c)
  <2>1. (handling[c].slot # 0 => pc[c] = "callback") /\ \A i \in Slot : i # 0
    BY <1>5, SlotsPositive DEF Caller, Slot
  <2>2. SamePlace(c)
    BY <1>5, <2>1 DEF SamePlace, At, ScheduleSteps
  <2> QED
    BY <1>1, <1>5, <2>2, CallScheduleInv, PlacesKept DEF Quiet, SameActive
<1>9. \A k \in Asked : SameRuns(k)
  BY <1>6, <1>7 DEF SameRuns
<1>10. ASSUME NEW k \in Ids PROVE Logged(k)'
  <2>1. CASE k = id
    BY <1>2, <1>3, <1>6, <2>1 DEF Logged
  <2>2. CASE k # id
    BY <1>6, <1>8, <2>2, LoggedKept DEF SameRuns
  <2> QED
    BY <2>1, <2>2
<1>11. Calling(c)'
  <2>1. \A p1 \in Priorities, i \in Slot : event[p1][i].active => event[p1][i].id # id
    BY <1>7, LogFacts
  <2> QED
    BY <1>3, <1>4, <1>5, <1>6, <2>1 DEF Calling, ScheduleSteps, Filling
<1>12. \A d \in Contexts : pc[d] \in ScheduleSteps => asking[d].id \in Asked
  BY DEF KInv, Calling, Asked
<1>13. \A d \in Contexts \ {c} : Onward(d)
  BY <1>5, <1>6, <1>7, <1>8, <1>12, OthersOnward
<1>14. \A d \in Contexts : Calling(d)'
  BY <1>8, <1>9, <1>11, <1>13, CallingKept
<1>15. Apart'
  BY <1>4, <1>6, <1>7, <1>12, <1>13 DEF KInv, Apart, Onward
<1> QED
  BY <1>6, <1>7, <1>8, <1>9, <1>10, <1>14, <1>15, TableKept DEF KInv

\* The event that is activated is one that nobody handles.
LEMMA ActivateKept ==
  ASSUME OneCaller, IInv, KInv, NEW c \in Contexts, ScheduleActivate(c) PROVE KInv'
<1>1. PICK p \in Priorities, i \in Slot, n \in Ids :
        /\ p = asking[c].prio /\ i = asking[c].slot /\ n = asking[c].id
        /\ pc[c] = "s_active" /\ Typed
  BY DEF ScheduleActivate, Step, IInv, Typed, Call, Asking, KInv, Calling, ScheduleSteps
<1> DEFINE e == [event[p][i] EXCEPT !.active = TRUE]
<1>2. /\ ~event[p][i].active /\ event[p][i].id = n /\ event[p][i].runs = asking[c].runs
      /\ log[n].state = "asked" /\ log[n].prio = p /\ log[n].runs = asking[c].runs
      /\ log[n].ran = 0
      /\ \A q \in Priorities, j \in Slot : event[q][j].active => event[q][j].id # n
  BY <1>1 DEF KInv, Calling, ScheduleSteps, Filling
<1>3. /\ pc'[c] = "s_enable" /\ UNCHANGED <<handling, asking, log>> /\ Only(c)
      /\ event' = [event EXCEPT ![p][i] = e]
  BY <1>1 DEF ScheduleActivate, Step, table, Typed, Only
<1>4. e.active /\ e.id = n /\ e.runs = asking[c].runs
  BY <1>1, <1>2, EventType DEF Event
<1> HIDE DEF e
<1>5. /\ event'[p][i] = e
      /\ \A q \in Priorities, j \in Slot : q # p \/ j # i => event'[q][j] = event[q][j]
  BY <1>1, <1>3 DEF Typed
<1>6. \A q \in Priorities, j \in Slot : Running(q, j)' = Running(q, j)
  BY <1>1, <1>3, HandlerOf DEF Running, At, Only, ScheduleSteps
<1>7. ~Running(p, i)
  <2>1. Handling(Handler(p)) /\ Level(Handler(p)) = p /\ i # 0
    BY <1>1, HandlerOf, SlotsPositive DEF IInv, Slot
  <2> QED
    BY <1>2, <2>1 DEF Running, At, Handling
<1>8. Asked' = Asked /\ Asked \subseteq Ids /\ n \in Asked /\ asking[c].runs \in Nat
  BY <1>1, <1>2, <1>3, LogFacts DEF Asked, Typed, Call
<1>9. ASSUME NEW q \in Priorities, NEW j \in Slot PROVE Entered(q, j)'
  <2>1. CASE q = p /\ j = i
    BY <1>2, <1>3, <1>4, <1>5, <1>6, <1>7, <1>8, <2>1 DEF Entered
  <2>2. CASE q # p \/ j # i
    <3>1. Entered(q, j)
      BY DEF KInv
    <3> QED
      BY <1>3, <1>5, <1>6, <1>8, <2>2, <3>1 DEF Entered
  <2> QED
    BY <2>1, <2>2
<1>10. \A q \in Priorities : Single(q)'
  BY <1>2, <1>4, <1>5 DEF KInv, Single
<1>11. \A id \in Ids : Served(id) => Served(id)'
  BY <1>2, <1>3, <1>5, LogFacts DEF Served, Holding
<1>12. \A id \in Ids : Logged(id)'
  BY <1>3, <1>11 DEF KInv, Logged
<1>13. ASSUME NEW d \in Contexts PROVE Calling(d)'
  <2>1. CASE d = c
    <3>1. Served(n)'
      BY <1>2, <1>3, <1>4, <1>5 DEF Served, Holding
    <3> QED
      BY <1>1, <1>2, <1>3, <2>1, <3>1 DEF Calling, ScheduleSteps, Filling
  <2>2. CASE d # c
    <3>1. pc'[d] = pc[d] /\ asking'[d] = asking[d] /\ Calling(d)
      BY <1>3, <2>2 DEF Only, KInv
    <3>2. pc[d] \in ScheduleSteps => asking[d].id # n /\ asking[d].prio # p
      BY <1>1, <2>2, OtherCall, NotBoth DEF ScheduleSteps
    <3>3. asking[d].prio \in Priorities /\ (pc[d] \in Filling => asking[d].slot \in Slot)
      BY DEF IInv, Typed, Call, Asking, Filling
    <3> QED
      BY <1>3, <1>4, <1>5, <1>11, <3>1, <3>2, <3>3 DEF Calling, ScheduleSteps, Filling
  <2> QED
    BY <2>1, <2>2
<1>14. Apart'
  BY <1>1, <1>3 DEF KInv, Apart, Only, ScheduleSteps
<1> QED
  BY <1>3, <1>8, <1>9, <1>10, <1>12, <1>13, <1>14 DEF KInv, Numbered

\* reset takes the event of one slot away and cancels it.
LEMMA ResetLogs ==
  ASSUME IInv, KInv, NEW c \in Contexts, ResetSlot(c)
  PROVE  /\ log' \in [Ids -> Entry]
         /\ \A id \in Ids :
              /\ SameRuns(id) /\ SamePromise(id)
              /\ log'[id].state = "none" <=> log[id].state = "none"
              /\ log'[id].state = "accepted" =>
                   /\ log[id].state = "accepted"
                   /\ ~(/\ event[asking[c].prio][asking[c].slot].active
                        /\ event[asking[c].prio][asking[c].slot].id = id)
<1> DEFINE e == event[asking[c].prio][asking[c].slot]
<1>1. \A l \in Entry :
        LET k == [l EXCEPT !.state = "cancelled"]
        IN  /\ k \in Entry /\ k.prio = l.prio /\ k.runs = l.runs /\ k.ran = l.ran
            /\ k.start = l.start /\ k.interval = l.interval /\ k.state = "cancelled"
  BY DEF Entry, States
<1>2. log' = [id \in Ids |-> IF e.active /\ e.id = id /\ log[id].state = "accepted"
                             THEN [log[id] EXCEPT !.state = "cancelled"] ELSE log[id]]
  BY DEF ResetSlot
<1> HIDE DEF e
<1>3. \A id \in Ids : log[id] \in Entry
  BY LogFacts
<1>4. log' \in [Ids -> Entry]
  BY <1>1, <1>2, <1>3
<1>5. ASSUME NEW id \in Ids
      PROVE  /\ SameRuns(id) /\ SamePromise(id)
             /\ log'[id].state = "none" <=> log[id].state = "none"
             /\ log'[id].state = "accepted" => log[id].state = "accepted" /\ ~(e.active /\ e.id = id)
  <2>1. CASE e.active /\ e.id = id /\ log[id].state = "accepted"
    <3>1. log'[id] = [log[id] EXCEPT !.state = "cancelled"]
      BY <1>2, <2>1
    <3> QED
      BY <1>1, <1>3, <2>1, <3>1 DEF SameRuns, SamePromise
  <2>2. CASE ~(e.active /\ e.id = id /\ log[id].state = "accepted")
    <3>1. log'[id] = log[id]
      BY <1>2, <2>2
    <3> QED
      BY <2>2, <3>1 DEF SameRuns, SamePromise
  <2> QED
    BY <2>1, <2>2
<1> QED
  BY <1>4, <1>5 DEF e

LEMMA ResetSlotKept == ASSUME IInv, KInv, NEW c \in Contexts, ResetSlot(c) PROVE KInv'
<1>1. PICK p \in Priorities, i \in Slot : p = asking[c].prio /\ i = asking[c].slot
  BY Resetting
<1>2. \A d \in Contexts : /\ pc[d] \in {"idle", "r_slot", "r_count"}
                          /\ pc'[d] \in {"idle", "r_slot", "r_count"}
  BY Resetting DEF Contexts
<1>3. /\ ~event'[p][i].active
      /\ \A q \in Priorities, j \in Slot : q # p \/ j # i => event'[q][j] = event[q][j]
  BY <1>1, SlotCleared
<1>4. Asked' = Asked /\ Asked \subseteq Ids
  BY ResetLogs, SameAsked, LogFacts
<1>5. ASSUME NEW id \in Ids PROVE Logged(id)'
  <2>1. Logged(id) /\ SameRuns(id) /\ log[id].prio \in Priorities
    BY ResetLogs, LogFacts DEF KInv
  <2>2. ASSUME log'[id].state = "accepted" PROVE Served(id)'
    <3>1. log[id].state = "accepted" /\ Served(id) /\ ~(event[p][i].active /\ event[p][i].id = id)
      BY <1>1, <2>1, <2>2, ResetLogs DEF Logged
    <3> QED
      BY <1>3, <2>1, <3>1 DEF Served, Holding, SameRuns
  <2> QED
    BY <2>1, <2>2 DEF Logged, SameRuns
<1>6. \A d \in Contexts : Calling(d)'
  BY <1>2 DEF Calling, ScheduleSteps, Filling
<1>7. Apart'
  BY <1>2 DEF Apart, ScheduleSteps
<1>8. ASSUME NEW q \in Priorities, NEW j \in Slot PROVE Entered(q, j)'
  <2>1. Running(q, j)' = Running(q, j)
    BY <1>2, HandlerOf DEF Running, At, ScheduleSteps
  <2>2. Entered(q, j) /\ (event'[q][j].active => event'[q][j] = event[q][j])
    BY <1>3 DEF KInv
  <2> QED
    BY <1>4, <2>1, <2>2, ResetLogs DEF Entered, SameRuns
<1>9. \A q \in Priorities : Single(q)'
  BY <1>3 DEF KInv, Single
<1> QED
  BY <1>4, <1>5, <1>6, <1>7, <1>8, <1>9, ResetLogs DEF KInv, Numbered

LEMMA ResetCountKept == ASSUME IInv, KInv, NEW c \in Contexts, ResetCount(c) PROVE KInv'
<1>1. event' = event /\ log' = log /\ handling' = handling
  BY DEF ResetCount
<1>2. SamePlace(c) /\ Onward(c)
  BY <1>1, Resetting DEF SamePlace, At, Onward, ScheduleSteps
<1>3. log' \in [Ids -> Entry] /\ \A id \in Ids : SameRuns(id) /\ log'[id].state = log[id].state
  BY <1>1 DEF KInv, SameRuns
<1>4. Only(c) /\ SameFlags
  BY <1>1, Resetting DEF SameFlags
<1> QED
  BY <1>1, <1>2, <1>3, <1>4, StillKept

-----------------------------------------------------------------------------
\* The run of an event

\* What is handled has a slot at the level of the context.
LEMMA AtWork ==
  ASSUME IInv, NEW c \in Contexts, pc[c] \in {"h_look", "h_runs"}
  PROVE  /\ Prio(c) = Level(c) /\ Prio(c) \in Priorities /\ handling[c].slot \in Slot
         /\ c = Handler(Prio(c))
         /\ pc[c] = "h_runs" => event[Prio(c)][handling[c].slot].active
<1>1. Prio(c) = Level(c) /\ Prio(c) \in Priorities /\ handling[c].slot \in Slot
  BY DEF IInv, Typed, Pass, Handling, HandleSteps, Prio
<1>2. c = Handler(Prio(c))
  BY <1>1 DEF Level, Handler, Contexts, HIGH, LOW
<1>3. handling[c].slot # 0
  BY <1>1, SlotsPositive DEF Slot
<1> QED
  BY <1>1, <1>2, <1>3 DEF IInv, Handling

\* What an active slot says of its call.
LEMMA AsEntered ==
  ASSUME NEW p \in Priorities, NEW i \in Slot, Entered(p, i), event[p][i].active,
         NEW n, n = event[p][i].id
  PROVE  /\ n \in Asked /\ log[n].prio = p
         /\ log[n].runs = 0 => event[p][i].runs = 0
         /\ log[n].runs > 0 =>
              /\ event[p][i].runs > 0
              /\ Running(p, i) => log[n].ran + event[p][i].runs = log[n].runs + 1
              /\ ~Running(p, i) => log[n].ran + event[p][i].runs = log[n].runs
BY DEF Entered

\* Only the event that c handles is run by it.
LEMMA RunningElse ==
  ASSUME IInv, NEW c \in Contexts, Only(c), handling' = handling, NEW p \in Priorities, p = Level(c),
         NEW q \in Priorities, NEW j \in Slot, q # p \/ j # handling[c].slot
  PROVE  Running(q, j)' = Running(q, j)
<1>1. CASE q = p
  <2>1. Handler(q) = c
    BY <1>1 DEF Level, Handler, Contexts, HIGH, LOW
  <2> QED
    BY <1>1, <2>1 DEF Running, At
<1>2. CASE q # p
  <2>1. Handler(q) # c /\ Handler(q) \in Contexts
    BY <1>2, HandlerOf
  <2> QED
    BY <2>1 DEF Running, At, Only
<1> QED
  BY <1>1, <1>2

\* The calls under way, when a context that makes none runs or counts a run.
LEMMA OthersServed ==
  ASSUME IInv, KInv, NEW c \in Contexts, Only(c), asking' = asking, pc'[c] \notin ScheduleSteps,
         \A id \in Ids : /\ log'[id].state = log[id].state /\ log'[id].prio = log[id].prio
                         /\ log'[id].runs = log[id].runs
                         /\ Served(id) => Served(id)',
         \A p \in Priorities, i \in Slot :
           /\ event'[p][i].id = event[p][i].id
           /\ event'[p][i].active => event[p][i].active
           /\ ~event[p][i].active => event'[p][i].runs = event[p][i].runs,
         \A d \in Contexts : pc[d] \in ScheduleSteps \ {"s_enable"} =>
           log'[asking[d].id].ran = log[asking[d].id].ran
  PROVE  /\ \A d \in Contexts : Calling(d)'
         /\ Apart'
<1>1. ASSUME NEW d \in Contexts PROVE Calling(d)'
  <2>1. CASE d = c
    BY <2>1 DEF Calling, ScheduleSteps, Filling
  <2>2. CASE d # c
    <3>1. pc'[d] = pc[d] /\ Calling(d)
      BY <2>2 DEF Only, KInv
    <3>2. asking[d].prio \in Priorities /\ (pc[d] \in Filling => asking[d].slot \in Slot)
      BY DEF IInv, Typed, Call, Asking, Filling
    <3> QED
      BY <3>1, <3>2 DEF Calling, ScheduleSteps, Filling
  <2> QED
    BY <2>1, <2>2
<1>2. Apart'
  BY DEF KInv, Apart, Only
<1> QED
  BY <1>1, <1>2

LEMMA RunKept == ASSUME IInv, KInv, NEW c \in Contexts, HandleRun(c) PROVE KInv'
<1>1. PICK p \in Priorities, i \in Slot, n \in Ids :
        /\ p = Prio(c) /\ p = Level(c) /\ i = handling[c].slot /\ n = event[p][i].id
        /\ c = Handler(p) /\ event[p][i].active /\ n \in Asked
  <2>1. pc[c] = "h_look" /\ This(c).active
    BY DEF HandleRun, Elapsed
  <2>2. This(c) = event[Prio(c)][handling[c].slot]
    BY DEF This
  <2> QED
    BY <2>1, <2>2, AtWork, LogFacts
<1>2. /\ pc[c] = "h_look" /\ pc'[c] = "callback" /\ UNCHANGED <<handling, asking, event>>
      /\ log' = [log EXCEPT ![n].ran = log[n].ran + 1, ![n].last = ms] /\ ms \in Nat
  BY <1>1 DEF HandleRun, Step, table, IInv, Typed, This
<1>3. /\ \A id \in Ids \ {n} : log'[id] = log[id]
      /\ log'[n] \in Entry /\ log'[n].state = log[n].state /\ log'[n].prio = log[n].prio
      /\ log'[n].runs = log[n].runs /\ log'[n].ran = log[n].ran + 1
      /\ log' \in [Ids -> Entry]
  <2> DEFINE r == log[n].ran + 1
             k == [[log[n] EXCEPT !.ran = r] EXCEPT !.last = ms]
  <2>1. r \in Nat /\ log[n] \in Entry
    BY LogFacts DEF Entry
  <2> HIDE DEF r
  <2>2. /\ k \in Entry /\ k.state = log[n].state /\ k.prio = log[n].prio /\ k.runs = log[n].runs
        /\ k.ran = r
    BY <1>2, <2>1 DEF Entry
  <2>3. log' = [log EXCEPT ![n] = k]
    BY <1>2 DEF KInv, r
  <2> HIDE DEF k
  <2> QED
    BY <2>2, <2>3 DEF KInv, r
<1>4. Entered(p, i) /\ ~Running(p, i) /\ Running(p, i)'
  BY <1>1, <1>2 DEF KInv, Running, At, ScheduleSteps
<1>5. log[n].prio = p /\ log[n].runs \in Nat /\ log[n].ran \in Nat /\ event[p][i].runs \in Nat
  BY <1>1, <1>4, LogFacts, EventType DEF Entered, Entry, IInv, Event
<1>6. /\ log[n].runs = 0 => event[p][i].runs = 0
      /\ log[n].runs > 0 => event[p][i].runs > 0 /\ log[n].ran + event[p][i].runs = log[n].runs
  <2>1. Entered(p, i) /\ ~Running(p, i) /\ event[p][i].active /\ n = event[p][i].id
    BY <1>1, <1>4
  <2>2. log[n].runs = 0 => event[p][i].runs = 0
    BY <2>1, AsEntered
  <2>3. log[n].runs > 0 => event[p][i].runs > 0 /\ log[n].ran + event[p][i].runs = log[n].runs
    BY <2>1, AsEntered
  <2> QED
    BY <2>2, <2>3
<1>7. Asked' = Asked
  BY <1>3, SameAsked
<1>8. ASSUME NEW q \in Priorities, NEW j \in Slot PROVE Entered(q, j)'
  <2>1. CASE q = p /\ j = i
    <3>1. log'[n].runs > 0 =>
            event[p][i].runs > 0 /\ log'[n].ran + event[p][i].runs = log'[n].runs + 1
      BY <1>3, <1>5, <1>6
    <3>2. log'[n].runs = 0 => event[p][i].runs = 0
      BY <1>3, <1>6
    <3>3. /\ event'[p][i].id = n /\ event'[p][i].runs = event[p][i].runs /\ n \in Asked'
          /\ log'[n].prio = p
      BY <1>1, <1>2, <1>3, <1>5, <1>7
    <3>4. Entered(p, i)'
      BY <1>4, <3>1, <3>2, <3>3 DEF Entered
    <3> QED
      BY <2>1, <3>4
  <2>2. CASE q # p \/ j # i
    <3>1. Entered(q, j) /\ (event[q][j].active => event[q][j].id # n)
      <4>1. Entered(q, j) /\ Single(p)
        BY DEF KInv
      <4>2. CASE q = p
        BY <1>1, <2>2, <4>1, <4>2 DEF Single
      <4>3. CASE q # p
        BY <1>5, <4>1, <4>3 DEF Entered
      <4> QED
        BY <4>1, <4>2, <4>3
    <3>2. Running(q, j)' = Running(q, j)
      BY <1>1, <1>2, <2>2, HandleRunInv, RunningElse DEF Quiet
    <3> QED
      BY <1>2, <1>3, <1>7, <3>1, <3>2, LogFacts DEF Entered
  <2> QED
    BY <2>1, <2>2
<1>9. \A q \in Priorities : Single(q)'
  BY <1>2 DEF KInv, Single
<1>10. ASSUME NEW id \in Ids, Served(id) PROVE Served(id)'
  <2>1. CASE id = n
    <3>1. event'[log'[n].prio][i].active /\ event'[log'[n].prio][i].id = n
      <4>1. log'[n].prio = p /\ event' = event
        BY <1>2, <1>3, <1>5
      <4> QED
        BY <1>1, <4>1
    <3>2. Holding(n)'
      BY <3>1 DEF Holding
    <3> QED
      BY <2>1, <3>2 DEF Served
  <2>2. CASE id # n
    BY <1>2, <1>3, <1>10, <2>2 DEF Served, Holding
  <2> QED
    BY <2>1, <2>2
<1>11. ASSUME NEW id \in Ids PROVE Logged(id)'
  <2>1. Logged(id)
    BY DEF KInv
  <2>2. id = n /\ log'[n].runs > 0 => log'[n].ran <= log'[n].runs
    BY <1>3, <1>5, <1>6
  <2> QED
    BY <1>3, <1>10, <2>1, <2>2 DEF Logged
<1>12. \A d \in Contexts : pc[d] \in ScheduleSteps \ {"s_enable"} => asking[d].id # n /\ asking[d].id \in Ids
  BY <1>1 DEF KInv, Calling
<1>13. Only(c) /\ pc'[c] \notin ScheduleSteps
  BY <1>2, HandleRunInv DEF Quiet, ScheduleSteps
<1>14. (\A d \in Contexts : Calling(d)') /\ Apart'
  BY <1>2, <1>3, <1>10, <1>12, <1>13, OthersServed
<1> QED
  BY <1>3, <1>7, <1>8, <1>9, <1>11, <1>14 DEF KInv, Numbered

LEMMA RunsKept == ASSUME IInv, KInv, NEW c \in Contexts, HandleRuns(c) PROVE KInv'
<1>1. PICK p \in Priorities, i \in Slot, n \in Ids :
        /\ p = Prio(c) /\ p = Level(c) /\ i = handling[c].slot /\ n = event[p][i].id
        /\ c = Handler(p) /\ event[p][i].active /\ n \in Asked
  BY AtWork, LogFacts DEF HandleRuns, Step
<1>2. PICK runs \in Nat, left \in Nat :
        /\ This(c) = event[p][i] /\ event[p][i] \in Event /\ runs = event[p][i].runs
        /\ left = IF runs > 1 THEN runs - 1 ELSE runs
  <2>1. This(c) = event[p][i] /\ event[p][i] \in Event
    BY <1>1, EventType DEF This, IInv
  <2>2. PICK r \in Nat : r = event[p][i].runs
    BY <2>1 DEF Event
  <2>3. (IF r > 1 THEN r - 1 ELSE r) \in Nat
    OBVIOUS
  <2> QED
    BY <2>1, <2>2, <2>3
<1> DEFINE e == [[event[p][i] EXCEPT !.active = This(c).active /\ runs # 1] EXCEPT !.runs = left]
<1>3. /\ pc[c] = "h_runs" /\ pc'[c] \in {"h_load", "h_next"} /\ UNCHANGED <<handling, asking, log>>
      /\ Only(c) /\ event' = [event EXCEPT ![p][i] = e]
  BY <1>1, <1>2 DEF HandleRuns, Step, IInv, Typed, Only
<1>4. e.active = (runs # 1) /\ e.id = n /\ e.runs = left
  <2> DEFINE f == [event[p][i] EXCEPT !.active = This(c).active /\ runs # 1]
  <2>1. f \in Event /\ f.active = (runs # 1) /\ f.id = n
    BY <1>1, <1>2 DEF Event
  <2> HIDE DEF f
  <2>2. [f EXCEPT !.runs = left].active = f.active /\ [f EXCEPT !.runs = left].id = f.id
        /\ [f EXCEPT !.runs = left].runs = left
    BY <2>1 DEF Event
  <2> QED
    BY <2>1, <2>2 DEF f
<1> HIDE DEF e
<1>5. /\ event'[p][i] = e
      /\ \A q \in Priorities, j \in Slot : q # p \/ j # i => event'[q][j] = event[q][j]
  BY <1>1, <1>3 DEF IInv, Typed
<1>6. Entered(p, i) /\ Running(p, i) /\ ~Running(p, i)'
  BY <1>1, <1>3 DEF KInv, Running, At, ScheduleSteps
<1>7. log[n].prio = p /\ log[n].runs \in Nat /\ log[n].ran \in Nat
  BY <1>1, <1>6, LogFacts DEF Entered, Entry
<1>8. /\ log[n].runs = 0 => runs = 0
      /\ log[n].runs > 0 => runs > 0 /\ log[n].ran + runs = log[n].runs + 1
  <2>1. Entered(p, i) /\ Running(p, i) /\ event[p][i].active /\ n = event[p][i].id
    BY <1>1, <1>6
  <2> QED
    BY <1>2, <2>1, AsEntered
<1>9. Asked' = Asked
  BY <1>3 DEF Asked
<1>10. ASSUME NEW q \in Priorities, NEW j \in Slot PROVE Entered(q, j)'
  <2>1. CASE q = p /\ j = i
    <3>1. CASE runs = 1
      BY <1>4, <1>5, <2>1, <3>1 DEF Entered
    <3>2. CASE runs # 1
      <4>1. log[n].runs = 0 => left = 0
        BY <1>2, <1>8
      <4>3. log[n].runs > 0 => left > 0 /\ log[n].ran + left = log[n].runs
        BY <1>2, <1>7, <1>8, <3>2
      <4>4. /\ event'[p][i].id = n /\ event'[p][i].runs = left /\ n \in Asked'
            /\ log'[n].prio = p /\ log'[n].runs = log[n].runs /\ log'[n].ran = log[n].ran
        BY <1>1, <1>3, <1>4, <1>5, <1>7, <1>9
      <4>5. Entered(p, i)'
        BY <1>6, <1>7, <4>1, <4>3, <4>4 DEF Entered
      <4> QED
        BY <2>1, <4>5
    <3> QED
      BY <3>1, <3>2
  <2>2. CASE q # p \/ j # i
    <3>1. Entered(q, j)
      BY DEF KInv
    <3>2. Running(q, j)' = Running(q, j)
      BY <1>1, <1>3, <2>2, RunningElse
    <3> QED
      BY <1>3, <1>5, <1>9, <2>2, <3>1, <3>2 DEF Entered
  <2> QED
    BY <2>1, <2>2
<1>11. \A q \in Priorities, j \in Slot :
         /\ event'[q][j].id = event[q][j].id
         /\ event'[q][j].active => event[q][j].active
         /\ ~event[q][j].active => event'[q][j].runs = event[q][j].runs
  BY <1>1, <1>4, <1>5
<1>12. \A q \in Priorities : Single(q)'
  BY <1>11 DEF KInv, Single
<1>13. ASSUME NEW id \in Ids, Served(id) PROVE Served(id)'
  <2>1. CASE id = n /\ runs = 1
    <3>1. log[n].runs > 0 /\ log[n].ran = log[n].runs
      BY <1>7, <1>8, <2>1
    <3> QED
      BY <1>3, <2>1, <3>1 DEF Served
  <2>2. CASE id # n \/ runs # 1
    <3>1. CASE Holding(id)
      <4>1. PICK j \in Slot : event[log[id].prio][j].active /\ event[log[id].prio][j].id = id
        BY <3>1 DEF Holding
      <4>2. log[id].prio \in Priorities
        BY LogFacts
      <4>3. event'[log[id].prio][j].active /\ event'[log[id].prio][j].id = id
        <5>1. CASE log[id].prio = p /\ j = i
          <6>1. id = n /\ runs # 1
            BY <1>1, <2>2, <4>1, <5>1
          <6>2. e.active /\ e.id = n /\ event'[p][i] = e
            BY <1>4, <1>5, <6>1
          <6> QED
            BY <5>1, <6>1, <6>2
        <5>2. CASE log[id].prio # p \/ j # i
          BY <1>5, <4>1, <4>2, <5>2
        <5> QED
          BY <5>1, <5>2
      <4> QED
        BY <1>3, <4>3 DEF Served, Holding
    <3>2. CASE ~Holding(id)
      BY <1>3, <1>13, <3>2 DEF Served
    <3> QED
      BY <3>1, <3>2
  <2> QED
    BY <2>1, <2>2
<1>14. \A id \in Ids : Logged(id)'
  BY <1>3, <1>13 DEF KInv, Logged
<1>15. pc'[c] \notin ScheduleSteps
  BY <1>3 DEF ScheduleSteps
<1>16. (\A d \in Contexts : Calling(d)') /\ Apart'
  BY <1>3, <1>11, <1>13, <1>15, OthersServed
<1> QED
  BY <1>3, <1>9, <1>10, <1>12, <1>14, <1>16 DEF KInv, Numbered

-----------------------------------------------------------------------------
\* The theorems

LEMMA KInit == Init => KInv
<1> SUFFICES ASSUME Init PROVE KInv
  OBVIOUS
<1>1. log \in [Ids -> Entry] /\ \A id \in Ids : log[id].state = "none" /\ log[id].runs = 0
  BY DEF Init, NoLog, Entry, States, Priorities
<1>2. Asked = 1 .. 0 /\ 0 \in 0 .. MaxEvents
  BY <1>1, Parameters DEF Asked
<1>3. \A p \in Priorities, i \in Slot : ~event[p][i].active
  BY DEF Init, NoEvent
<1>4. \A c \in Contexts : pc[c] = "idle"
  BY DEF Init
<1>5. \A id \in Ids : Logged(id)
  BY <1>1 DEF Logged
<1>6. \A c \in Contexts : Calling(c)
  BY <1>4 DEF Calling, ScheduleSteps, Filling
<1>7. Apart
  BY <1>4 DEF Apart, ScheduleSteps
<1> QED
  BY <1>1, <1>2, <1>3, <1>5, <1>6, <1>7 DEF KInv, Numbered, Single, Entered

LEMMA CodeKept == ASSUME OneCaller, IInv, KInv, NEW c \in Contexts, Code(c) PROVE KInv'
BY RefuseKept, RoomKept, SlotKept, FillKept, DueKept, LoadKept, StoreKept, ActivateKept,
   EnableKept, ResetSlotKept, ResetCountKept, HandlerStepsKept, RunKept, CallbackReturnKept, RunsKept, HandleNextKept
DEF Code

LEMMA KNext == ASSUME OneCaller, IInv, KInv, [Next]_vars PROVE KInv'
<1>1. CASE \E c \in Contexts : CallSchedule(c) \/ CallReset(c) \/ Code(c)
  BY <1>1, CallScheduleKept, CallResetKept, CodeKept
<1>2. CASE Enable \/ Disable
  <2>1. UNCHANGED <<pc, handling, asking, event, log>>
    BY <1>2 DEF Enable, Disable, Step, table, IInv, Typed
  <2> QED
    BY <2>1, SameKept
<1>3. CASE CallHandle
  BY <1>3, CallHandleKept
<1>4. CASE Interrupt
  BY <1>4, InterruptKept
<1>5. CASE UNCHANGED vars
  BY <1>5, SameKept DEF vars, table
<1> QED
  BY <1>1, <1>2, <1>3, <1>4, <1>5 DEF Next

LEMMA KInductive == ASSUME OneCaller PROVE Spec => []KInv
<1>1. Init => KInv
  BY KInit
<1>2. IInv /\ KInv /\ [Next]_vars => KInv'
  BY KNext
<1>3. Spec => []IInv
  BY Inductive
<1> QED
  BY <1>1, <1>2, <1>3, PTL DEF Spec

\* An event that schedule accepted keeps a slot until its last run, whatever
\* the interrupt and the main loop do in between (SchedulerModule.cpp).
THEOREM EventsKept == ASSUME OneCaller PROVE Spec => []Kept
<1>1. KInv => Kept
  BY LogFacts DEF KInv, Logged, Served, Holding, Kept, Entry
<1> QED
  BY <1>1, KInductive, PTL

\* No event runs more often than it was asked to (handleEvents).
THEOREM RunsBounded == ASSUME OneCaller PROVE Spec => []NeverTooOften
<1>1. KInv => NeverTooOften
  BY DEF KInv, Logged, NeverTooOften
<1> QED
  BY <1>1, KInductive, PTL

-----------------------------------------------------------------------------
\* The types, whoever calls what and from where: also when the count is wrong,
\* schedule writes through NULL or a callback clears the table.

Runner == [prio : Priorities, slot : Slot \cup {0}, now : Nat, count : Int]
Request ==
  [id : Ids \cup {0}, prio : Priorities, interval : Nat, runs : Nat, slot : Slot \cup {0}, count : Int]
Cell == [active : BOOLEAN, id : Ids \cup {0}, interval : Nat, runs : Nat, at : 0 .. TimeMod - 1]
Table == [Priorities -> [Slot -> Cell]]

TInv ==
  /\ pc \in [Contexts -> Points]
  /\ handling \in [Contexts -> Runner]
  /\ asking \in [Contexts -> Request]
  /\ enabled \in BOOLEAN
  /\ event \in Table
  /\ num \in [Priorities -> Int]
  /\ ticking \in BOOLEAN
  /\ ms \in Nat
  /\ log \in [Ids -> Entry]

LEMMA TInit == Init => TInv
<1> SUFFICES ASSUME Init PROVE TInv
  OBVIOUS
<1>1. 0 \in 0 .. TimeMod - 1
  BY Parameters
<1>2. NoEvent \in Cell /\ Outside \in Runner /\ NoCall \in Request /\ NoLog \in Entry
  BY <1>1 DEF NoEvent, Cell, Outside, Runner, NoCall, Request, NoLog, Entry, States, Priorities
<1>3. pc \in [Contexts -> Points] /\ num \in [Priorities -> Int]
  BY DEF Init, Points
<1>4. event \in Table
  BY <1>2 DEF Init, Table
<1>5. handling \in [Contexts -> Runner] /\ asking \in [Contexts -> Request]
  BY <1>2 DEF Init
<1>6. log \in [Ids -> Entry]
  BY <1>2 DEF Init
<1>7. enabled \in BOOLEAN /\ ticking \in BOOLEAN /\ ms \in Nat
  BY DEF Init
<1> QED
  BY <1>3, <1>4, <1>5, <1>6, <1>7 DEF TInv

LEMMA StepTyped ==
  ASSUME TInv, NEW c \in Contexts, NEW from, NEW to \in Points, Step(c, from, to)
  PROVE  pc' \in [Contexts -> Points]
BY DEF TInv, Step

LEMMA CallerTyped ==
  ASSUME NEW c PROVE Caller(c) \in Points
BY DEF Caller, Points, HandleSteps

LEMMA RunnerTyped ==
  ASSUME TInv, NEW c \in Contexts, NEW h \in Runner, handling' = [handling EXCEPT ![c] = h]
  PROVE  handling' \in [Contexts -> Runner]
BY DEF TInv

LEMMA RequestTyped ==
  ASSUME TInv, NEW c \in Contexts, NEW a \in Request, asking' = [asking EXCEPT ![c] = a]
  PROVE  asking' \in [Contexts -> Request]
BY DEF TInv

LEMMA EntryTyped ==
  ASSUME TInv, NEW id, NEW l, id \in Ids => l \in Entry, log' = [log EXCEPT ![id] = l]
  PROVE  log' \in [Ids -> Entry]
BY DEF TInv

\* A write to one event; through NULL it goes elsewhere.
LEMMA CellTyped ==
  ASSUME TInv, NEW p \in Priorities, NEW i, NEW e, i \in Slot => e \in Cell,
         event' = [event EXCEPT ![p][i] = e]
  PROVE  event' \in Table
<1>1. event[p] \in [Slot -> Cell]
  BY DEF TInv, Table
<1>2. [event[p] EXCEPT ![i] = e] \in [Slot -> Cell]
  BY <1>1
<1>3. event' = [event EXCEPT ![p] = [event[p] EXCEPT ![i] = e]]
  BY DEF TInv, Table
<1> QED
  BY <1>2, <1>3 DEF TInv, Table

LEMMA Typical ==
  ASSUME TInv, NEW c \in Contexts
  PROVE  /\ handling[c] \in Runner /\ handling[c].prio \in Priorities
         /\ handling[c].slot \in Slot \cup {0} /\ handling[c].count \in Int
         /\ asking[c] \in Request /\ asking[c].prio \in Priorities
         /\ asking[c].id \in Ids \cup {0} /\ asking[c].interval \in Nat /\ asking[c].runs \in Nat
         /\ asking[c].slot \in Slot \cup {0} /\ asking[c].count \in Int
<1>1. handling[c] \in Runner /\ asking[c] \in Request
  BY DEF TInv
<1> QED
  BY <1>1 DEF Runner, Request

LEMMA CellFields ==
  ASSUME TInv, NEW p \in Priorities, NEW i \in Slot
  PROVE  event[p][i] \in Cell
BY DEF TInv, Table

LEMMA InTime ==
  ASSUME NEW t \in Int PROVE t % TimeMod \in 0 .. TimeMod - 1
BY Parameters

LEMMA ClockTyped == TInv => Clock \in Nat
<1> SUFFICES ASSUME TInv PROVE Clock \in Nat
  OBVIOUS
<1>1. ms \in Nat /\ UsPerMs \in Nat /\ TimeMod \in Nat \ {0}
  BY Parameters DEF TInv
<1>2. Time \in Nat
  <2>1. ms * UsPerMs \in Nat
    BY <1>1
  <2> QED
    BY <1>1, <2>1 DEF Time
<1>3. Time % TimeMod \in 0 .. TimeMod - 1
  BY <1>2, InTime
<1> QED
  BY <1>1, <1>2, <1>3 DEF Clock

LEMMA TimeTyped == TInv => Time \in Nat
<1> SUFFICES ASSUME TInv PROVE Time \in Nat
  OBVIOUS
<1>1. ms \in Nat /\ UsPerMs \in Nat
  BY Parameters DEF TInv
<1>2. ms * UsPerMs \in Nat
  BY <1>1
<1> QED
  BY <1>1, <1>2 DEF Time

-----------------------------------------------------------------------------
\* schedule keeps the types

LEMMA CallScheduleTyped == ASSUME TInv, NEW c \in Contexts, CallSchedule(c) PROVE TInv'
<1>1. PICK p \in Priorities, n \in Intervals, r \in Runs, id \in Ids :
        CallSchedule(c)!(p, n, r, id)
  BY Zenon DEF CallSchedule
<1> DEFINE l == [NoLog EXCEPT !.state = "asked", !.prio = p, !.interval = n, !.runs = r]
           a == [NoCall EXCEPT !.id = id, !.prio = p, !.interval = n, !.runs = r]
<1>2. n \in Nat /\ r \in Nat
  BY Parameters
<1>3. l \in Entry
  BY <1>2, NewEntry
<1>4. a \in Request
  <2> DEFINE a1 == [NoCall EXCEPT !.id = id]
             a2 == [a1 EXCEPT !.prio = p]
             a3 == [a2 EXCEPT !.interval = n]
             a4 == [a3 EXCEPT !.runs = r]
  <2>1. a1 \in Request
    BY DEF NoCall, Request, Priorities
  <2>2. a2 \in Request
    BY <2>1 DEF Request
  <2>3. a3 \in Request
    BY <1>2, <2>2 DEF Request
  <2>4. a4 \in Request
    BY <1>2, <2>3 DEF Request
  <2> QED
    BY <2>4
<1> HIDE DEF l, a
<1>5. /\ Step(c, Caller(c), "s_room") /\ UNCHANGED <<handling, enabled, event, num, ticking, ms>>
      /\ asking' = [asking EXCEPT ![c] = a] /\ log' = [log EXCEPT ![id] = l]
  BY <1>1 DEF table, a, l
<1>6. pc' \in [Contexts -> Points]
  BY <1>5, StepTyped DEF Points, ScheduleSteps
<1>7. asking' \in [Contexts -> Request] /\ log' \in [Ids -> Entry]
  BY <1>3, <1>4, <1>5, RequestTyped, EntryTyped
<1> QED
  BY <1>5, <1>6, <1>7 DEF TInv

LEMMA NoCallTyped == NoCall \in Request
BY DEF NoCall, Request, Priorities

LEMMA FateTyped ==
  ASSUME TInv, NEW id, NEW x \in States, log' = [log EXCEPT ![id].state = x]
  PROVE  log' \in [Ids -> Entry]
<1>1. log' = [log EXCEPT ![id] = [log[id] EXCEPT !.state = x]]
  BY DEF TInv
<1>2. id \in Ids => [log[id] EXCEPT !.state = x] \in Entry
  BY DEF TInv, Entry
<1> QED
  BY <1>1, <1>2, EntryTyped

LEMMA ScheduleRefuseTyped == ASSUME TInv, NEW c \in Contexts, ScheduleRefuse(c) PROVE TInv'
<1>1. /\ Step(c, "s_room", Caller(c)) /\ UNCHANGED <<handling, enabled, event, num, ticking, ms>>
      /\ asking' = [asking EXCEPT ![c] = NoCall]
      /\ log' = [log EXCEPT ![asking[c].id].state = "refused"]
  BY DEF ScheduleRefuse, table
<1>2. pc' \in [Contexts -> Points]
  BY <1>1, StepTyped, CallerTyped
<1>3. asking' \in [Contexts -> Request] /\ log' \in [Ids -> Entry]
  BY <1>1, NoCallTyped, RequestTyped, FateTyped DEF States
<1> QED
  BY <1>1, <1>2, <1>3 DEF TInv

LEMMA ScheduleRoomTyped == ASSUME TInv, NEW c \in Contexts, ScheduleRoom(c) PROVE TInv'
<1>1. pc' \in [Contexts -> Points]
  BY StepTyped DEF ScheduleRoom, Points, ScheduleSteps
<1> QED
  BY <1>1 DEF ScheduleRoom, table, TInv

\* The slot is a slot, or 0 for NULL.
LEMMA ScheduleSlotTyped == ASSUME TInv, NEW c \in Contexts, ScheduleSlot(c) PROVE TInv'
<1> DEFINE free == Free(asking[c].prio)
<1>1. PICK i : i = IF free = {} THEN 0 ELSE CHOOSE k \in free : \A j \in free : k <= j
  OBVIOUS
<1>2. free \subseteq Slot
  BY DEF Free
<1>3. i \in Slot \cup {0}
  <2> HIDE DEF free
  <2>1. CASE free = {}
    BY <1>1, <2>1
  <2>2. CASE free # {}
    BY <1>1, <1>2, <2>2, FirstFree
  <2> QED
    BY <2>1, <2>2
<1>4. /\ Step(c, "s_slot", IF free = {} THEN "fault" ELSE "s_fill")
      /\ asking' = [asking EXCEPT ![c].slot = i]
      /\ UNCHANGED <<handling, enabled, event, num, ticking, ms, log>>
  BY <1>1 DEF ScheduleSlot, table
<1> HIDE DEF free
<1>5. pc' \in [Contexts -> Points]
  BY <1>4, StepTyped DEF Points, ScheduleSteps
<1>6. asking' \in [Contexts -> Request]
  <2>1. asking' = [asking EXCEPT ![c] = [asking[c] EXCEPT !.slot = i]]
    BY <1>4 DEF TInv
  <2>2. [asking[c] EXCEPT !.slot = i] \in Request
    BY <1>3, Typical DEF Request
  <2> QED
    BY <2>1, <2>2, RequestTyped
<1> QED
  BY <1>4, <1>5, <1>6 DEF TInv

LEMMA ScheduleFillTyped == ASSUME TInv, NEW c \in Contexts, ScheduleFill(c) PROVE TInv'
<1> PICK p : p = asking[c].prio
  OBVIOUS
<1> PICK i : i = asking[c].slot
  OBVIOUS
<1> DEFINE e1 == [event[p][i] EXCEPT !.id = asking[c].id]
           e2 == [e1 EXCEPT !.interval = asking[c].interval]
           e3 == [e2 EXCEPT !.runs = asking[c].runs]
<1>1. /\ Step(c, "s_fill", "s_due")
      /\ event' = [event EXCEPT ![p][i] = [@ EXCEPT !.id = asking[c].id,
                     !.interval = asking[c].interval, !.runs = asking[c].runs]]
      /\ UNCHANGED <<handling, asking, enabled, num, ticking, ms, log>>
  BY DEF ScheduleFill
<1>2. p \in Priorities
  BY Typical
<1>3. pc' \in [Contexts -> Points]
  BY <1>1, StepTyped DEF Points, ScheduleSteps
<1>4. i \in Slot => e3 \in Cell
  <2> SUFFICES ASSUME i \in Slot PROVE e3 \in Cell
    OBVIOUS
  <2>1. e1 \in Cell
    BY <1>2, CellFields, Typical DEF Cell
  <2>2. e2 \in Cell
    BY <2>1, Typical DEF Cell
  <2>3. e3 \in Cell
    BY <2>2, Typical DEF Cell
  <2> QED
    BY <2>3
<1>5. event' = [event EXCEPT ![p][i] = e3]
  BY <1>1
<1> HIDE DEF e3
<1>6. event' \in Table
  BY <1>2, <1>4, <1>5, CellTyped
<1> QED
  BY <1>1, <1>3, <1>6 DEF TInv

\* When an event is due.
LEMMA DueTyped ==
  ASSUME TInv, NEW p \in Priorities, NEW i, NEW t, i \in Slot => t \in 0 .. TimeMod - 1,
         event' = [event EXCEPT ![p][i] = [@ EXCEPT !.at = t]]
  PROVE  event' \in Table
<1> DEFINE e == [event[p][i] EXCEPT !.at = t]
<1>1. i \in Slot => e \in Cell
  BY CellFields DEF Cell
<1>2. event' = [event EXCEPT ![p][i] = e]
  OBVIOUS
<1> HIDE DEF e
<1> QED
  BY <1>1, <1>2, CellTyped

LEMMA ScheduleDueTyped == ASSUME TInv, NEW c \in Contexts, ScheduleDue(c) PROVE TInv'
<1> PICK t : t = (Clock + asking[c].interval) % TimeMod
  OBVIOUS
<1>1. /\ Step(c, "s_due", "s_load")
      /\ event' = [event EXCEPT ![asking[c].prio][asking[c].slot] = [@ EXCEPT !.at = t]]
      /\ log' = [log EXCEPT ![asking[c].id].start = Time]
      /\ UNCHANGED <<handling, asking, enabled, num, ticking, ms>>
  BY DEF ScheduleDue
<1>2. t \in 0 .. TimeMod - 1
  <2>1. Clock + asking[c].interval \in Int
    BY ClockTyped, Typical
  <2> QED
    BY <2>1, InTime
<1>3. pc' \in [Contexts -> Points]
  BY <1>1, StepTyped DEF Points, ScheduleSteps
<1>4. event' \in Table
  BY <1>1, <1>2, Typical, DueTyped
<1>5. log' \in [Ids -> Entry]
  <2> PICK id : id = asking[c].id
    OBVIOUS
  <2>1. log' = [log EXCEPT ![id] = [log[id] EXCEPT !.start = Time]]
    BY <1>1 DEF TInv
  <2>2. id \in Ids => [log[id] EXCEPT !.start = Time] \in Entry
    <3>1. \A l \in Entry, m \in Int : [l EXCEPT !.start = m] \in Entry
      BY DEF Entry
    <3>2. Time \in Int /\ (id \in Ids => log[id] \in Entry)
      BY TimeTyped DEF TInv
    <3> QED
      BY ONLY <3>1, <3>2
  <2> QED
    BY <2>1, <2>2, EntryTyped
<1> QED
  BY <1>1, <1>3, <1>4, <1>5 DEF TInv

LEMMA ScheduleLoadTyped == ASSUME TInv, NEW c \in Contexts, ScheduleLoad(c) PROVE TInv'
<1> PICK n : n = num[asking[c].prio]
  OBVIOUS
<1>1. pc' \in [Contexts -> Points]
  BY StepTyped DEF ScheduleLoad, Points, ScheduleSteps
<1>2. asking' = [asking EXCEPT ![c] = [asking[c] EXCEPT !.count = n]] /\ n \in Int
  <2>1. asking' = [asking EXCEPT ![c].count = n]
    BY DEF ScheduleLoad
  <2>2. asking' = [asking EXCEPT ![c] = [asking[c] EXCEPT !.count = n]]
    BY <2>1 DEF TInv
  <2>3. n \in Int
    BY Typical DEF TInv
  <2> QED
    BY <2>2, <2>3
<1>3. [asking[c] EXCEPT !.count = n] \in Request
  BY <1>2, Typical DEF Request
<1>4. asking' \in [Contexts -> Request]
  BY <1>2, <1>3, RequestTyped
<1> QED
  BY <1>1, <1>4 DEF ScheduleLoad, table, TInv

LEMMA ScheduleStoreTyped == ASSUME TInv, NEW c \in Contexts, ScheduleStore(c) PROVE TInv'
<1>1. pc' \in [Contexts -> Points]
  BY StepTyped DEF ScheduleStore, Points, ScheduleSteps
<1>2. num' \in [Priorities -> Int]
  BY Typical DEF ScheduleStore, TInv
<1> QED
  BY <1>1, <1>2 DEF ScheduleStore, TInv

LEMMA ScheduleActivateTyped == ASSUME TInv, NEW c \in Contexts, ScheduleActivate(c) PROVE TInv'
<1> PICK p : p = asking[c].prio
  OBVIOUS
<1> PICK i : i = asking[c].slot
  OBVIOUS
<1> DEFINE e == [event[p][i] EXCEPT !.active = TRUE]
<1>1. pc' \in [Contexts -> Points]
  BY StepTyped DEF ScheduleActivate, Points, ScheduleSteps
<1>2. p \in Priorities
  BY Typical
<1>3. i \in Slot => e \in Cell
  <2>1. i \in Slot => event[p][i] \in Cell
    BY <1>2, CellFields
  <2>2. \A x \in Cell : [x EXCEPT !.active = TRUE] \in Cell
    BY DEF Cell
  <2> QED
    BY <2>1, <2>2
<1>4. event' = [event EXCEPT ![p][i] = e]
  BY DEF ScheduleActivate
<1> HIDE DEF e
<1>5. event' \in Table
  BY <1>2, <1>3, <1>4, CellTyped
<1> QED
  BY <1>1, <1>5 DEF ScheduleActivate, TInv

LEMMA ScheduleEnableTyped == ASSUME TInv, NEW c \in Contexts, ScheduleEnable(c) PROVE TInv'
<1>1. /\ Step(c, "s_enable", Caller(c)) /\ SetEnabled
      /\ UNCHANGED <<handling, event, num, ms>>
      /\ asking' = [asking EXCEPT ![c] = NoCall]
      /\ log' = [log EXCEPT ![asking[c].id].state = "accepted"]
  BY DEF ScheduleEnable, table
<1>2. pc' \in [Contexts -> Points]
  BY <1>1, StepTyped, CallerTyped
<1>3. asking' \in [Contexts -> Request] /\ log' \in [Ids -> Entry]
  BY <1>1, NoCallTyped, RequestTyped, FateTyped DEF States
<1>4. enabled' \in BOOLEAN /\ ticking' \in BOOLEAN
  BY <1>1 DEF SetEnabled, TInv
<1> QED
  BY <1>1, <1>2, <1>3, <1>4 DEF TInv

LEMMA CallsTyped ==
  ASSUME TInv, Enable \/ Disable \/ \E c \in Contexts : CallReset(c)
  PROVE  TInv'
<1>1. CASE Enable
  <2>1. pc' \in [Contexts -> Points]
    BY <1>1, StepTyped DEF Enable, Points, Contexts
  <2>2. enabled' \in BOOLEAN /\ ticking' \in BOOLEAN
    BY <1>1 DEF Enable, SetEnabled, TInv
  <2> QED
    BY <1>1, <2>1, <2>2 DEF Enable, table, TInv
<1>2. CASE Disable
  <2>1. pc' \in [Contexts -> Points]
    BY <1>2, StepTyped DEF Disable, Points, Contexts
  <2> QED
    BY <1>2, <2>1 DEF Disable, table, TInv
<1>3. ASSUME NEW c \in Contexts, CallReset(c) PROVE TInv'
  <2>1. pc' \in [Contexts -> Points]
    BY <1>3, StepTyped DEF CallReset, Points
  <2>2. [NoCall EXCEPT !.prio = HIGH, !.slot = 1] \in Request
    <3> DEFINE a == [NoCall EXCEPT !.prio = HIGH]
    <3>1. HIGH \in Priorities /\ 1 \in Slot
      BY SlotsPositive DEF Priorities
    <3>2. a \in Request
      BY <3>1, NoCallTyped DEF Request
    <3>3. [a EXCEPT !.slot = 1] \in Request
      BY <3>1, <3>2 DEF Request
    <3> QED
      BY <3>3
  <2>3. asking' \in [Contexts -> Request]
    BY <1>3, <2>2, RequestTyped DEF CallReset
  <2> QED
    BY <1>3, <2>1, <2>3 DEF CallReset, table, TInv
<1> QED
  BY <1>1, <1>2, <1>3

LEMMA ResetSlotTyped == ASSUME TInv, NEW c \in Contexts, ResetSlot(c) PROVE TInv'
<1> PICK p : p = asking[c].prio
  OBVIOUS
<1> PICK i : i = asking[c].slot
  OBVIOUS
<1> DEFINE e == [event[p][i] EXCEPT !.active = FALSE]
<1>1. pc' \in [Contexts -> Points]
  BY StepTyped DEF ResetSlot, Points
<1>2. p \in Priorities /\ i \in Slot \cup {0}
  BY Typical
<1>3. i \in Slot => e \in Cell
  <2>1. i \in Slot => event[p][i] \in Cell
    BY <1>2, CellFields
  <2>2. \A x \in Cell : [x EXCEPT !.active = FALSE] \in Cell
    BY DEF Cell
  <2> QED
    BY <2>1, <2>2
<1>4. event' = [event EXCEPT ![p][i] = e]
  BY DEF ResetSlot
<1> HIDE DEF e
<1>5. event' \in Table
  BY <1>2, <1>3, <1>4, CellTyped
<1>6. asking' \in [Contexts -> Request]
  <2>1. (IF i = Slots THEN 1 ELSE i + 1) \in Slot
    BY <1>2, SlotsPositive DEF Slot
  <2>2. \A x \in Request, j \in Slot : [x EXCEPT !.slot = j] \in Request
    BY DEF Request
  <2>3. asking' = [asking EXCEPT ![c] = [asking[c] EXCEPT !.slot = IF i = Slots THEN 1 ELSE i + 1]]
    BY DEF ResetSlot
  <2> QED
    BY <2>1, <2>2, <2>3, Typical, RequestTyped
<1>7. log' \in [Ids -> Entry]
  <2>1. \A l \in Entry : [l EXCEPT !.state = "cancelled"] \in Entry
    BY DEF Entry, States
  <2> QED
    BY <2>1 DEF ResetSlot, TInv
<1> QED
  BY <1>1, <1>5, <1>6, <1>7 DEF ResetSlot, TInv

LEMMA ResetCountTyped == ASSUME TInv, NEW c \in Contexts, ResetCount(c) PROVE TInv'
<1>1. pc' \in [Contexts -> Points]
  <2>1. (IF asking[c].prio = HIGH THEN "r_slot" ELSE Caller(c)) \in Points
    BY CallerTyped DEF Points
  <2> QED
    BY <2>1, StepTyped DEF ResetCount
<1>2. asking' \in [Contexts -> Request]
  <2>1. \A x \in Request : [x EXCEPT !.prio = LOW] \in Request
    BY DEF Request, Priorities
  <2>2. asking' = [asking EXCEPT ![c] =
                    IF asking[c].prio = HIGH THEN [asking[c] EXCEPT !.prio = LOW] ELSE NoCall]
    BY DEF ResetCount
  <2> QED
    BY <2>1, <2>2, NoCallTyped, Typical, RequestTyped
<1>3. num' = [num EXCEPT ![asking[c].prio] = 0] /\ num \in [Priorities -> Int]
  BY DEF ResetCount, TInv
<1>4. num' \in [Priorities -> Int]
  BY <1>3, Typical
<1> QED
  BY <1>1, <1>2, <1>4 DEF ResetCount, TInv

-----------------------------------------------------------------------------
\* handleEvents and the interrupts keep the types

LEMMA OutsideTyped == Outside \in Runner
BY DEF Outside, Runner, Priorities

LEMMA AdvanceTyped ==
  ASSUME TInv, NEW c \in Contexts, NEW from, Advance(c, from)
  PROVE  pc' \in [Contexts -> Points] /\ handling' \in [Contexts -> Runner]
<1>1. pc' \in [Contexts -> Points]
  BY StepTyped DEF Advance, Points, HandleSteps
<1>2. CASE handling[c].slot < Slots
  <2> PICK i : i = handling[c].slot + 1
    OBVIOUS
  <2> DEFINE f == [handling[c] EXCEPT !.slot = i]
             g == [f EXCEPT !.count = 0]
  <2>1. i \in Slot \cup {0}
    BY <1>2, Typical, SlotsPositive DEF Slot
  <2>2. f \in Runner
    BY <2>1, Typical DEF Runner
  <2>3. g \in Runner
    <3> HIDE DEF f
    <3> QED
      BY <2>2 DEF Runner
  <2>4. handling' = [handling EXCEPT ![c] = g]
    BY <1>2 DEF Advance, TInv
  <2> HIDE DEF g
  <2> QED
    BY <1>1, <2>3, <2>4, RunnerTyped
<1>3. CASE ~ (handling[c].slot < Slots)
  <2>1. handling' = [handling EXCEPT ![c] = Outside]
    BY <1>3 DEF Advance
  <2> QED
    BY <1>1, <2>1, OutsideTyped, RunnerTyped
<1> QED
  BY <1>2, <1>3

LEMMA HandleTestTyped == ASSUME TInv, NEW c \in Contexts, HandleTest(c) PROVE TInv'
<1>1. pc' \in [Contexts -> Points]
  BY StepTyped DEF HandleTest, Points, HandleSteps
<1>2. handling' \in [Contexts -> Runner]
  <2>1. CASE handling' = [handling EXCEPT ![c] = Outside]
    BY <2>1, OutsideTyped, RunnerTyped
  <2>2. CASE handling' = [handling EXCEPT ![c].slot = 1, ![c].now = Clock]
    <3> DEFINE f == [handling[c] EXCEPT !.slot = 1]
               g == [f EXCEPT !.now = Clock]
    <3>1. f \in Runner
      BY Typical, SlotsPositive DEF Runner
    <3>2. g \in Runner
      BY <3>1, ClockTyped DEF Runner
    <3>3. handling' = [handling EXCEPT ![c] = g]
      BY <2>2 DEF TInv
    <3> HIDE DEF g
    <3> QED
      BY <3>2, <3>3, RunnerTyped
  <2> QED
    BY <2>1, <2>2 DEF HandleTest
<1> QED
  BY <1>1, <1>2 DEF HandleTest, table, TInv

LEMMA HandleSkipTyped == ASSUME TInv, NEW c \in Contexts, HandleSkip(c) PROVE TInv'
<1>1. pc' \in [Contexts -> Points] /\ handling' \in [Contexts -> Runner]
  BY AdvanceTyped DEF HandleSkip
<1> QED
  BY <1>1 DEF HandleSkip, table, TInv

LEMMA HandleRunTyped == ASSUME TInv, NEW c \in Contexts, HandleRun(c) PROVE TInv'
<1> PICK id : id = This(c).id
  OBVIOUS
<1> DEFINE f == [log[id] EXCEPT !.ran = log[id].ran + 1]
           l == [f EXCEPT !.last = ms]
<1>1. pc' \in [Contexts -> Points]
  BY StepTyped DEF HandleRun, Points, HandleSteps
<1>2. log' = [log EXCEPT ![id].ran = @ + 1, ![id].last = ms]
  BY DEF HandleRun
<1>3. log' = [log EXCEPT ![id] = l]
  BY <1>2 DEF TInv
<1>4. id \in Ids => l \in Entry
  <2> SUFFICES ASSUME id \in Ids PROVE l \in Entry
    OBVIOUS
  <2>1. log[id] \in Entry /\ ms \in Nat
    BY DEF TInv
  <2>2. f \in Entry
    BY <2>1 DEF Entry
  <2> HIDE DEF f
  <2>3. l \in Entry
    BY <2>1, <2>2 DEF Entry
  <2> QED
    BY <2>3
<1> HIDE DEF l
<1>5. log' \in [Ids -> Entry]
  BY <1>3, <1>4, EntryTyped
<1> QED
  BY <1>1, <1>5 DEF HandleRun, table, TInv

LEMMA CallbackReturnTyped == ASSUME TInv, NEW c \in Contexts, CallbackReturn(c) PROVE TInv'
<1>1. pc' \in [Contexts -> Points]
  BY StepTyped DEF CallbackReturn, Points, HandleSteps
<1> QED
  BY <1>1 DEF CallbackReturn, table, TInv

LEMMA HandleRunsTyped == ASSUME TInv, NEW c \in Contexts, HandleRuns(c) PROVE TInv'
<1> PICK p : p = handling[c].prio
  OBVIOUS
<1> PICK i : i = handling[c].slot
  OBVIOUS
<1> PICK x : x = (event[p][i].active /\ event[p][i].runs # 1)
  OBVIOUS
<1> PICK r : r = (IF event[p][i].runs > 1 THEN event[p][i].runs - 1 ELSE event[p][i].runs)
  OBVIOUS
<1> DEFINE f == [event[p][i] EXCEPT !.active = x]
           e == [f EXCEPT !.runs = r]
<1>1. /\ Step(c, "h_runs", IF This(c).runs = 1 THEN "h_load" ELSE "h_next")
      /\ event' = [event EXCEPT ![p][i] = [@ EXCEPT !.active = x, !.runs = r]]
      /\ UNCHANGED <<handling, asking, enabled, num, ticking, ms, log>>
  BY DEF HandleRuns, This, Prio
<1>2. pc' \in [Contexts -> Points]
  BY <1>1, StepTyped DEF Points, HandleSteps
<1>3. p \in Priorities
  BY Typical
<1>4. i \in Slot => e \in Cell
  <2> SUFFICES ASSUME i \in Slot PROVE e \in Cell
    OBVIOUS
  <2>1. event[p][i] \in Cell
    BY <1>3, CellFields
  <2>2. x \in BOOLEAN /\ r \in Nat
    <3>1. event[p][i].runs \in Nat
      BY <2>1 DEF Cell
    <3>2. r = IF event[p][i].runs > 1 THEN event[p][i].runs - 1 ELSE event[p][i].runs
      OBVIOUS
    <3>3. r \in Nat
      BY ONLY <3>1, <3>2
    <3>4. x \in BOOLEAN
      OBVIOUS
    <3> QED
      BY <3>3, <3>4
  <2>3. f \in Cell
    <3>1. \A y \in Cell, z \in BOOLEAN : [y EXCEPT !.active = z] \in Cell
      BY DEF Cell
    <3> QED
      BY ONLY <2>1, <2>2, <3>1
  <2> HIDE DEF f
  <2>4. e \in Cell
    <3>1. \A y \in Cell, n \in Nat : [y EXCEPT !.runs = n] \in Cell
      BY DEF Cell
    <3> QED
      BY ONLY <2>2, <2>3, <3>1
  <2> QED
    BY <2>4
<1>5. event' = [event EXCEPT ![p][i] = e]
  BY <1>1
<1> HIDE DEF e
<1>6. event' \in Table
  BY <1>3, <1>4, <1>5, CellTyped
<1> QED
  BY <1>1, <1>2, <1>6 DEF TInv

LEMMA HandleLoadTyped == ASSUME TInv, NEW c \in Contexts, HandleLoad(c) PROVE TInv'
<1> PICK n : n = num[handling[c].prio]
  OBVIOUS
<1>1. pc' \in [Contexts -> Points]
  BY StepTyped DEF HandleLoad, Points, HandleSteps
<1>2. handling' = [handling EXCEPT ![c] = [handling[c] EXCEPT !.count = n]] /\ n \in Int
  <2>1. handling' = [handling EXCEPT ![c].count = n]
    BY DEF HandleLoad, Prio
  <2>2. handling' = [handling EXCEPT ![c] = [handling[c] EXCEPT !.count = n]]
    BY <2>1 DEF TInv
  <2>3. n \in Int
    BY Typical DEF TInv
  <2> QED
    BY <2>2, <2>3
<1>3. [handling[c] EXCEPT !.count = n] \in Runner
  BY <1>2, Typical DEF Runner
<1>4. handling' \in [Contexts -> Runner]
  BY <1>2, <1>3, RunnerTyped
<1> QED
  BY <1>1, <1>4 DEF HandleLoad, table, TInv

LEMMA HandleStoreTyped == ASSUME TInv, NEW c \in Contexts, HandleStore(c) PROVE TInv'
<1>1. pc' \in [Contexts -> Points]
  BY StepTyped DEF HandleStore, Points, HandleSteps
<1>2. num' \in [Priorities -> Int]
  BY Typical DEF HandleStore, Prio, TInv
<1> QED
  BY <1>1, <1>2 DEF HandleStore, TInv

LEMMA HandleNextTyped == ASSUME TInv, NEW c \in Contexts, HandleNext(c) PROVE TInv'
<1> PICK p : p = handling[c].prio
  OBVIOUS
<1> PICK i : i = handling[c].slot
  OBVIOUS
<1> PICK t : t = (event[p][i].at + event[p][i].interval) % TimeMod
  OBVIOUS
<1>1. /\ event' = [event EXCEPT ![p][i] = [@ EXCEPT !.at = t]]
      /\ UNCHANGED <<asking, enabled, num, ticking, ms, log>>
  BY DEF HandleNext, This, Prio
<1>2. pc' \in [Contexts -> Points] /\ handling' \in [Contexts -> Runner]
  BY AdvanceTyped DEF HandleNext
<1>3. p \in Priorities
  BY Typical
<1>4. i \in Slot => t \in 0 .. TimeMod - 1
  <2> SUFFICES ASSUME i \in Slot PROVE t \in 0 .. TimeMod - 1
    OBVIOUS
  <2>1. event[p][i].at + event[p][i].interval \in Int
    <3>1. event[p][i] \in Cell
      BY <1>3, CellFields
    <3>2. event[p][i].at \in Int /\ event[p][i].interval \in Int
      BY <3>1, Parameters DEF Cell
    <3> QED
      BY <3>2
  <2> QED
    BY <2>1, InTime
<1>5. event' \in Table
  BY <1>1, <1>3, <1>4, DueTyped
<1> QED
  BY <1>1, <1>2, <1>5 DEF TInv

\* A context calls handleEvents for a level.
LEMMA BeginTyped ==
  ASSUME TInv, NEW c \in Contexts, NEW p \in Priorities, Step(c, "idle", "h_test"),
         handling' = [handling EXCEPT ![c].prio = p]
  PROVE  pc' \in [Contexts -> Points] /\ handling' \in [Contexts -> Runner]
<1>1. pc' \in [Contexts -> Points]
  BY StepTyped DEF Points, HandleSteps
<1>2. handling' = [handling EXCEPT ![c] = [handling[c] EXCEPT !.prio = p]]
  BY DEF TInv
<1>3. [handling[c] EXCEPT !.prio = p] \in Runner
  BY Typical DEF Runner
<1> QED
  BY <1>1, <1>2, <1>3, RunnerTyped

LEMMA BeginsTyped ==
  ASSUME TInv, CallHandle \/ Interrupt
  PROVE  TInv'
<1>1. HIGH \in Priorities /\ LOW \in Priorities /\ "main" \in Contexts /\ "isr" \in Contexts
  BY DEF Priorities, Contexts
<1>2. ms' \in Nat /\ UNCHANGED <<asking, enabled, event, num, ticking, log>>
  BY DEF CallHandle, Interrupt, TC0_Handler, TC2_Handler, table, TInv
<1>3. CASE CallHandle
  <2>1. pc' \in [Contexts -> Points] /\ handling' \in [Contexts -> Runner]
    BY <1>1, <1>3, BeginTyped DEF CallHandle
  <2> QED
    BY <1>2, <2>1 DEF TInv
<1>4. CASE StartInterrupt
  <2>1. pc' \in [Contexts -> Points] /\ handling' \in [Contexts -> Runner]
    BY <1>1, <1>4, BeginTyped DEF StartInterrupt
  <2> QED
    BY <1>2, <2>1 DEF TInv
<1>5. CASE UNCHANGED <<pc, handling>>
  BY <1>2, <1>5 DEF TInv
<1> QED
  BY <1>3, <1>4, <1>5 DEF Interrupt, TC0_Handler, TC2_Handler

LEMMA CodeTyped == ASSUME TInv, NEW c \in Contexts, Code(c) PROVE TInv'
<1>1. CASE \/ ScheduleRefuse(c) \/ ScheduleRoom(c) \/ ScheduleSlot(c) \/ ScheduleFill(c)
           \/ ScheduleDue(c) \/ ScheduleLoad(c) \/ ScheduleStore(c) \/ ScheduleActivate(c)
           \/ ScheduleEnable(c) \/ ResetSlot(c) \/ ResetCount(c)
  BY <1>1, ScheduleRefuseTyped, ScheduleRoomTyped, ScheduleSlotTyped, ScheduleFillTyped,
     ScheduleDueTyped, ScheduleLoadTyped, ScheduleStoreTyped, ScheduleActivateTyped,
     ScheduleEnableTyped, ResetSlotTyped, ResetCountTyped
<1>2. CASE \/ HandleTest(c) \/ HandleSkip(c) \/ HandleRun(c) \/ CallbackReturn(c) \/ HandleRuns(c)
           \/ HandleLoad(c) \/ HandleStore(c) \/ HandleNext(c)
  BY <1>2, HandleTestTyped, HandleSkipTyped, HandleRunTyped, CallbackReturnTyped,
     HandleRunsTyped, HandleLoadTyped, HandleStoreTyped, HandleNextTyped
<1> QED
  BY <1>1, <1>2 DEF Code

LEMMA NextTyped == ASSUME TInv, [Next]_vars PROVE TInv'
<1>1. CASE UNCHANGED vars
  BY <1>1 DEF vars, table, TInv
<1>2. ASSUME NEW c \in Contexts, CallSchedule(c) \/ CallReset(c) \/ Code(c) PROVE TInv'
  BY <1>2, CallScheduleTyped, CallsTyped, CodeTyped
<1>3. CASE Enable \/ Disable
  BY <1>3, CallsTyped
<1>4. CASE CallHandle \/ Interrupt
  BY <1>4, BeginsTyped
<1> QED
  BY <1>1, <1>2, <1>3, <1>4 DEF Next

\* Type correctness without any condition on who schedules and on what a
\* callback calls: every slot number is one of the table or NULL, every due
\* time a uint32_t and every count a number, so that an update of the count
\* that got lost never makes the code read beside the table.
THEOREM TypeCorrect == Spec => []TypeOK
<1>1. TInv => TypeOK
  <2> SUFFICES ASSUME TInv PROVE TypeOK
    OBVIOUS
  <2>1. \A p \in Priorities, i \in Slot :
          /\ event[p][i].active \in BOOLEAN /\ event[p][i].id \in Ids \cup {0}
          /\ event[p][i].runs \in Nat /\ event[p][i].at \in 0 .. TimeMod - 1
    BY CellFields DEF Cell
  <2>2. \A id \in Ids : log[id].state \in States
    BY DEF TInv, Entry
  <2>3. \A c \in Contexts :
          /\ asking[c].id \in Ids \cup {0} /\ asking[c].prio \in Priorities
          /\ asking[c].slot \in Slot \cup {0} /\ asking[c].count \in Int
    BY Typical
  <2> QED
    BY <2>1, <2>2, <2>3 DEF TInv, TypeOK, Runner, Points, ResetSteps, States
<1> QED
  BY TInit, NextTyped, <1>1, PTL DEF Spec

-----------------------------------------------------------------------------
\* When an event runs.  The inductive invariant, on top of IInv and KInv and
\* for as long as elapsedAt does not wrap: the date of an active event is an
\* interval after its last run, or after the call when it has not run, until
\* the run begins; a call that fills a slot leaves it that date.

InRange == \A n \in Intervals \cup {0} : Time + n < TimeMod

\* The handler of the level is between the callback and the new date.
Ending == {"h_load", "h_store", "h_next"}
Busy(c, i) ==
  handling[c].slot = i /\ pc[c] \in ScheduleSteps \cup {"callback", "h_runs"} \cup Ending
Begun(p, i) == Busy(Handler(p), i)

\* The date of the last run that was made.
Made(id) == log[id].start + log[id].ran * log[id].interval

Dated(p, i) ==
  LET e == event[p][i] IN
  e.active =>
    /\ e.interval \in Intervals /\ log[e.id].interval = e.interval
    /\ Begun(p, i) => Made(e.id) <= e.at /\ e.at <= handling[Handler(p)].now
    /\ ~Begun(p, i) => Made(e.id) + e.interval <= e.at

Dating(c) ==
  LET a == asking[c]
      e == event[a.prio][a.slot]
  IN  /\ pc[c] \in ScheduleSteps => a.interval \in Intervals /\ log[a.id].interval = a.interval
      /\ pc[c] \in Filling \ {"s_fill"} => e.interval = a.interval
      /\ pc[c] \in Filling \ {"s_fill", "s_due"} => e.at = log[a.id].start + a.interval

\* The interrupt never gives a new date to the slot that main fills.
Clear ==
  pc["isr"] \in Ending /\ pc["main"] \in Filling /\ asking["main"].prio = HIGH =>
    handling["isr"].slot # asking["main"].slot

DInv ==
  /\ \A c \in Contexts : handling[c].now <= Time /\ Dating(c)
  /\ \A p \in Priorities, i \in Slot : Dated(p, i)
  /\ Clear

Invs == IInv /\ KInv /\ TInv /\ DInv

LEMMA NoWrap ==
  ASSUME NEW t \in Nat, NEW n \in Nat, NEW u \in Nat, t <= u, u + n < TimeMod
  PROVE  (t + n) % TimeMod = t + n
<1>1. TimeMod \in Nat \ {0} /\ t + n \in Nat /\ t + n < TimeMod
  BY Parameters
<1> QED
  BY <1>1

-----------------------------------------------------------------------------
\* Steps that change no date

SameBusy(c) ==
  \A i \in Slot : /\ Busy(c, i)' = Busy(c, i)
                  /\ Busy(c, i) => handling'[c].now = handling[c].now

\* The step is one that c may take, and it does not end a run.
Proper(c) ==
  /\ c = "main" => pc["isr"] = "idle"
  /\ pc'[c] \in Ending => pc[c] \in Ending /\ handling'[c].slot = handling[c].slot

LEMMA DatedSame ==
  ASSUME NEW p \in Priorities, NEW i \in Slot, Dated(p, i),
         event'[p][i].active => /\ event[p][i].active
                                /\ event'[p][i].id = event[p][i].id
                                /\ event'[p][i].interval = event[p][i].interval
                                /\ event'[p][i].at = event[p][i].at
                                /\ SamePromise(event[p][i].id),
         Begun(p, i)' = Begun(p, i),
         Begun(p, i) => handling'[Handler(p)].now = handling[Handler(p)].now
  PROVE  Dated(p, i)'
<1> SUFFICES ASSUME event'[p][i].active PROVE Dated(p, i)'
  BY DEF Dated
<1>1. PICK n : n = event[p][i].id
  OBVIOUS
<1>2. Made(n)' = Made(n) /\ log'[n].interval = log[n].interval
  BY <1>1 DEF SamePromise, Made
<1> QED
  BY <1>1, <1>2 DEF Dated

LEMMA BegunKept ==
  ASSUME NEW c \in Contexts, Only(c), SameBusy(c), NEW p \in Priorities, NEW i \in Slot
  PROVE  /\ Begun(p, i)' = Begun(p, i)
         /\ Begun(p, i) => handling'[Handler(p)].now = handling[Handler(p)].now
<1>1. Handler(p) \in Contexts
  BY HandlerOf
<1>2. CASE Handler(p) = c
  BY <1>2 DEF Begun, SameBusy
<1>3. CASE Handler(p) # c
  BY <1>1, <1>3 DEF Begun, Busy, Only
<1> QED
  BY <1>2, <1>3

LEMMA ClearKept ==
  ASSUME DInv, NEW c \in Contexts, Only(c), Proper(c)
  PROVE  Clear'
<1>1. CASE c = "main"
  <2>1. pc'["isr"] = "idle"
    BY <1>1 DEF Only, Proper, Contexts
  <2> QED
    BY <2>1 DEF Clear, Ending
<1>2. CASE c = "isr"
  BY <1>2 DEF DInv, Clear, Only, Proper, Contexts
<1> QED
  BY <1>1, <1>2 DEF Contexts

LEMMA OtherDating ==
  ASSUME DInv, NEW c \in Contexts, Only(c), NEW d \in Contexts, d # c,
         pc[d] \in ScheduleSteps =>
           /\ log'[asking[d].id].interval = log[asking[d].id].interval
           /\ log'[asking[d].id].start = log[asking[d].id].start,
         pc[d] \in Filling =>
           LET a == asking[d] IN
           /\ event'[a.prio][a.slot].interval = event[a.prio][a.slot].interval
           /\ event'[a.prio][a.slot].at = event[a.prio][a.slot].at
  PROVE  Dating(d)'
<1>1. pc'[d] = pc[d] /\ asking'[d] = asking[d] /\ Dating(d)
  BY DEF Only, DInv
<1> QED
  BY <1>1 DEF Dating, Filling, ScheduleSteps

\* Steps of c that leave the table alone.
LEMMA PlainDue ==
  ASSUME Invs, NEW c \in Contexts, Only(c), Proper(c), SameBusy(c), event' = event, ms' = ms,
         \A n \in Asked : SamePromise(n), handling'[c].now <= Time, Dating(c)'
  PROVE  DInv'
<1>1. \A d \in Contexts : pc[d] \in ScheduleSteps => asking[d].id \in Asked
  BY DEF Invs, KInv, Calling, Asked
<1>2. ASSUME NEW d \in Contexts PROVE Dating(d)'
  <2>1. CASE d = c
    BY <2>1
  <2>2. CASE d # c
    BY <1>1, <2>2, OtherDating DEF Invs, SamePromise
  <2> QED
    BY <2>1, <2>2
<1>3. ASSUME NEW d \in Contexts PROVE handling'[d].now <= Time'
  <2>1. Time' = Time /\ handling[d].now <= Time
    BY DEF Time, Invs, DInv
  <2> QED
    BY <2>1 DEF Only
<1>4. ASSUME NEW p \in Priorities, NEW i \in Slot PROVE Dated(p, i)'
  <2>1. Dated(p, i) /\ (event[p][i].active => event[p][i].id \in Asked)
    BY LogFacts DEF Invs, DInv
  <2>2. event'[p][i].active => SamePromise(event[p][i].id)
    BY <2>1
  <2> QED
    BY <2>1, <2>2, BegunKept, DatedSame
<1>5. Clear'
  BY ClearKept DEF Invs
<1> QED
  BY <1>2, <1>3, <1>4, <1>5 DEF DInv

\* Those that leave what c handles alone, too.
LEMMA StayDue ==
  ASSUME Invs, NEW c \in Contexts, Only(c), c = "main" => pc["isr"] = "idle",
         handling' = handling, event' = event, ms' = ms, \A n \in Asked : SamePromise(n),
         {pc[c], pc'[c]} \subseteq ScheduleSteps \cup {"callback", "h_runs"}
           \/ handling[c].slot = 0, pc'[c] \notin Ending,
         Dating(c)'
  PROVE  DInv'
<1>1. SameBusy(c)
  <2>1. \A i \in Slot : i # 0
    BY SlotsPositive DEF Slot
  <2> QED
    BY <2>1 DEF SameBusy, Busy
<1>2. Proper(c) /\ handling'[c].now <= Time
  BY DEF Proper, Invs, DInv
<1> QED
  BY <1>1, <1>2, PlainDue

\* A call goes on, with the slot it has.
LEMMA GoesOn ==
  ASSUME Invs, NEW c \in Contexts, pc[c] \in ScheduleSteps, event' = event, log' = log,
         asking'[c].id = asking[c].id, asking'[c].interval = asking[c].interval,
         pc'[c] \in Filling \ {"s_fill"} =>
           /\ asking'[c].prio = asking[c].prio /\ asking'[c].slot = asking[c].slot
           /\ pc[c] \in Filling \ {"s_fill"},
         pc'[c] \in Filling \ {"s_fill", "s_due"} => pc[c] \in Filling \ {"s_fill", "s_due"}
  PROVE  Dating(c)'
<1>1. Dating(c)
  BY DEF Invs, DInv
<1> QED
  BY <1>1 DEF Dating

LEMMA SamePromises ==
  ASSUME log' = log
  PROVE  \A n \in Asked : SamePromise(n)
BY DEF SamePromise

LEMMA RoomDue == ASSUME Invs, NEW c \in Contexts, ScheduleRoom(c) PROVE DInv'
<1>1. /\ pc[c] = "s_room" /\ pc'[c] = "s_slot" /\ UNCHANGED <<handling, asking, event, ms, log>>
      /\ c = "main" => pc["isr"] = "idle"
  BY DEF ScheduleRoom, Step, table, Invs, IInv, Typed
<1>2. Only(c)
  BY ScheduleRoomInv DEF Invs, Quiet
<1>3. Dating(c)'
  BY <1>1, GoesOn DEF ScheduleSteps, Filling
<1> QED
  BY <1>1, <1>2, <1>3, SamePromises, StayDue DEF ScheduleSteps, Ending

LEMMA SlotDue == ASSUME Invs, NEW c \in Contexts, ScheduleSlot(c) PROVE DInv'
<1> DEFINE free == Free(asking[c].prio)
<1>1. pc[c] = "s_slot" /\ free # {}
  BY SlotFound DEF ScheduleSlot, Step, Invs
<1>2. /\ pc'[c] = "s_fill" /\ UNCHANGED <<handling, event, ms, log>>
      /\ c = "main" => pc["isr"] = "idle"
  BY <1>1 DEF ScheduleSlot, Step, table, Invs, IInv, Typed
<1>3. PICK i : asking' = [asking EXCEPT ![c].slot = i]
  BY DEF ScheduleSlot
<1>4. asking'[c].id = asking[c].id /\ asking'[c].interval = asking[c].interval
  BY <1>3 DEF Invs, IInv, Typed, Call
<1>5. Only(c)
  BY ScheduleSlotInv DEF Invs, Quiet
<1>6. Dating(c)'
  BY <1>1, <1>2, <1>4, GoesOn DEF ScheduleSteps, Filling
<1> QED
  BY <1>1, <1>2, <1>5, <1>6, SamePromises, StayDue DEF ScheduleSteps, Ending

LEMMA LoadDue == ASSUME Invs, NEW c \in Contexts, ScheduleLoad(c) PROVE DInv'
<1>1. /\ pc[c] = "s_load" /\ pc'[c] = "s_store" /\ UNCHANGED <<handling, event, ms, log>>
      /\ asking' = [asking EXCEPT ![c].count = num[asking[c].prio]]
      /\ c = "main" => pc["isr"] = "idle"
  BY DEF ScheduleLoad, Step, table, Invs, IInv, Typed
<1>2. /\ asking'[c].id = asking[c].id /\ asking'[c].prio = asking[c].prio
      /\ asking'[c].interval = asking[c].interval /\ asking'[c].slot = asking[c].slot
  BY <1>1 DEF Invs, IInv, Typed, Call
<1>3. Only(c)
  BY ScheduleLoadInv DEF Invs, Quiet
<1>4. Dating(c)'
  BY <1>1, <1>2, GoesOn DEF ScheduleSteps, Filling
<1> QED
  BY <1>1, <1>3, <1>4, SamePromises, StayDue DEF ScheduleSteps, Ending

LEMMA StoreDue == ASSUME Invs, NEW c \in Contexts, ScheduleStore(c) PROVE DInv'
<1>1. /\ pc[c] = "s_store" /\ pc'[c] = "s_active"
      /\ UNCHANGED <<handling, asking, event, ms, log>>
      /\ c = "main" => pc["isr"] = "idle"
      /\ Only(c)
  BY DEF ScheduleStore, Step, table, Invs, IInv, Typed, Only
<1>2. Dating(c)'
  BY <1>1, GoesOn DEF ScheduleSteps, Filling
<1> QED
  BY <1>1, <1>2, SamePromises, StayDue DEF ScheduleSteps, Ending

\* The end of a call.
LEMMA EndDue ==
  ASSUME Invs, NEW c \in Contexts, Only(c), c = "main" => pc["isr"] = "idle",
         handling' = handling, event' = event, ms' = ms,
         pc[c] \in ScheduleSteps, pc'[c] = Caller(c), NEW state,
         log' = [log EXCEPT ![asking[c].id].state = state]
  PROVE  DInv'
<1>1. \A n \in Asked : SamePromise(n)
  <2>1. Asked \subseteq Ids /\ \A n \in Ids : log[n] \in Entry
    BY LogFacts DEF Invs
  <2> QED
    BY <2>1 DEF Invs, KInv, SamePromise, Entry
<1>2. pc'[c] \in {"idle", "callback"} /\ (pc'[c] = "callback" \/ handling[c].slot = 0)
  BY DEF Caller
<1>3. Dating(c)'
  BY <1>2 DEF Dating, ScheduleSteps, Filling
<1> QED
  BY <1>1, <1>2, <1>3, StayDue DEF Ending

LEMMA RefuseDue == ASSUME Invs, NEW c \in Contexts, ScheduleRefuse(c) PROVE DInv'
<1>1. /\ pc[c] = "s_room" /\ pc'[c] = Caller(c) /\ UNCHANGED <<handling, event, ms>>
      /\ log' = [log EXCEPT ![asking[c].id].state = "refused"]
      /\ c = "main" => pc["isr"] = "idle"
  BY DEF ScheduleRefuse, Step, table, Invs, IInv, Typed
<1>2. Only(c)
  BY ScheduleRefuseInv DEF Invs, Quiet
<1> QED
  BY <1>1, <1>2, EndDue DEF ScheduleSteps

LEMMA EnableDue == ASSUME Invs, NEW c \in Contexts, ScheduleEnable(c) PROVE DInv'
<1>1. /\ pc[c] = "s_enable" /\ pc'[c] = Caller(c) /\ UNCHANGED <<handling, event, ms>>
      /\ log' = [log EXCEPT ![asking[c].id].state = "accepted"]
      /\ c = "main" => pc["isr"] = "idle"
  BY DEF ScheduleEnable, Step, table, Invs, IInv, Typed
<1>2. Only(c)
  BY ScheduleEnableInv DEF Invs, Quiet
<1> QED
  BY <1>1, <1>2, EndDue DEF ScheduleSteps

LEMMA NewInterval ==
  ASSUME NEW id \in Nat, NEW p \in Priorities, NEW n \in Nat, NEW r \in Nat
  PROVE  /\ [NoCall EXCEPT !.id = id, !.prio = p, !.interval = n, !.runs = r].id = id
         /\ [NoCall EXCEPT !.id = id, !.prio = p, !.interval = n, !.runs = r].interval = n
         /\ [NoLog EXCEPT !.state = "asked", !.prio = p, !.interval = n, !.runs = r].interval = n
         /\ [NoLog EXCEPT !.state = "asked", !.prio = p, !.interval = n, !.runs = r].state = "asked"
BY DEF NoCall, NoLog

LEMMA CallScheduleDue == ASSUME Invs, NEW c \in Contexts, CallSchedule(c) PROVE DInv'
<1>1. PICK p \in Priorities, n \in Intervals, r \in Runs, id \in Ids :
        CallSchedule(c)!(p, n, r, id)
  BY Zenon DEF CallSchedule
<1> DEFINE l == [NoLog EXCEPT !.state = "asked", !.prio = p, !.interval = n, !.runs = r]
           a == [NoCall EXCEPT !.id = id, !.prio = p, !.interval = n, !.runs = r]
<1>2. n \in Nat /\ r \in Nat /\ id \in Nat
  BY Parameters DEF Ids
<1>3. a.id = id /\ a.interval = n /\ l.interval = n /\ l.state = "asked"
  BY <1>2, NewInterval
<1> HIDE DEF l, a
<1>4. /\ id = Cardinality(Asked) + 1 /\ pc[c] = Caller(c) /\ pc'[c] = "s_room"
      /\ UNCHANGED <<handling, event, ms>>
      /\ asking' = [asking EXCEPT ![c] = a] /\ log' = [log EXCEPT ![id] = l]
      /\ c = "main" => pc["isr"] = "idle"
  BY <1>1 DEF Step, table, Invs, IInv, Typed, a, l
<1>5. /\ log'[id] = l /\ \A k \in Ids \ {id} : log'[k] = log[k]
      /\ asking'[c] = a
  BY <1>4 DEF Invs, KInv, IInv, Typed
<1>6. id \notin Asked /\ Asked \subseteq Ids
  BY <1>3, <1>4, <1>5, NextNumber, LogFacts DEF Invs
<1>7. \A k \in Asked : SamePromise(k)
  BY <1>5, <1>6 DEF SamePromise
<1>8. Dating(c)'
  BY <1>3, <1>4, <1>5 DEF Dating, ScheduleSteps, Filling
<1>9. Only(c)
  BY CallScheduleInv DEF Invs, Quiet
<1>10. pc[c] = "callback" \/ handling[c].slot = 0
  BY <1>4 DEF Caller
<1> QED
  BY <1>4, <1>7, <1>8, <1>9, <1>10, StayDue DEF ScheduleSteps, Ending

LEMMA CallResetDue == ASSUME OneCaller, Invs, NEW c \in Contexts, CallReset(c) PROVE DInv'
<1>1. c = "main" /\ handling[c].slot = 0
  BY DEF CallReset, OneCaller, Contexts
<1>2. /\ pc[c] = "idle" /\ pc'[c] = "r_slot" /\ UNCHANGED <<handling, event, ms, log>>
      /\ c = "main" => pc["isr"] = "idle"
  BY <1>1 DEF CallReset, Caller, Step, table, Invs, IInv, Typed
<1>3. Only(c)
  BY CallResetInv DEF Invs, Quiet
<1>4. Dating(c)'
  BY <1>2 DEF Dating, ScheduleSteps, Filling
<1> QED
  BY <1>1, <1>2, <1>3, <1>4, SamePromises, StayDue DEF Ending

LEMMA CallbackReturnDue == ASSUME Invs, NEW c \in Contexts, CallbackReturn(c) PROVE DInv'
<1>1. /\ pc[c] = "callback" /\ pc'[c] = "h_runs" /\ UNCHANGED <<handling, asking, event, ms, log>>
      /\ c = "main" => pc["isr"] = "idle"
  BY DEF CallbackReturn, Step, table, Invs, IInv, Typed
<1>2. Only(c)
  BY CallbackReturnInv DEF Invs, Quiet
<1>3. Dating(c)'
  BY <1>1 DEF Dating, ScheduleSteps, Filling
<1> QED
  BY <1>1, <1>2, <1>3, SamePromises, StayDue DEF Ending

-----------------------------------------------------------------------------
\* Steps of handleEvents that change no date

LEMMA ClockInRange ==
  ASSUME TInv, InRange
  PROVE  Clock = Time /\ Time \in Nat /\ Time < TimeMod
<1>1. Time \in Nat
  BY TimeTyped
<1>2. Time + 0 < TimeMod
  BY DEF InRange
<1>3. Time < TimeMod
  BY <1>1, <1>2
<1> QED
  BY <1>1, <1>3, Parameters DEF Clock

LEMMA HandleTestDue == ASSUME Invs, InRange, NEW c \in Contexts, HandleTest(c) PROVE DInv'
<1>1. /\ pc[c] = "h_test" /\ pc'[c] \in {"idle", "h_look"} /\ UNCHANGED <<asking, event, ms, log>>
      /\ c = "main" => pc["isr"] = "idle"
  BY DEF HandleTest, Step, table, Invs, IInv, Typed
<1>2. handling'[c].now \in {0, Clock}
  <2>1. CASE handling' = [handling EXCEPT ![c] = Outside]
    BY <2>1 DEF Outside, Invs, IInv, Typed
  <2>2. CASE handling' = [handling EXCEPT ![c].slot = 1, ![c].now = Clock]
    <3>1. \A h \in Pass : [[h EXCEPT !.slot = 1] EXCEPT !.now = Clock].now = Clock
      BY DEF Pass
    <3> QED
      BY <2>2, <3>1 DEF Invs, IInv, Typed
  <2> QED
    BY <2>1, <2>2 DEF HandleTest
<1>3. handling'[c].now <= Time
  BY <1>2, ClockInRange DEF Invs
<1>4. Only(c)
  BY HandleTestInv DEF Invs, Quiet
<1>5. SameBusy(c) /\ Proper(c) /\ Dating(c)'
  BY <1>1 DEF SameBusy, Busy, Proper, Dating, Ending, ScheduleSteps, Filling
<1> QED
  BY <1>1, <1>3, <1>4, <1>5, SamePromises, PlainDue

\* The next slot is looked at with the time of this pass.
LEMMA SamePass ==
  ASSUME IInv, NEW c \in Contexts, NEW from, Advance(c, from)
  PROVE  handling'[c].now \in {0, handling[c].now}
<1>1. CASE handling' = [handling EXCEPT ![c].slot = @ + 1, ![c].count = 0]
  <2>1. \A h \in Pass : [[h EXCEPT !.slot = h.slot + 1] EXCEPT !.count = 0].now = h.now
    BY DEF Pass
  <2>2. handling[c] \in Pass
    BY DEF IInv, Typed
  <2>3. handling'[c] = [[handling[c] EXCEPT !.slot = handling[c].slot + 1] EXCEPT !.count = 0]
    BY <1>1 DEF IInv, Typed
  <2> QED
    BY <2>1, <2>2, <2>3
<1>2. CASE handling' = [handling EXCEPT ![c] = Outside]
  BY <1>2 DEF Outside, IInv, Typed
<1> QED
  BY <1>1, <1>2 DEF Advance

LEMMA InPass ==
  ASSUME Invs, NEW c \in Contexts, handling'[c].now \in {0, handling[c].now}
  PROVE  handling'[c].now <= Time
BY TimeTyped DEF Invs, DInv

LEMMA HandleSkipDue == ASSUME Invs, NEW c \in Contexts, HandleSkip(c) PROVE DInv'
<1>1. /\ pc[c] = "h_look" /\ pc'[c] \in {"idle", "h_look"} /\ UNCHANGED <<asking, event, ms, log>>
      /\ c = "main" => pc["isr"] = "idle"
  BY DEF HandleSkip, Advance, Step, table, Invs, IInv, Typed
<1>2. handling'[c].now <= Time
  BY SamePass, InPass DEF HandleSkip, Invs
<1>3. Only(c)
  BY HandleSkipInv DEF Invs, Quiet
<1>4. SameBusy(c) /\ Proper(c) /\ Dating(c)'
  BY <1>1 DEF SameBusy, Busy, Proper, Dating, Ending, ScheduleSteps, Filling
<1> QED
  BY <1>1, <1>2, <1>3, <1>4, SamePromises, PlainDue

LEMMA HandleLoadDue == ASSUME Invs, NEW c \in Contexts, HandleLoad(c) PROVE DInv'
<1>1. /\ pc[c] = "h_load" /\ pc'[c] = "h_store" /\ UNCHANGED <<asking, event, ms, log>>
      /\ handling' = [handling EXCEPT ![c].count = num[Prio(c)]]
      /\ c = "main" => pc["isr"] = "idle"
  BY DEF HandleLoad, Step, table, Invs, IInv, Typed
<1>2. handling'[c].now = handling[c].now /\ handling'[c].slot = handling[c].slot
  BY <1>1 DEF Invs, IInv, Typed, Pass
<1>3. handling'[c].now <= Time
  BY <1>2 DEF Invs, DInv
<1>4. Only(c)
  BY HandleLoadInv DEF Invs, Quiet
<1>5. SameBusy(c) /\ Proper(c) /\ Dating(c)'
  BY <1>1, <1>2 DEF SameBusy, Busy, Proper, Dating, Ending, ScheduleSteps, Filling
<1> QED
  BY <1>1, <1>3, <1>4, <1>5, SamePromises, PlainDue

LEMMA HandleStoreDue == ASSUME Invs, NEW c \in Contexts, HandleStore(c) PROVE DInv'
<1>1. /\ pc[c] = "h_store" /\ pc'[c] = "h_next"
      /\ UNCHANGED <<handling, asking, event, ms, log>>
      /\ c = "main" => pc["isr"] = "idle"
      /\ Only(c)
  BY DEF HandleStore, Step, table, Invs, IInv, Typed, Only
<1>2. handling'[c].now <= Time
  BY <1>1 DEF Invs, DInv
<1>3. SameBusy(c) /\ Proper(c) /\ Dating(c)'
  BY <1>1 DEF SameBusy, Busy, Proper, Dating, Ending, ScheduleSteps, Filling
<1> QED
  BY <1>1, <1>2, <1>3, SamePromises, PlainDue

-----------------------------------------------------------------------------
\* The main loop and the timer interrupts

LEMMA TimeGrows ==
  ASSUME TInv, ms' = ms \/ ms' = ms + 1
  PROVE  Time <= Time'
<1>1. ms \in Nat /\ UsPerMs \in Nat
  BY Parameters DEF TInv
<1>2. ms * UsPerMs \in Nat /\ (ms + 1) * UsPerMs = ms * UsPerMs + UsPerMs
  BY <1>1
<1>3. CASE ms' = ms
  BY <1>1, <1>2, <1>3 DEF Time
<1>4. CASE ms' = ms + 1
  BY <1>1, <1>2, <1>4 DEF Time
<1> QED
  BY <1>3, <1>4

\* Time goes by, and a context at most begins to look at its events.
LEMMA TimeDue ==
  ASSUME Invs, ms' = ms \/ ms' = ms + 1, UNCHANGED <<asking, event, log>>,
         \A c \in Contexts :
           /\ handling'[c].now = handling[c].now /\ handling'[c].slot = handling[c].slot
           /\ pc'[c] # pc[c] => pc[c] = "idle" /\ pc'[c] = "h_test"
  PROVE  DInv'
<1>1. ASSUME NEW c \in Contexts PROVE handling'[c].now <= Time' /\ Dating(c)'
  <2>1. handling[c].now <= Time /\ Time <= Time' /\ Dating(c)
    BY TimeGrows DEF Invs, DInv
  <2>2. handling[c].now \in Int /\ Time \in Int /\ Time' \in Int
    <3>1. handling[c] \in Pass /\ ms \in Nat /\ ms' \in Nat
      BY DEF Invs, IInv, Typed
    <3> QED
      BY <3>1, Parameters DEF Pass, Time
  <2>3. handling'[c].now <= Time'
    BY <2>1, <2>2
  <2>4. Dating(c)'
    BY <2>1 DEF Dating, ScheduleSteps, Filling
  <2> QED
    BY <2>3, <2>4
<1>2. ASSUME NEW p \in Priorities, NEW i \in Slot PROVE Dated(p, i)'
  <2>1. /\ Begun(p, i)' = Begun(p, i) /\ Dated(p, i)
        /\ handling'[Handler(p)].now = handling[Handler(p)].now
    BY HandlerOf DEF Begun, Busy, ScheduleSteps, Ending, Invs, DInv
  <2>2. SamePromise(event[p][i].id)
    BY DEF SamePromise
  <2> QED
    BY <2>1, <2>2, DatedSame
<1>3. Clear'
  BY DEF Invs, DInv, Clear, Ending, Filling, Contexts
<1> QED
  BY <1>1, <1>2, <1>3 DEF DInv

LEMMA BeginDue ==
  ASSUME Invs, NEW c \in Contexts, NEW p, Step(c, "idle", "h_test"),
         handling' = [handling EXCEPT ![c].prio = p], ms' = ms \/ ms' = ms + 1,
         UNCHANGED <<asking, event, log>>
  PROVE  DInv'
<1>1. \A d \in Contexts :
        /\ handling'[d].now = handling[d].now /\ handling'[d].slot = handling[d].slot
        /\ pc'[d] # pc[d] => pc[d] = "idle" /\ pc'[d] = "h_test"
  BY DEF Step, Invs, IInv, Typed, Pass
<1> QED
  BY <1>1, TimeDue

LEMMA SameDue ==
  ASSUME Invs, UNCHANGED <<pc, handling, asking, event, log>>, ms' = ms \/ ms' = ms + 1
  PROVE  DInv'
BY TimeDue

LEMMA CallHandleDue == ASSUME Invs, CallHandle PROVE DInv'
<1>1. "main" \in Contexts
  BY DEF Contexts
<1> QED
  BY <1>1, BeginDue DEF CallHandle, table

LEMMA InterruptDue == ASSUME Invs, Interrupt PROVE DInv'
<1>1. "isr" \in Contexts
  BY DEF Contexts
<1>2. UNCHANGED <<asking, event, log>> /\ (ms' = ms \/ ms' = ms + 1)
  BY DEF Interrupt, TC0_Handler, TC2_Handler, table
<1>3. CASE StartInterrupt
  BY <1>1, <1>2, <1>3, BeginDue DEF StartInterrupt
<1>4. CASE UNCHANGED <<pc, handling>>
  BY <1>2, <1>4, SameDue
<1> QED
  BY <1>3, <1>4 DEF Interrupt, TC0_Handler, TC2_Handler

LEMMA ResetSlotDue == ASSUME Invs, NEW c \in Contexts, ResetSlot(c) PROVE DInv'
<1>1. \A d \in Contexts : /\ pc[d] \in {"idle", "r_slot", "r_count"}
                          /\ pc'[d] \in {"idle", "r_slot", "r_count"}
  BY Resetting DEF Invs, Contexts
<1>2. Only(c) /\ handling' = handling /\ Time' = Time
  BY Resetting DEF Invs, Time
<1>3. \A d \in Contexts : handling'[d].now <= Time'
  BY <1>2 DEF Invs, DInv
<1>4. \A d \in Contexts : Dating(d)'
  BY <1>1 DEF Dating, ScheduleSteps, Filling
<1>5. Clear'
  BY <1>1 DEF Clear, Ending, Contexts
<1>6. SameBusy(c)
  BY <1>1, <1>2 DEF SameBusy, Busy, ScheduleSteps, Ending
<1>7. ASSUME NEW p \in Priorities, NEW i \in Slot PROVE Dated(p, i)'
  <2>1. Dated(p, i) /\ (event[p][i].active => event[p][i].id \in Ids)
    BY LogFacts DEF Invs, DInv
  <2>2. event'[p][i].active => event'[p][i] = event[p][i]
    BY SlotCleared DEF Invs
  <2>3. event'[p][i].active => SamePromise(event[p][i].id)
    BY <2>1, <2>2, ResetLogs DEF Invs
  <2> QED
    BY <1>2, <1>6, <2>1, <2>2, <2>3, BegunKept, DatedSame
<1> QED
  BY <1>3, <1>4, <1>5, <1>7 DEF DInv

LEMMA ResetCountDue == ASSUME Invs, NEW c \in Contexts, ResetCount(c) PROVE DInv'
<1>1. UNCHANGED <<handling, event, ms, log>>
  BY DEF ResetCount
<1>2. /\ Only(c) /\ handling[c].slot = 0 /\ pc["isr"] = "idle"
      /\ pc'[c] \in {"idle", "r_slot", "r_count"}
  BY Resetting DEF Invs
<1>3. Dating(c)'
  BY <1>2 DEF Dating, ScheduleSteps, Filling
<1> QED
  BY <1>1, <1>2, <1>3, SamePromises, StayDue DEF Ending

-----------------------------------------------------------------------------
\* schedule fills a slot

\* A write to the slot that is being filled and stays inactive.
LEMMA FillingDue ==
  ASSUME OneCaller, Invs, NEW c \in Contexts, Only(c), c = "main" => pc["isr"] = "idle",
         {pc[c], pc'[c]} \subseteq Filling, UNCHANGED <<handling, asking, ms>>,
         NEW p \in Priorities, NEW i \in Slot, p = asking[c].prio, i = asking[c].slot,
         NEW e \in Event, ~e.active, Writes(p, i, e),
         \A n \in Ids : n # asking[c].id => log'[n] = log[n],
         Dating(c)'
  PROVE  DInv'
<1>1. /\ event'[p][i] = e
      /\ \A q \in Priorities, j \in Slot : q # p \/ j # i => event'[q][j] = event[q][j]
  BY EventWritten DEF Invs, IInv
<1>2. pc[c] \in ScheduleSteps \ {"s_enable"} /\ pc[c] \notin Ending /\ pc'[c] \notin Ending
      /\ pc'[c] \in ScheduleSteps
  BY DEF Filling, ScheduleSteps, Ending
<1>3. \A q \in Priorities, j \in Slot : event[q][j].active => event[q][j].id # asking[c].id
  BY <1>2 DEF Invs, KInv, Calling
<1>4. SameBusy(c) /\ Proper(c)
  BY <1>2 DEF SameBusy, Busy, Proper
<1>5. ASSUME NEW q \in Priorities, NEW j \in Slot PROVE Dated(q, j)'
  <2>1. CASE q = p /\ j = i
    BY <1>1, <2>1 DEF Dated
  <2>2. CASE q # p \/ j # i
    <3>1. event'[q][j] = event[q][j] /\ Dated(q, j)
      BY <1>1, <2>2 DEF Invs, DInv
    <3>2. event[q][j].active => SamePromise(event[q][j].id)
      BY <1>3, LogFacts DEF SamePromise, Invs
    <3> QED
      BY <1>4, <3>1, <3>2, BegunKept, DatedSame
  <2> QED
    BY <2>1, <2>2
<1>6. ASSUME NEW d \in Contexts, d # c PROVE Dating(d)'
  <2>1. pc[d] \in ScheduleSteps =>
          asking[d].id \in Ids /\ asking[d].id # asking[c].id /\ asking[d].prio # p
    BY <1>2, <1>6, OtherCall, NotBoth DEF Invs, KInv, Calling
  <2>2. asking[d].prio \in Priorities /\ (pc[d] \in Filling => asking[d].slot \in Slot)
    BY DEF Invs, IInv, Typed, Call, Asking, Filling
  <2>3. pc[d] \in Filling => pc[d] \in ScheduleSteps
    BY DEF Filling, ScheduleSteps
  <2>4. pc[d] \in Filling =>
          event'[asking[d].prio][asking[d].slot] = event[asking[d].prio][asking[d].slot]
    BY <1>1, <2>1, <2>2, <2>3
  <2> QED
    BY <1>6, <2>1, <2>4, OtherDating DEF Invs
<1>7. \A d \in Contexts : handling'[d].now <= Time'
  BY DEF Invs, DInv, Time
<1>8. Clear'
  BY <1>4, ClearKept DEF Invs
<1> QED
  BY <1>5, <1>6, <1>7, <1>8 DEF DInv

LEMMA FillDue == ASSUME OneCaller, Invs, NEW c \in Contexts, ScheduleFill(c) PROVE DInv'
<1> DEFINE a == asking[c]
           e == [event[a.prio][a.slot] EXCEPT !.id = a.id, !.interval = a.interval, !.runs = a.runs]
<1>1. /\ pc[c] = "s_fill" /\ pc'[c] = "s_due" /\ UNCHANGED <<handling, asking, ms, log>>
      /\ event' = [event EXCEPT ![a.prio][a.slot] = e]
      /\ c = "main" => pc["isr"] = "idle"
  BY DEF ScheduleFill, Step, table, Invs, IInv, Typed
<1>2. /\ a.prio \in Priorities /\ a.slot \in Slot /\ ~event[a.prio][a.slot].active
      /\ a.id \in Nat /\ a.interval \in Nat /\ a.runs \in Nat
  BY <1>1 DEF Invs, KInv, Calling, Filling, IInv, Typed, Call, Asking
<1>3. event[a.prio][a.slot] \in Event
  BY <1>2, EventType DEF Invs, IInv
<1>4. e \in Event /\ e.interval = a.interval /\ ~e.active
  BY <1>2, <1>3 DEF Event
<1> HIDE DEF e
<1>5. event'[a.prio][a.slot] = e
  BY <1>1, <1>2 DEF Invs, IInv, Typed
<1>6. Dating(c)'
  <2>1. a.interval \in Intervals /\ log[a.id].interval = a.interval
    BY <1>1 DEF Invs, DInv, Dating, ScheduleSteps
  <2> QED
    BY <1>1, <1>4, <1>5, <2>1 DEF Dating, Filling
<1>7. Only(c)
  BY ScheduleFillInv DEF Invs, Quiet
<1>8. Writes(a.prio, a.slot, e)
  BY <1>1 DEF Writes
<1>9. {pc[c], pc'[c]} \subseteq Filling
  BY <1>1 DEF Filling
<1> QED
  BY <1>1, <1>2, <1>4, <1>6, <1>7, <1>8, <1>9, FillingDue

LEMMA DueDue == ASSUME OneCaller, Invs, InRange, NEW c \in Contexts, ScheduleDue(c) PROVE DInv'
<1> DEFINE a == asking[c]
           at == (Clock + a.interval) % TimeMod
           e == [event[a.prio][a.slot] EXCEPT !.at = at]
<1>1. /\ pc[c] = "s_due" /\ pc'[c] = "s_load" /\ UNCHANGED <<handling, asking, ms>>
      /\ log' = [log EXCEPT ![a.id].start = Time]
      /\ event' = [event EXCEPT ![a.prio][a.slot] = e]
      /\ c = "main" => pc["isr"] = "idle"
  BY DEF ScheduleDue, Step, table, Invs, IInv, Typed
<1>2. /\ a.prio \in Priorities /\ a.slot \in Slot /\ ~event[a.prio][a.slot].active
      /\ a.id \in Ids
  BY <1>1 DEF Invs, KInv, Calling, Filling, ScheduleSteps, IInv, Typed, Call, Asking
<1>3. event[a.prio][a.slot] \in Event
  BY <1>2, EventType DEF Invs, IInv
<1>4. /\ a.interval \in Intervals /\ log[a.id].interval = a.interval
      /\ event[a.prio][a.slot].interval = a.interval
  BY <1>1 DEF Invs, DInv, Dating, ScheduleSteps, Filling
<1>5. at = Time + a.interval /\ at \in Int
  <2>1. Clock = Time /\ Time \in Nat /\ Time + a.interval < TimeMod
    BY <1>4, ClockInRange DEF InRange, Invs
  <2>2. a.interval \in Nat
    BY <1>4, Parameters
  <2>3. at = Time + a.interval
    <3> DEFINE n == a.interval
    <3>1. at = (Time + n) % TimeMod
      BY <2>1
    <3>2. n \in Nat /\ Time \in Nat /\ Time <= Time /\ Time + n < TimeMod
      BY <2>1, <2>2
    <3> HIDE DEF at, n
    <3>3. at = Time + n
      BY <3>1, <3>2, NoWrap
    <3> QED
      BY <3>3 DEF n
  <2> QED
    BY <2>1, <2>2, <2>3
<1> HIDE DEF at
<1>6. e \in Event /\ e.interval = a.interval /\ ~e.active /\ e.at = at
  BY <1>2, <1>3, <1>4, <1>5 DEF Event
<1> HIDE DEF e
<1>7. event'[a.prio][a.slot] = e
  BY <1>1, <1>2 DEF Invs, IInv, Typed
<1>8. log'[a.id].start = Time /\ log'[a.id].interval = a.interval
  <2>1. \A l \in Entry : /\ [l EXCEPT !.start = Time].start = Time
                         /\ [l EXCEPT !.start = Time].interval = l.interval
    BY DEF Entry
  <2> QED
    BY <1>1, <1>2, <1>4, <2>1 DEF Invs, KInv
<1>9. Dating(c)'
  BY <1>1, <1>4, <1>5, <1>6, <1>7, <1>8 DEF Dating, Filling
<1>10. Only(c)
  BY ScheduleDueInv DEF Invs, Quiet
<1>11. Writes(a.prio, a.slot, e)
  BY <1>1 DEF Writes
<1>12. {pc[c], pc'[c]} \subseteq Filling
  BY <1>1 DEF Filling
<1>13. \A n \in Ids : n # a.id => log'[n] = log[n]
  BY <1>1 DEF Invs, KInv
<1> QED
  BY <1>1, <1>2, <1>6, <1>9, <1>10, <1>11, <1>12, <1>13, FillingDue

\* The slot that is filled is not one that is being run.
LEMMA NotBegun ==
  ASSUME OneCaller, Invs, NEW c \in Contexts, pc[c] = "s_active", c = "main" => pc["isr"] = "idle",
         NEW p \in Priorities, NEW i \in Slot, p = asking[c].prio, ~event[p][i].active
  PROVE  ~Begun(p, i)
<1>1. Handler(p) \in Contexts /\ Level(Handler(p)) = p /\ i # 0
  BY HandlerOf, SlotsPositive DEF Slot
<1>2. CASE Handler(p) = c
  <2>1. Handling(c)
    BY DEF Invs, IInv
  <2> QED
    BY <1>1, <1>2, <2>1 DEF Begun, Busy, Handling, ScheduleSteps
<1>3. CASE c = "main" /\ Handler(p) = "isr"
  BY <1>3 DEF Begun, Busy, ScheduleSteps, Ending
<1>4. ~(c = "isr" /\ Handler(p) = "main")
  BY DEF Invs, IInv, Asking, ScheduleSteps, OneCaller, Handler
<1> QED
  BY <1>1, <1>2, <1>3, <1>4 DEF Contexts

LEMMA ActivateDue == ASSUME OneCaller, Invs, NEW c \in Contexts, ScheduleActivate(c) PROVE DInv'
<1>1. PICK p \in Priorities, i \in Slot, n \in Ids :
        /\ p = asking[c].prio /\ i = asking[c].slot /\ n = asking[c].id
        /\ pc[c] = "s_active" /\ Typed
  BY DEF ScheduleActivate, Step, Invs, IInv, Typed, Call, Asking, KInv, Calling, ScheduleSteps
<1> DEFINE e == [event[p][i] EXCEPT !.active = TRUE]
<1>2. /\ ~event[p][i].active /\ event[p][i].id = n /\ log[n].ran = 0
      /\ asking[c].interval \in Intervals /\ log[n].interval = asking[c].interval
      /\ event[p][i].interval = asking[c].interval
      /\ event[p][i].at = log[n].start + asking[c].interval
  BY <1>1 DEF Invs, DInv, KInv, Calling, Dating, ScheduleSteps, Filling
<1>3. /\ pc'[c] = "s_enable" /\ UNCHANGED <<handling, asking, ms, log>> /\ Only(c)
      /\ event' = [event EXCEPT ![p][i] = e]
      /\ c = "main" => pc["isr"] = "idle"
  BY <1>1 DEF ScheduleActivate, Step, table, Typed, Only
<1>4. /\ e.active /\ e.id = n /\ e.interval = asking[c].interval
      /\ e.at = log[n].start + asking[c].interval
  BY <1>1, <1>2, EventType DEF Event
<1> HIDE DEF e
<1>5. /\ event'[p][i] = e
      /\ \A q \in Priorities, j \in Slot : q # p \/ j # i => event'[q][j] = event[q][j]
  BY <1>1, <1>3 DEF Typed
<1>6. SameBusy(c) /\ Proper(c)
  BY <1>1, <1>3 DEF SameBusy, Busy, Proper, ScheduleSteps, Ending
<1>7. Dated(p, i)'
  <2>1. ~Begun(p, i)'
    BY <1>1, <1>2, <1>3, <1>6, NotBegun, BegunKept
  <2>2. Made(n)' = log[n].start
    <3>1. log[n].start \in Int /\ log[n].interval \in Int
      BY LogFacts DEF Invs, Entry
    <3> QED
      BY <1>2, <1>3, <3>1 DEF Made
  <2>3. log[n].start \in Int /\ asking[c].interval \in Int
    BY <1>2, LogFacts, Parameters DEF Invs, Entry
  <2>4. Made(n)' + e.interval <= e.at
    BY <1>4, <2>2, <2>3
  <2> QED
    BY <1>2, <1>3, <1>4, <1>5, <2>1, <2>4 DEF Dated
<1>8. ASSUME NEW q \in Priorities, NEW j \in Slot PROVE Dated(q, j)'
  <2>1. CASE q # p \/ j # i
    <3>1. event'[q][j] = event[q][j] /\ Dated(q, j) /\ SamePromise(event[q][j].id)
      BY <1>3, <1>5, <2>1 DEF Invs, DInv, SamePromise
    <3> QED
      BY <1>3, <1>6, <3>1, BegunKept, DatedSame
  <2> QED
    BY <1>7, <2>1
<1>9. ASSUME NEW d \in Contexts PROVE Dating(d)'
  <2>1. CASE d = c
    BY <1>1, <1>2, <1>3, <2>1 DEF Dating, ScheduleSteps, Filling
  <2>2. CASE d # c
    <3>1. pc[d] \in Filling =>
            /\ asking[d].prio # p /\ asking[d].prio \in Priorities /\ asking[d].slot \in Slot
      BY <1>1, <2>2, NotBoth DEF Invs, IInv, Typed, Call, Asking, Filling, ScheduleSteps
    <3>2. pc[d] \in Filling =>
            event'[asking[d].prio][asking[d].slot] = event[asking[d].prio][asking[d].slot]
      BY <1>5, <3>1
    <3> QED
      BY <1>3, <2>2, <3>2, OtherDating DEF Invs
  <2> QED
    BY <2>1, <2>2
<1>10. \A d \in Contexts : handling'[d].now <= Time'
  BY <1>3 DEF Invs, DInv, Time
<1>11. Clear'
  BY <1>3, <1>6, ClearKept DEF Invs
<1> QED
  BY <1>8, <1>9, <1>10, <1>11 DEF DInv

-----------------------------------------------------------------------------
\* The run of an event and its new date

\* c runs event n, in slot i of the table of p, and its date is past.
RunOf(c, p, i, n) ==
  /\ p = Prio(c) /\ p = Level(c) /\ i = handling[c].slot /\ n = event[p][i].id
  /\ c = Handler(p) /\ event[p][i].active /\ n \in Asked /\ log[n].prio = p
  /\ \A id \in Ids \ {n} : log'[id] = log[id]
  /\ log'[n].ran = log[n].ran + 1 /\ log'[n].start = log[n].start
  /\ log'[n].interval = log[n].interval
  /\ Made(n)' <= event[p][i].at /\ event[p][i].at <= handling[c].now

LEMMA RunFacts ==
  ASSUME Invs, NEW c \in Contexts, HandleRun(c)
  PROVE  \E p \in Priorities, i \in Slot, n \in Ids : RunOf(c, p, i, n)
<1>1. PICK p \in Priorities, i \in Slot, n \in Ids :
        /\ p = Prio(c) /\ p = Level(c) /\ i = handling[c].slot /\ n = event[p][i].id
        /\ c = Handler(p) /\ event[p][i].active /\ n \in Asked
        /\ event[p][i].at <= handling[c].now
  <2>1. pc[c] = "h_look" /\ This(c).active /\ This(c).at <= handling[c].now
    BY DEF HandleRun, Elapsed
  <2>2. This(c) = event[Prio(c)][handling[c].slot]
    BY DEF This
  <2> QED
    BY <2>1, <2>2, AtWork, LogFacts DEF Invs
<1>2. /\ pc[c] = "h_look" /\ log' = [log EXCEPT ![n].ran = log[n].ran + 1, ![n].last = ms]
      /\ ms \in Nat
  BY <1>1 DEF HandleRun, Step, Invs, IInv, Typed, This
<1>3. /\ \A id \in Ids \ {n} : log'[id] = log[id]
      /\ log'[n].start = log[n].start /\ log'[n].interval = log[n].interval
      /\ log'[n].ran = log[n].ran + 1
  <2> DEFINE r == log[n].ran + 1
             k == [[log[n] EXCEPT !.ran = r] EXCEPT !.last = ms]
  <2>1. r \in Nat /\ log[n] \in Entry
    BY LogFacts DEF Entry, Invs
  <2> HIDE DEF r
  <2>2. k.start = log[n].start /\ k.interval = log[n].interval /\ k.ran = r
    BY <1>2, <2>1 DEF Entry
  <2>3. log' = [log EXCEPT ![n] = k] /\ n \in DOMAIN log /\ DOMAIN log = Ids
    BY <1>2 DEF Invs, KInv, r
  <2> HIDE DEF k
  <2>4. log'[n] = k /\ \A id \in Ids \ {n} : log'[id] = log[id]
    BY ONLY <2>3
  <2> QED
    BY ONLY <2>2, <2>4 DEF r
<1>4. Entered(p, i) /\ Dated(p, i) /\ ~Begun(p, i)
  BY <1>1, <1>2 DEF Invs, KInv, DInv, Begun, Busy, ScheduleSteps, Ending
<1>5. log[n].prio = p
  BY <1>1, <1>4 DEF Entered
<1>6. Made(n) + log[n].interval <= event[p][i].at
  BY <1>1, <1>4 DEF Dated
<1>7. Made(n)' = Made(n) + log[n].interval
  <2>1. log[n].start \in Int /\ log[n].ran \in Nat /\ log[n].interval \in Nat
    BY LogFacts DEF Invs, Entry
  <2>2. \A s \in Int, r \in Nat, v \in Nat : s + (r + 1) * v = (s + r * v) + v
    OBVIOUS
  <2>3. Made(n) = log[n].start + log[n].ran * log[n].interval
    BY DEF Made
  <2>4. Made(n)' = log[n].start + (log[n].ran + 1) * log[n].interval
    BY <1>3 DEF Made
  <2> QED
    BY <2>1, <2>2, <2>3, <2>4
<1>8. Made(n)' <= event[p][i].at
  BY <1>6, <1>7
<1>9. RunOf(c, p, i, n)
  BY <1>1, <1>3, <1>5, <1>8 DEF RunOf
<1> QED
  BY <1>9

LEMMA RunDue == ASSUME Invs, NEW c \in Contexts, HandleRun(c) PROVE DInv'
<1>0. PICK p \in Priorities, i \in Slot, n \in Ids : RunOf(c, p, i, n)
  BY RunFacts
<1>1. /\ p = Prio(c) /\ p = Level(c) /\ i = handling[c].slot /\ n = event[p][i].id
      /\ c = Handler(p) /\ event[p][i].active /\ log[n].prio = p
      /\ \A id \in Ids \ {n} : log'[id] = log[id]
      /\ log'[n].start = log[n].start /\ log'[n].interval = log[n].interval
      /\ Made(n)' <= event[p][i].at /\ event[p][i].at <= handling[c].now
  BY <1>0 DEF RunOf
<1>2. /\ pc[c] = "h_look" /\ pc'[c] = "callback" /\ UNCHANGED <<handling, asking, event, ms>>
      /\ c = "main" => pc["isr"] = "idle"
  BY DEF HandleRun, Step, table, Invs, IInv, Typed
<1>3. Only(c)
  BY HandleRunInv DEF Invs, Quiet
<1>4. Begun(p, i)'
  BY <1>1, <1>2 DEF Begun, Busy
<1>5. ASSUME NEW q \in Priorities, NEW j \in Slot PROVE Dated(q, j)'
  <2>1. CASE q = p /\ j = i
    <3>1. event[p][i].interval \in Intervals /\ log[n].interval = event[p][i].interval
      BY <1>1 DEF Invs, DInv, Dated
    <3>2. Dated(p, i)'
      BY <1>1, <1>2, <1>4, <3>1 DEF Dated
    <3> QED
      BY <2>1, <3>2
  <2>2. CASE q # p \/ j # i
    <3>1. Dated(q, j) /\ (event[q][j].active => event[q][j].id # n /\ event[q][j].id \in Ids)
      <4>1. Entered(q, j) /\ Single(p) /\ Dated(q, j)
        BY DEF Invs, KInv, DInv
      <4>2. event[q][j].active => event[q][j].id \in Ids
        BY LogFacts DEF Invs
      <4>3. CASE q = p
        BY <1>1, <2>2, <4>1, <4>2, <4>3 DEF Single
      <4>4. CASE q # p
        BY <1>1, <4>1, <4>2, <4>4 DEF Entered
      <4> QED
        BY <4>3, <4>4
    <3>2. event[q][j].active => SamePromise(event[q][j].id)
      BY <1>1, <3>1 DEF SamePromise
    <3>3. Begun(q, j)' = Begun(q, j)
      <4>1. CASE q = p
        BY <1>1, <1>2, <2>2, <4>1 DEF Begun, Busy
      <4>2. CASE q # p
        <5>1. Handler(q) # c /\ Handler(q) \in Contexts
          BY <1>1, <4>2, HandlerOf
        <5> QED
          BY <1>3, <5>1 DEF Begun, Busy, Only
      <4> QED
        BY <4>1, <4>2
    <3> QED
      BY <1>2, <3>1, <3>2, <3>3, DatedSame
  <2> QED
    BY <2>1, <2>2
<1>6. ASSUME NEW d \in Contexts PROVE Dating(d)'
  <2>1. CASE d = c
    BY <1>2, <2>1 DEF Dating, ScheduleSteps, Filling
  <2>2. CASE d # c
    <3>1. pc[d] \in ScheduleSteps => asking[d].id \in Ids
      BY DEF Invs, KInv, Calling
    <3>2. \A k \in Ids : log'[k].interval = log[k].interval /\ log'[k].start = log[k].start
      BY <1>1
    <3> QED
      BY <1>2, <1>3, <2>2, <3>1, <3>2, OtherDating DEF Invs
  <2> QED
    BY <2>1, <2>2
<1>7. \A d \in Contexts : handling'[d].now <= Time'
  BY <1>2 DEF Invs, DInv, Time
<1>8. Clear'
  BY <1>2, <1>3, ClearKept DEF Invs, Proper, Ending
<1> QED
  BY <1>5, <1>6, <1>7, <1>8 DEF DInv

\* Of the slot that was run only the flag and the runs that are left change.
LEMMA RunsWrite ==
  ASSUME Invs, NEW c \in Contexts, HandleRuns(c)
  PROVE  \A q \in Priorities, j \in Slot :
           /\ event'[q][j].id = event[q][j].id /\ event'[q][j].interval = event[q][j].interval
           /\ event'[q][j].at = event[q][j].at
           /\ event'[q][j].active => event[q][j].active
<1>1. PICK p \in Priorities, i \in Slot :
        /\ p = Prio(c) /\ i = handling[c].slot /\ event[p][i].active
  BY AtWork DEF HandleRuns, Step, Invs
<1>2. PICK e \in Event : e = event[p][i]
  BY EventType DEF Invs, IInv
<1> DEFINE active == This(c).active /\ e.runs # 1
           left == IF e.runs > 1 THEN e.runs - 1 ELSE e.runs
           f == [e EXCEPT !.active = active]
           g == [f EXCEPT !.runs = left]
<1>3. f.id = e.id /\ f.interval = e.interval /\ f.at = e.at /\ f \in Event
  BY DEF Event
<1>4. event' = [event EXCEPT ![p][i] = g]
  BY <1>1, <1>2 DEF HandleRuns, This
<1> HIDE DEF f, left
<1>5. g.id = f.id /\ g.interval = f.interval /\ g.at = f.at
  BY <1>3 DEF Event
<1> HIDE DEF g
<1>6. event'[p][i] = g /\ \A q \in Priorities, j \in Slot : q # p \/ j # i => event'[q][j] = event[q][j]
  BY <1>4 DEF Invs, IInv, Typed
<1> QED
  BY <1>1, <1>2, <1>3, <1>5, <1>6

LEMMA RunsDue == ASSUME Invs, NEW c \in Contexts, HandleRuns(c) PROVE DInv'
<1>1. PICK p \in Priorities, i \in Slot :
        /\ p = Prio(c) /\ p = Level(c) /\ i = handling[c].slot /\ event[p][i].active
  BY AtWork DEF HandleRuns, Step, Invs
<1>3. /\ pc[c] = "h_runs" /\ pc'[c] \in {"h_load", "h_next"} /\ UNCHANGED <<handling, asking, ms, log>>
      /\ c = "main" => pc["isr"] = "idle"
      /\ Only(c)
  BY DEF HandleRuns, Step, Invs, IInv, Typed, Only
<1>4. \A q \in Priorities, j \in Slot :
        /\ event'[q][j].id = event[q][j].id /\ event'[q][j].interval = event[q][j].interval
        /\ event'[q][j].at = event[q][j].at
        /\ event'[q][j].active => event[q][j].active
  BY RunsWrite
<1>5. SameBusy(c)
  BY <1>3 DEF SameBusy, Busy, Ending
<1>6. ASSUME NEW q \in Priorities, NEW j \in Slot PROVE Dated(q, j)'
  <2>1. Dated(q, j) /\ SamePromise(event[q][j].id)
    BY <1>3 DEF Invs, DInv, SamePromise
  <2> QED
    BY <1>3, <1>4, <1>5, <2>1, BegunKept, DatedSame
<1>7. ASSUME NEW d \in Contexts PROVE Dating(d)'
  <2>1. CASE d = c
    BY <1>3, <2>1 DEF Dating, ScheduleSteps, Filling
  <2>2. CASE d # c
    <3>1. pc[d] \in Filling => asking[d].prio \in Priorities /\ asking[d].slot \in Slot
      BY DEF Invs, IInv, Typed, Call, Asking, Filling
    <3> QED
      BY <1>3, <1>4, <2>2, <3>1, OtherDating DEF Invs
  <2> QED
    BY <2>1, <2>2
<1>8. \A d \in Contexts : handling'[d].now <= Time'
  BY <1>3 DEF Invs, DInv, Time
<1>9. Clear'
  <2>1. CASE c = "main"
    BY <1>3, <2>1 DEF Clear, Ending, Only, Contexts
  <2>2. CASE c = "isr"
    <3>1. p = HIGH /\ "main" \in Contexts
      BY <1>1, <2>2 DEF Level, Contexts
    <3>2. pc["main"] \in Filling => ~event[asking["main"].prio][asking["main"].slot].active
      BY <3>1 DEF Invs, KInv, Calling
    <3> QED
      BY <1>1, <1>3, <2>2, <3>1, <3>2 DEF Clear, Only
  <2> QED
    BY <2>1, <2>2 DEF Contexts
<1> QED
  BY <1>6, <1>7, <1>8, <1>9 DEF DInv

\* The new date is a uint32_t.
LEMMA NewDate ==
  ASSUME Invs, InRange, NEW p \in Priorities, NEW i \in Slot, NEW e \in Event, e = event[p][i],
         e.active, Begun(p, i)
  PROVE  /\ (e.at + e.interval) % TimeMod = e.at + e.interval
         /\ e.at \in Nat /\ e.interval \in Nat \ {0}
<1>1. e.interval \in Intervals /\ e.at <= handling[Handler(p)].now
  BY DEF Invs, DInv, Dated
<1>2. /\ handling[Handler(p)].now <= Time /\ Time \in Nat /\ Time + e.interval < TimeMod
      /\ handling[Handler(p)] \in Pass
  BY <1>1, ClockInRange, HandlerOf DEF Invs, DInv, InRange, IInv, Typed
<1>3. /\ e.at \in Nat /\ e.interval \in Nat \ {0} /\ handling[Handler(p)].now \in Int
      /\ TimeMod \in Nat \ {0}
  <2>1. event[p][i] \in Cell
    BY CellFields DEF Invs
  <2>2. e.at \in 0 .. TimeMod - 1 /\ TimeMod \in Nat
    BY <2>1, Parameters DEF Cell
  <2>3. e.interval \in Nat \ {0} /\ TimeMod \in Nat \ {0}
    BY <1>1, Parameters
  <2>4. handling[Handler(p)].now \in Int
    BY <1>2 DEF Pass
  <2>5. e.at \in Nat
    BY <2>2
  <2> QED
    BY <2>3, <2>4, <2>5
<1>4. e.at <= Time
  BY ONLY <1>1, <1>2, <1>3
<1> QED
  BY <1>2, <1>3, <1>4, NoWrap

LEMMA NextDue == ASSUME OneCaller, Invs, InRange, NEW c \in Contexts, HandleNext(c) PROVE DInv'
<1>1. PICK p \in Priorities, i \in Slot :
        /\ p = Prio(c) /\ p = Level(c) /\ i = handling[c].slot /\ c = Handler(p)
        /\ pc[c] = "h_next"
  <2>1. pc[c] = "h_next"
    BY DEF HandleNext, Advance, Step
  <2>2. Prio(c) = Level(c) /\ Prio(c) \in Priorities /\ handling[c].slot \in Slot
    BY <2>1 DEF Invs, IInv, Typed, Pass, Handling, HandleSteps, Prio
  <2>3. c = Handler(Prio(c))
    BY <2>2 DEF Level, Handler, Contexts, HIGH, LOW
  <2> QED
    BY <2>1, <2>2, <2>3
<1>2. PICK e \in Event : e = event[p][i]
  BY EventType DEF Invs, IInv
<1>3. PICK at : at = (e.at + e.interval) % TimeMod
  OBVIOUS
<1>4. /\ pc'[c] \in {"idle", "h_look"} /\ UNCHANGED <<asking, ms, log>>
      /\ event' = [event EXCEPT ![p][i] = [e EXCEPT !.at = at]]
      /\ c = "main" => pc["isr"] = "idle"
  BY <1>1, <1>2, <1>3 DEF HandleNext, Advance, Step, This, Invs, IInv, Typed
<1>5. /\ event'[p][i].active = e.active /\ event'[p][i].id = e.id
      /\ event'[p][i].interval = e.interval /\ event'[p][i].at = at
      /\ \A q \in Priorities, j \in Slot : q # p \/ j # i => event'[q][j] = event[q][j]
  <2>1. /\ [e EXCEPT !.at = at].active = e.active /\ [e EXCEPT !.at = at].id = e.id
        /\ [e EXCEPT !.at = at].interval = e.interval /\ [e EXCEPT !.at = at].at = at
    BY DEF Event
  <2>2. /\ event'[p][i] = [e EXCEPT !.at = at]
        /\ \A q \in Priorities, j \in Slot : q # p \/ j # i => event'[q][j] = event[q][j]
    BY <1>4 DEF Invs, IInv, Typed
  <2> QED
    BY <2>1, <2>2
<1>6. Only(c)
  BY HandleNextInv DEF Invs, Quiet
<1>7. handling'[c].now <= Time
  BY SamePass, InPass DEF HandleNext, Invs
<1>8. Begun(p, i) /\ \A j \in Slot : ~Begun(p, j)'
  BY <1>1, <1>4 DEF Begun, Busy, ScheduleSteps, Ending
<1>9. Dated(p, i)'
  <2> SUFFICES ASSUME e.active PROVE Dated(p, i)'
    BY <1>5 DEF Dated
  <2>1. /\ e.interval \in Intervals /\ log[e.id].interval = e.interval /\ Made(e.id) <= e.at
    BY <1>2, <1>8 DEF Invs, DInv, Dated
  <2>2. at = e.at + e.interval /\ e.at \in Nat /\ e.interval \in Nat
    BY <1>2, <1>3, <1>8, NewDate
  <2>3. Made(e.id) \in Int
    <3>1. e.id \in Ids
      BY <1>2, LogFacts DEF Invs
    <3>2. log[e.id].start \in Int /\ log[e.id].ran \in Nat /\ log[e.id].interval \in Nat
      BY <3>1, LogFacts DEF Invs, Entry
    <3> QED
      BY <3>2 DEF Made
  <2>4. Made(e.id) + e.interval <= at
    BY <2>1, <2>2, <2>3
  <2>5. Made(e.id)' = Made(e.id) /\ log' = log
    BY <1>4 DEF Made
  <2> QED
    BY <1>5, <1>8, <2>1, <2>4, <2>5 DEF Dated
<1>10. ASSUME NEW q \in Priorities, NEW j \in Slot PROVE Dated(q, j)'
  <2>1. CASE q # p \/ j # i
    <3>1. event'[q][j] = event[q][j] /\ Dated(q, j) /\ SamePromise(event[q][j].id)
      BY <1>4, <1>5, <2>1 DEF Invs, DInv, SamePromise
    <3>2. /\ Begun(q, j)' = Begun(q, j)
          /\ Begun(q, j) => handling'[Handler(q)].now = handling[Handler(q)].now
      <4>1. CASE q = p
        BY <1>1, <1>8, <2>1, <4>1 DEF Begun, Busy
      <4>2. CASE q # p
        <5>1. Handler(q) # c /\ Handler(q) \in Contexts
          BY <1>1, <4>2, HandlerOf
        <5> QED
          BY <1>6, <5>1 DEF Begun, Busy, Only
      <4> QED
        BY <4>1, <4>2
    <3> QED
      BY <3>1, <3>2, DatedSame
  <2> QED
    BY <1>9, <2>1
<1>11. ASSUME NEW d \in Contexts PROVE Dating(d)'
  <2>1. CASE d = c
    BY <1>4, <2>1 DEF Dating, ScheduleSteps, Filling
  <2>2. CASE d # c
    <3>1. pc[d] \in Filling => /\ asking[d].prio \in Priorities /\ asking[d].slot \in Slot
                               /\ asking[d].prio # p \/ asking[d].slot # i
      <4>1. asking[d].prio \in Priorities /\ (pc[d] \in Filling => asking[d].slot \in Slot)
        BY DEF Invs, IInv, Typed, Call, Asking, Filling
      <4>2. CASE c = "main"
        <5>1. d = "isr" /\ pc[d] = "idle"
          BY <1>4, <2>2, <4>2 DEF Contexts
        <5> QED
          BY <5>1 DEF Filling
      <4>3. CASE c = "isr"
        <5>1. d = "main" /\ p = HIGH
          BY <1>1, <2>2, <4>3 DEF Contexts, Level
        <5>2. pc[d] \in Filling /\ asking[d].prio = HIGH => asking[d].slot # i
          BY <1>1, <4>3, <5>1 DEF Invs, DInv, Clear, Ending
        <5> QED
          BY <4>1, <5>1, <5>2
      <4> QED
        BY <4>2, <4>3 DEF Contexts
    <3>2. pc[d] \in Filling =>
            event'[asking[d].prio][asking[d].slot] = event[asking[d].prio][asking[d].slot]
      BY <1>5, <3>1
    <3> QED
      BY <1>4, <1>6, <2>2, <3>2, OtherDating DEF Invs
  <2> QED
    BY <2>1, <2>2
<1>12. ASSUME NEW d \in Contexts PROVE handling'[d].now <= Time'
  <2>1. Time' = Time /\ handling[d].now <= Time
    BY <1>4 DEF Time, Invs, DInv
  <2> QED
    BY <1>6, <1>7, <2>1 DEF Only
<1>13. Clear'
  BY <1>4, <1>6, ClearKept DEF Invs, Proper, Ending
<1> QED
  BY <1>10, <1>11, <1>12, <1>13 DEF DInv

LEMMA DInit == Init => DInv
<1> SUFFICES ASSUME Init PROVE DInv
  OBVIOUS
<1>1. \A c \in Contexts : pc[c] = "idle" /\ handling[c].now = 0
  BY DEF Init, Outside
<1>2. Time \in Nat
  BY TInit, TimeTyped
<1>3. \A c \in Contexts : Dating(c)
  BY <1>1 DEF Dating, ScheduleSteps, Filling
<1>4. \A p \in Priorities, i \in Slot : Dated(p, i)
  BY DEF Init, NoEvent, Dated
<1>5. Clear
  BY <1>1 DEF Clear, Ending, Contexts
<1> QED
  BY <1>1, <1>2, <1>3, <1>4, <1>5 DEF DInv

LEMMA CodeDue == ASSUME OneCaller, Invs, InRange, NEW c \in Contexts, Code(c) PROVE DInv'
BY RefuseDue, RoomDue, SlotDue, FillDue, DueDue, LoadDue, StoreDue, ActivateDue, EnableDue,
   ResetSlotDue, ResetCountDue,
   HandleTestDue, HandleSkipDue, RunDue, CallbackReturnDue, RunsDue, HandleLoadDue, HandleStoreDue,
   NextDue
DEF Code

LEMMA DNext == ASSUME OneCaller, Invs, InRange, [Next]_vars PROVE DInv'
<1>1. CASE \E c \in Contexts : CallSchedule(c) \/ CallReset(c) \/ Code(c)
  BY <1>1, CallScheduleDue, CallResetDue, CodeDue
<1>2. CASE Enable \/ Disable
  <2>1. UNCHANGED <<pc, handling, asking, event, log, ms>>
    BY <1>2 DEF Enable, Disable, Step, table, Invs, IInv, Typed
  <2> QED
    BY <2>1, SameDue
<1>3. CASE CallHandle
  BY <1>3, CallHandleDue
<1>4. CASE Interrupt
  BY <1>4, InterruptDue
<1>5. CASE UNCHANGED vars
  BY <1>5, SameDue DEF vars, table
<1> QED
  BY <1>1, <1>2, <1>3, <1>4, <1>5 DEF Next

-----------------------------------------------------------------------------
\* The theorem

\* Only handleEvents makes a run.
LEMMA RunsElsewhere ==
  ASSUME Invs, NEW c \in Contexts, CallSchedule(c) \/ CallReset(c) \/ Code(c), ~HandleRun(c),
         NEW id \in Ids
  PROVE  ~(log'[id].ran > log[id].ran)
<1>1. log \in [Ids -> Entry] /\ log[id] \in Entry /\ log[id].ran \in Nat
  BY LogFacts DEF Invs, KInv, Entry
<1>2. CASE log' = log
  BY <1>1, <1>2
<1>3. ASSUME NEW n, NEW state, log' = [log EXCEPT ![n].state = state]
      PROVE  log'[id].ran = log[id].ran
  BY <1>1, <1>3 DEF Entry
<1>4. CASE ScheduleRefuse(c) \/ ScheduleEnable(c)
  BY <1>1, <1>3, <1>4 DEF ScheduleRefuse, ScheduleEnable
<1>5. CASE ScheduleDue(c)
  BY <1>1, <1>5 DEF ScheduleDue, Entry
<1>6. CASE ResetSlot(c)
  BY <1>1, <1>6, ResetLogs DEF Invs, SameRuns
<1>7. CASE CallSchedule(c)
  <2>1. PICK p \in Priorities, n \in Intervals, r \in Runs, k \in Ids :
          CallSchedule(c)!(p, n, r, k)
    BY <1>7, Zenon DEF CallSchedule
  <2>2. [NoLog EXCEPT !.state = "asked", !.prio = p, !.interval = n, !.runs = r].ran = 0
    BY DEF NoLog
  <2>3. log'[id].ran \in {0, log[id].ran}
    BY <1>1, <2>1, <2>2
  <2> QED
    BY <1>1, <2>3
<1> QED
  BY <1>2, <1>4, <1>5, <1>6, <1>7
  DEF Code, CallReset, ResetCount, ScheduleRoom, ScheduleSlot, ScheduleFill, ScheduleLoad, ScheduleStore,
      ScheduleActivate, HandleTest, HandleSkip, CallbackReturn, HandleRuns, HandleLoad, HandleStore,
      HandleNext

LEMMA RunsLate ==
  ASSUME Invs, Next, NEW id \in Ids, log'[id].ran > log[id].ran
  PROVE  Time >= log[id].start + log'[id].ran * log[id].interval
<1>1. log[id] \in Entry /\ log[id].ran \in Nat
  BY LogFacts DEF Invs, Entry
<1>2. CASE Enable \/ Disable \/ CallHandle \/ Interrupt
  <2>1. log' = log
    BY <1>2 DEF Enable, Disable, CallHandle, Interrupt, TC0_Handler, TC2_Handler
  <2> QED
    BY <1>1, <2>1
<1>3. CASE \E c \in Contexts : CallSchedule(c) \/ CallReset(c) \/ Code(c)
  <2>1. PICK c \in Contexts : HandleRun(c)
    BY <1>3, RunsElsewhere
  <2>2. PICK p \in Priorities, i \in Slot, n \in Ids :
          /\ \A k \in Ids \ {n} : log'[k] = log[k]
          /\ log'[n].ran = log[n].ran + 1 /\ log'[n].start = log[n].start
          /\ log'[n].interval = log[n].interval
          /\ Made(n)' <= event[p][i].at /\ event[p][i].at <= handling[c].now
    BY <2>1, RunFacts DEF RunOf
  <2>3. id = n
    BY <1>1, <2>2
  <2>4. handling[c].now <= Time /\ Time \in Nat /\ handling[c].now \in Int /\ event[p][i].at \in Int
    <3>1. handling[c] \in Pass /\ event[p][i] \in Event
      BY EventType DEF Invs, IInv, Typed
    <3> QED
      BY <3>1, TimeTyped DEF Invs, DInv, Pass, Event
  <2>5. Made(n)' = log[n].start + log'[n].ran * log[n].interval
    BY <2>2 DEF Made
  <2>6. log[n].start + log'[n].ran * log[n].interval \in Int
    <3>1. log[n].start \in Int /\ log'[n].ran \in Int /\ log[n].interval \in Int
      BY <1>1, <2>2, <2>3 DEF Entry
    <3> QED
      BY <3>1
  <2> QED
    BY <2>2, <2>3, <2>4, <2>5, <2>6
<1> QED
  BY <1>2, <1>3 DEF Next

\* No event is run before its time: as long as elapsedAt, a uint32_t, does not
\* wrap, the k-th run begins no earlier than k intervals after schedule read
\* the clock, though the interrupt may come between any two writes of a call
\* of main to the slot it fills (schedule, handleEvents).
THEOREM NeverTooEarly == ASSUME OneCaller PROVE Spec /\ []InRange => NeverEarly
<1>1. Init => DInv
  BY DInit
<1>2. Invs /\ InRange /\ [Next]_vars => DInv'
  BY DNext
<1>3. Invs /\ [Next]_vars =>
        [\A id \in Ids : log'[id].ran > log[id].ran =>
           Time >= log[id].start + log'[id].ran * log[id].interval]_vars
  BY RunsLate
<1>4. Spec => []IInv
  BY Inductive
<1>5. Spec => []KInv
  BY KInductive
<1>6. Spec => []TInv
  BY TInit, NextTyped, PTL DEF Spec
<1> HIDE DEF OneCaller
<1> QED
  BY <1>1, <1>2, <1>3, <1>4, <1>5, <1>6, PTL DEF Spec, Invs, NeverEarly

-----------------------------------------------------------------------------
\* The timer interrupt forgets no event.  The inductive invariant, on top of
\* the others: the slots the interrupt has been through hold no event that is
\* due and was not run by this interrupt; what a callback of it adds is not due
\* yet.

Prompt(j) ==
  LET e == event[HIGH][j] IN e.active /\ e.at <= Time => log[e.id].last = ms

\* The interrupt has run the event of the slot, or has seen that it is not due.
Swept(j) == j < handling["isr"].slot \/ Busy("isr", j)

Pending ==
  LET a == asking["isr"] IN
  pc["isr"] \in Filling \ {"s_fill", "s_due"} => event[a.prio][a.slot].at > Time

PInv ==
  /\ pc["isr"] \in {"idle", "h_test"} => handling["isr"].slot = 0
  /\ Pending
  /\ handling["isr"].slot # 0 =>
       Time <= handling["isr"].now /\ \A j \in Slot : Swept(j) => Prompt(j)

LEMMA TimeStands == ms' = ms => Time' = Time
BY DEF Time

LEMMA Sides == "isr" \in Contexts /\ "main" \in Contexts /\ HIGH \in Priorities /\ Level("isr") = HIGH
BY DEF Contexts, Priorities, Level

\* Outside of the interrupt there is nothing to show.
LEMMA OutsidePrompt ==
  ASSUME PInv, pc["isr"] = "idle", pc'["isr"] \in {"idle", "h_test"},
         handling'["isr"].slot = handling["isr"].slot
  PROVE  PInv'
BY DEF PInv, Pending, Filling

LEMMA MainPrompt ==
  ASSUME PInv, Only("main"), pc["isr"] = "idle"
  PROVE  PInv'
<1>1. pc'["isr"] = "idle" /\ handling'["isr"] = handling["isr"]
  BY Sides DEF Only
<1> QED
  BY <1>1, OutsidePrompt

\* What is active was so before, with the same date and no later run.
Unmoved(j) ==
  event'[HIGH][j].active =>
    /\ event[HIGH][j].active /\ event'[HIGH][j].id = event[HIGH][j].id
    /\ event'[HIGH][j].at = event[HIGH][j].at
    /\ log'[event[HIGH][j].id].last = log[event[HIGH][j].id].last

\* Steps of the interrupt that stay at their event.
LEMMA StayPrompt ==
  ASSUME PInv, ms' = ms, handling'["isr"].slot = handling["isr"].slot,
         handling'["isr"].now = handling["isr"].now,
         pc'["isr"] \in {"idle", "h_test"} => handling["isr"].slot = 0,
         handling["isr"].slot # 0 => \A j \in Slot : Busy("isr", j)' => Busy("isr", j),
         \A j \in Slot : Unmoved(j), Pending'
  PROVE  PInv'
<1>1. ASSUME handling["isr"].slot # 0, NEW j \in Slot, Swept(j)' PROVE Prompt(j)'
  <2>1. Swept(j) /\ Prompt(j) /\ Unmoved(j)
    BY <1>1 DEF Swept, PInv
  <2> QED
    BY <2>1, TimeStands DEF Prompt, Unmoved
<1> QED
  BY <1>1, TimeStands DEF PInv

\* The steps of its calls of schedule.
LEMMA CallPrompt ==
  ASSUME PInv, ms' = ms, handling' = handling,
         \/ {pc["isr"], pc'["isr"]} \subseteq ScheduleSteps \cup {"callback", "h_runs"}
         \/ handling["isr"].slot = 0,
         \A j \in Slot : Unmoved(j), Pending'
  PROVE  PInv'
<1>1. pc'["isr"] \in {"idle", "h_test"} => handling["isr"].slot = 0
  BY DEF ScheduleSteps
<1>2. handling["isr"].slot # 0 => \A j \in Slot : Busy("isr", j)' => Busy("isr", j)
  BY DEF Busy
<1> QED
  BY <1>1, <1>2, StayPrompt

\* An entry of the log that gets another state keeps its runs.
LEMMA LastKept ==
  ASSUME KInv, event' = event,
         \A n \in Asked : log'[n].last = log[n].last
  PROVE  \A j \in Slot : Unmoved(j)
BY Sides, LogFacts DEF Unmoved

\* Those that leave the table alone.
LEMMA CallOnPrompt ==
  ASSUME Invs, PInv, UNCHANGED <<handling, event, ms>>,
         \A n \in Asked : log'[n].last = log[n].last,
         \/ {pc["isr"], pc'["isr"]} \subseteq ScheduleSteps \cup {"callback", "h_runs"}
         \/ handling["isr"].slot = 0,
         pc'["isr"] \in Filling \ {"s_fill", "s_due"} =>
           /\ pc["isr"] \in Filling \ {"s_fill", "s_due"}
           /\ asking'["isr"].prio = asking["isr"].prio /\ asking'["isr"].slot = asking["isr"].slot
  PROVE  PInv'
<1>1. Pending'
  BY TimeStands DEF PInv, Pending
<1>2. \A j \in Slot : Unmoved(j)
  BY LastKept DEF Invs
<1> QED
  BY <1>1, <1>2, CallPrompt

LEMMA RoomPrompt ==
  ASSUME Invs, PInv,
         ScheduleRoom("isr") \/ ScheduleSlot("isr") \/ ScheduleLoad("isr") \/ ScheduleStore("isr")
           \/ CallbackReturn("isr")
  PROVE  PInv'
<1> DEFINE c == "isr"
<1>1. UNCHANGED <<handling, event, ms, log>>
  BY DEF ScheduleRoom, ScheduleSlot, ScheduleLoad, ScheduleStore, CallbackReturn, table
<1>2. {pc[c], pc'[c]} \subseteq ScheduleSteps \cup {"callback", "h_runs"}
  <2>1. CASE ScheduleSlot(c)
    <3>1. pc[c] = "s_slot" /\ pc'[c] \in {"s_fill", "fault"} /\ Free(asking[c].prio) # {}
      BY <2>1, Sides, SlotFound DEF ScheduleSlot, Step, Invs, IInv, Typed
    <3>2. pc'[c] = "s_fill"
      BY <2>1, <3>1, Sides DEF ScheduleSlot, Step, Invs, IInv, Typed
    <3> QED
      BY <3>1, <3>2 DEF ScheduleSteps
  <2>2. CASE ~ScheduleSlot(c)
    BY <2>2, Sides DEF ScheduleRoom, ScheduleLoad, ScheduleStore, CallbackReturn, Step, Invs, IInv,
                       Typed, ScheduleSteps
  <2> QED
    BY <2>1, <2>2
<1>3. pc'[c] \in Filling \ {"s_fill", "s_due"} =>
        /\ pc[c] \in Filling \ {"s_fill", "s_due"}
        /\ asking'[c].prio = asking[c].prio /\ asking'[c].slot = asking[c].slot
  <2>1. CASE ScheduleLoad(c)
    <3>1. pc[c] = "s_load" /\ asking' = [asking EXCEPT ![c].count = num[asking[c].prio]]
      BY <2>1 DEF ScheduleLoad, Step
    <3> QED
      BY <3>1, Sides DEF Filling, Invs, IInv, Typed, Call
  <2>2. CASE ScheduleStore(c)
    BY <2>2 DEF ScheduleStore, Step, Filling
  <2>3. CASE ScheduleRoom(c) \/ ScheduleSlot(c) \/ CallbackReturn(c)
    BY <2>3, Sides DEF ScheduleRoom, ScheduleSlot, CallbackReturn, Step, Filling, Invs, IInv, Typed
  <2> QED
    BY <2>1, <2>2, <2>3
<1> QED
  BY <1>1, <1>2, <1>3, CallOnPrompt

LEMMA EndPrompt ==
  ASSUME Invs, PInv, ScheduleRefuse("isr") \/ ScheduleEnable("isr") PROVE PInv'
<1>1. /\ pc["isr"] \in ScheduleSteps /\ pc'["isr"] = Caller("isr")
      /\ UNCHANGED <<handling, event, ms>>
  BY Sides DEF ScheduleRefuse, ScheduleEnable, Step, table, ScheduleSteps, Invs, IInv, Typed
<1>2. \A n \in Asked : log'[n].last = log[n].last
  <2>1. Asked \subseteq Ids /\ \A n \in Ids : log[n] \in Entry
    BY LogFacts DEF Invs
  <2> QED
    BY <2>1 DEF Invs, KInv, Entry, ScheduleRefuse, ScheduleEnable
<1>3. pc'["isr"] \in {"idle", "callback"} /\ (pc'["isr"] = "callback" \/ handling["isr"].slot = 0)
  BY <1>1 DEF Caller
<1> QED
  BY <1>1, <1>2, <1>3, CallOnPrompt DEF Filling

LEMMA CallSchedulePrompt == ASSUME Invs, PInv, CallSchedule("isr") PROVE PInv'
<1>1. PICK p \in Priorities, n \in Intervals, r \in Runs, id \in Ids :
        CallSchedule("isr")!(p, n, r, id)
  BY Zenon DEF CallSchedule
<1> DEFINE l == [NoLog EXCEPT !.state = "asked", !.prio = p, !.interval = n, !.runs = r]
<1>2. /\ id = Cardinality(Asked) + 1 /\ pc["isr"] = Caller("isr") /\ pc'["isr"] = "s_room"
      /\ UNCHANGED <<handling, event, ms>> /\ log' = [log EXCEPT ![id] = l]
  BY <1>1, Sides DEF Step, table, Invs, IInv, Typed
<1>3. l.state = "asked"
  BY DEF NoLog
<1> HIDE DEF l
<1>4. log'[id] = l /\ \A k \in Ids \ {id} : log'[k] = log[k]
  BY <1>2 DEF Invs, KInv
<1>5. id \notin Asked /\ Asked \subseteq Ids
  BY <1>2, <1>3, <1>4, NextNumber, LogFacts DEF Invs
<1>6. pc["isr"] = "callback" \/ handling["isr"].slot = 0
  BY <1>2 DEF Caller
<1> QED
  BY <1>2, <1>4, <1>5, <1>6, CallOnPrompt DEF ScheduleSteps, Filling

\* The slot that a call of a callback fills is one that is not active.
LEMMA FillPrompt ==
  ASSUME Invs, PInv, ms' = ms, handling' = handling,
         {pc["isr"], pc'["isr"]} \subseteq Filling,
         NEW p \in Priorities, NEW i \in Slot, p = asking["isr"].prio, i = asking["isr"].slot,
         NEW e \in Event, ~e.active, Writes(p, i, e),
         \A n \in Ids : log'[n].last = log[n].last,
         Pending'
  PROVE  PInv'
<1>1. /\ event'[p][i] = e
      /\ \A q \in Priorities, j \in Slot : q # p \/ j # i => event'[q][j] = event[q][j]
  BY EventWritten DEF Invs, IInv
<1>2. ASSUME NEW j \in Slot PROVE Unmoved(j)
  <2>1. CASE HIGH = p /\ j = i
    BY <1>1, <2>1 DEF Unmoved
  <2>2. CASE HIGH # p \/ j # i
    <3>1. event'[HIGH][j] = event[HIGH][j] /\ (event[HIGH][j].active => event[HIGH][j].id \in Ids)
      BY <1>1, <2>2, Sides, LogFacts DEF Invs
    <3> QED
      BY <3>1 DEF Unmoved
  <2> QED
    BY <2>1, <2>2
<1>3. {pc["isr"], pc'["isr"]} \subseteq ScheduleSteps \cup {"callback", "h_runs"}
  BY DEF Filling, ScheduleSteps
<1> QED
  BY <1>2, <1>3, CallPrompt

LEMMA ScheduleFillPrompt == ASSUME Invs, PInv, ScheduleFill("isr") PROVE PInv'
<1> DEFINE a == asking["isr"]
           e == [event[a.prio][a.slot] EXCEPT !.id = a.id, !.interval = a.interval, !.runs = a.runs]
<1>1. /\ pc["isr"] = "s_fill" /\ pc'["isr"] = "s_due" /\ UNCHANGED <<handling, ms, log>>
      /\ event' = [event EXCEPT ![a.prio][a.slot] = e]
  BY Sides DEF ScheduleFill, Step, table, Invs, IInv, Typed
<1>2. /\ a.prio \in Priorities /\ a.slot \in Slot /\ ~event[a.prio][a.slot].active
      /\ a.id \in Nat /\ a.interval \in Nat /\ a.runs \in Nat
  BY <1>1, Sides DEF Invs, KInv, Calling, Filling, IInv, Typed, Call, Asking
<1>3. event[a.prio][a.slot] \in Event
  BY <1>2, EventType DEF Invs, IInv
<1>4. e \in Event /\ ~e.active
  BY <1>2, <1>3 DEF Event
<1> HIDE DEF e
<1>5. Writes(a.prio, a.slot, e) /\ Pending'
  BY <1>1 DEF Writes, Pending
<1> QED
  BY <1>1, <1>2, <1>4, <1>5, FillPrompt DEF Filling

LEMMA ScheduleDuePrompt == ASSUME Invs, InRange, PInv, ScheduleDue("isr") PROVE PInv'
<1> DEFINE a == asking["isr"]
           at == (Clock + a.interval) % TimeMod
           e == [event[a.prio][a.slot] EXCEPT !.at = at]
<1>1. /\ pc["isr"] = "s_due" /\ pc'["isr"] = "s_load" /\ UNCHANGED <<handling, asking, ms>>
      /\ log' = [log EXCEPT ![a.id].start = Time]
      /\ event' = [event EXCEPT ![a.prio][a.slot] = e]
  BY Sides DEF ScheduleDue, Step, table, Invs, IInv, Typed
<1>2. /\ a.prio \in Priorities /\ a.slot \in Slot /\ ~event[a.prio][a.slot].active
      /\ a.id \in Ids
  BY <1>1, Sides DEF Invs, KInv, Calling, Filling, ScheduleSteps, IInv, Typed, Call, Asking
<1>3. event[a.prio][a.slot] \in Event
  BY <1>2, EventType DEF Invs, IInv
<1>4. a.interval \in Intervals
  BY <1>1, Sides DEF Invs, DInv, Dating, ScheduleSteps
<1>5. at = Time + a.interval /\ at \in Int /\ at > Time
  <2>1. Clock = Time /\ Time \in Nat /\ Time + a.interval < TimeMod
    BY <1>4, ClockInRange DEF InRange, Invs
  <2>2. a.interval \in Nat \ {0}
    BY <1>4, Parameters
  <2>3. at = Time + a.interval
    <3> DEFINE n == a.interval
    <3>1. at = (Time + n) % TimeMod
      BY <2>1
    <3>2. n \in Nat /\ Time \in Nat /\ Time <= Time /\ Time + n < TimeMod
      BY <2>1, <2>2
    <3> HIDE DEF at, n
    <3>3. at = Time + n
      BY <3>1, <3>2, NoWrap
    <3> QED
      BY <3>3 DEF n
  <2> QED
    BY <2>1, <2>2, <2>3
<1> HIDE DEF at
<1>6. e \in Event /\ ~e.active /\ e.at = at
  BY <1>2, <1>3, <1>5 DEF Event
<1> HIDE DEF e
<1>7. event'[a.prio][a.slot] = e
  BY <1>1, <1>2 DEF Invs, IInv, Typed
<1>8. \A n \in Ids : log'[n].last = log[n].last
  <2>1. \A n \in Ids : log[n] \in Entry
    BY LogFacts DEF Invs
  <2> QED
    BY <1>1, <2>1 DEF Invs, KInv, Entry
<1>9. Writes(a.prio, a.slot, e) /\ Pending'
  BY <1>1, <1>5, <1>6, <1>7, TimeStands DEF Writes, Pending
<1> QED
  BY <1>1, <1>2, <1>6, <1>8, <1>9, FillPrompt DEF Filling

LEMMA ActivatePrompt == ASSUME Invs, PInv, ScheduleActivate("isr") PROVE PInv'
<1> DEFINE a == asking["isr"]
           e == [event[a.prio][a.slot] EXCEPT !.active = TRUE]
<1>1. /\ pc["isr"] = "s_active" /\ pc'["isr"] = "s_enable" /\ UNCHANGED <<handling, ms, log>>
      /\ event' = [event EXCEPT ![a.prio][a.slot] = e]
  BY Sides DEF ScheduleActivate, Step, table, Invs, IInv, Typed
<1>2. a.prio \in Priorities /\ a.slot \in Slot /\ event[a.prio][a.slot].at > Time
  BY <1>1, Sides DEF Invs, Filling, IInv, Typed, Call, Asking, PInv, Pending
<1>3. PICK at \in Int : at = event[a.prio][a.slot].at /\ e.at = at /\ at > Time
  <2>1. event[a.prio][a.slot] \in Event
    BY <1>2, EventType DEF Invs, IInv
  <2>2. e.at = event[a.prio][a.slot].at /\ event[a.prio][a.slot].at \in Int
    BY <2>1 DEF Event
  <2> QED
    BY <1>2, <2>2
<1> HIDE DEF e
<1>4. /\ event'[a.prio][a.slot] = e
      /\ \A q \in Priorities, j \in Slot : q # a.prio \/ j # a.slot => event'[q][j] = event[q][j]
  BY <1>1, <1>2 DEF Invs, IInv, Typed
<1>5. ASSUME NEW j \in Slot, Prompt(j) PROVE Prompt(j)'
  <2>1. CASE HIGH = a.prio /\ j = a.slot
    <3>1. Time \in Nat /\ Time' = Time
      BY <1>1, TimeTyped, TimeStands DEF Invs
    <3>2. ~(at <= Time)
      BY <1>3, <3>1
    <3>3. event'[HIGH][j].at = at
      BY <1>3, <1>4, <2>1
    <3> QED
      BY ONLY <3>1, <3>2, <3>3 DEF Prompt
  <2>2. CASE HIGH # a.prio \/ j # a.slot
    BY <1>1, <1>4, <1>5, <2>2, Sides, TimeStands DEF Prompt
  <2> QED
    BY <2>1, <2>2
<1>6. \A j \in Slot : Swept(j)' => Swept(j)
  BY <1>1 DEF Swept, Busy, ScheduleSteps
<1>7. Pending'
  BY <1>1 DEF Pending, Filling
<1> QED
  BY <1>1, <1>5, <1>6, <1>7, TimeStands DEF PInv

-----------------------------------------------------------------------------
\* The pass of the interrupt

LEMMA TestPrompt == ASSUME Invs, InRange, PInv, HandleTest("isr") PROVE PInv'
<1>1. /\ pc["isr"] = "h_test" /\ UNCHANGED <<event, ms, log>> /\ handling["isr"].slot = 0
      /\ pc'["isr"] \in {"idle", "h_look"}
  BY Sides DEF HandleTest, Step, table, PInv, Invs, IInv, Typed
<1>2. CASE handling' = [handling EXCEPT !["isr"] = Outside] /\ pc'["isr"] = "idle"
  BY <1>1, <1>2, Sides DEF Outside, PInv, Pending, Filling, Invs, IInv, Typed
<1>3. CASE handling' = [handling EXCEPT !["isr"].slot = 1, !["isr"].now = Clock] /\ pc'["isr"] = "h_look"
  <2>1. \A h \in Pass : LET g == [[h EXCEPT !.slot = 1] EXCEPT !.now = Clock]
                        IN  g.slot = 1 /\ g.now = Clock
    BY DEF Pass
  <2>2. handling'["isr"].slot = 1 /\ handling'["isr"].now = Clock
    BY <1>3, <2>1, Sides DEF Invs, IInv, Typed
  <2>3. Time' <= Clock
    BY <1>1, ClockInRange, TimeStands DEF Invs
  <2>4. \A j \in Slot : ~Swept(j)'
    BY <1>3, <2>2, SlotsPositive DEF Swept, Busy, Slot, ScheduleSteps, Ending
  <2> QED
    BY <1>3, <2>2, <2>3, <2>4 DEF PInv, Pending, Filling
<1> QED
  BY <1>2, <1>3, Sides DEF HandleTest, Step, Invs, IInv, Typed

\* The event is not due, or was run by this interrupt.
Ran(j) ==
  event'[HIGH][j].active /\ event'[HIGH][j].at <= Time => log[event[HIGH][j].id].last = ms

LEMMA LastSlot ==
  ASSUME NEW i \in Slot, ~(i < Slots), NEW j \in Slot
  PROVE  j < i \/ j = i
BY SlotsPositive DEF Slot

\* The interrupt is done with its slot, and looks at the next or returns.
LEMMA OnPrompt ==
  ASSUME Invs, PInv, NEW from \in {"h_look", "h_next"}, Advance("isr", from), UNCHANGED <<ms, log>>,
         NEW i \in Slot, i = handling["isr"].slot, Prompt(i)',
         event'[HIGH][i].id = event[HIGH][i].id,
         \A j \in Slot : j # i => event'[HIGH][j] = event[HIGH][j]
  PROVE  /\ PInv'
         /\ pc'["isr"] = "idle" => \A j \in Slot : Ran(j)
<1> DEFINE h == handling["isr"]
<1>1. /\ i \in Int /\ Slots \in Nat /\ i # 0 /\ i <= Slots /\ \A j \in Slot : j \in Int /\ j <= Slots
      /\ h \in Pass
  BY SlotsPositive, Sides DEF Slot, Invs, IInv, Typed
<1>2. \A j \in Slot : j < i => Prompt(j)'
  BY <1>1, TimeStands DEF PInv, Swept, Prompt
<1>3. CASE i < Slots
  <2>1. /\ handling' = [handling EXCEPT !["isr"].slot = @ + 1, !["isr"].count = 0]
        /\ pc'["isr"] = "h_look"
    BY <1>3, Sides DEF Advance, Step, Invs, IInv, Typed
  <2>2. LET g == [[h EXCEPT !.slot = i + 1] EXCEPT !.count = 0]
        IN  g.slot = i + 1 /\ g.now = h.now
    BY <1>1 DEF Pass
  <2>3. handling'["isr"].slot = i + 1 /\ handling'["isr"].now = h.now
    BY <2>1, <2>2, Sides DEF Invs, IInv, Typed
  <2>4. \A j \in Slot : Swept(j)' => j < i \/ j = i
    BY <1>1, <2>1, <2>3 DEF Swept, Busy, ScheduleSteps, Ending
  <2>5. Time' <= handling'["isr"].now
    BY <1>1, <2>3, TimeStands DEF PInv
  <2> QED
    BY <1>2, <2>1, <2>4, <2>5 DEF PInv, Pending, Filling
<1>4. CASE ~(i < Slots)
  <2>1. handling' = [handling EXCEPT !["isr"] = Outside] /\ pc'["isr"] = "idle"
    BY <1>4, Sides DEF Advance, Step, Invs, IInv, Typed
  <2>2. handling'["isr"].slot = 0
    BY <2>1, Sides DEF Outside, Invs, IInv, Typed
  <2>3. \A j \in Slot : j < i \/ j = i
    BY <1>4, LastSlot
  <2>4. \A j \in Slot : Prompt(j)' => Ran(j)
    BY TimeStands DEF Prompt, Ran
  <2> QED
    BY <1>2, <2>1, <2>2, <2>3, <2>4 DEF PInv, Pending, Filling
<1> QED
  BY <1>3, <1>4

LEMMA SkipPrompt ==
  ASSUME Invs, PInv, HandleSkip("isr")
  PROVE  /\ PInv'
         /\ pc'["isr"] = "idle" => \A j \in Slot : Ran(j)
<1>1. PICK i \in Slot : i = handling["isr"].slot /\ This("isr") = event[HIGH][i]
  BY AtWork, Sides DEF HandleSkip, Invs, This
<1>2. /\ Advance("isr", "h_look") /\ UNCHANGED <<event, ms, log>>
      /\ event[HIGH][i].active => ~(event[HIGH][i].at <= handling["isr"].now)
  BY <1>1 DEF HandleSkip, table, Elapsed
<1>3. Prompt(i)'
  <2>1. i # 0 /\ Time \in Nat /\ handling["isr"] \in Pass /\ event[HIGH][i] \in Event
    BY SlotsPositive, EventType, TimeTyped, Sides DEF Slot, Invs, IInv, Typed
  <2>2. Time <= handling["isr"].now
    BY <1>1, <2>1 DEF PInv
  <2>3. event[HIGH][i].active => ~(event[HIGH][i].at <= Time)
    BY <1>2, <2>1, <2>2 DEF Pass, Event
  <2> QED
    BY <1>2, <2>3, TimeStands DEF Prompt
<1> QED
  BY <1>1, <1>2, <1>3, OnPrompt

LEMMA NextPrompt ==
  ASSUME Invs, InRange, PInv, HandleNext("isr")
  PROVE  /\ PInv'
         /\ pc'["isr"] = "idle" => \A j \in Slot : Ran(j)
<1>1. PICK i \in Slot : /\ i = handling["isr"].slot /\ Prio("isr") = HIGH /\ pc["isr"] = "h_next"
                        /\ This("isr") = event[HIGH][i]
  <2>1. pc["isr"] = "h_next"
    BY DEF HandleNext, Advance, Step
  <2>2. Prio("isr") = Level("isr") /\ handling["isr"].slot \in Slot
    BY <2>1, Sides DEF Invs, IInv, Handling, HandleSteps, Prio
  <2> QED
    BY <2>1, <2>2, Sides DEF This
<1>2. PICK e \in Event : e = event[HIGH][i]
  BY EventType, Sides DEF Invs, IInv
<1>3. PICK at : at = (e.at + e.interval) % TimeMod
  OBVIOUS
<1>4. /\ Advance("isr", "h_next") /\ UNCHANGED <<ms, log>>
      /\ event' = [event EXCEPT ![HIGH][i] = [e EXCEPT !.at = at]]
  BY <1>1, <1>2, <1>3 DEF HandleNext
<1>5. /\ event'[HIGH][i].active = e.active /\ event'[HIGH][i].id = e.id /\ event'[HIGH][i].at = at
      /\ \A j \in Slot : j # i => event'[HIGH][j] = event[HIGH][j]
  <2>1. /\ [e EXCEPT !.at = at].active = e.active /\ [e EXCEPT !.at = at].id = e.id
        /\ [e EXCEPT !.at = at].at = at
    BY DEF Event
  <2> QED
    BY <1>4, <2>1, Sides DEF Invs, IInv, Typed
<1>6. Prompt(i)'
  <2>1. Swept(i) /\ i # 0
    BY <1>1, SlotsPositive DEF Swept, Busy, Ending, Slot
  <2>2. e.active => at > e.at /\ e.at \in Nat /\ at \in Nat
    <3>1. Begun(HIGH, i)
      BY <1>1 DEF Begun, Busy, Handler, Ending, HIGH, LOW
    <3> QED
      BY <1>2, <1>3, <3>1, Sides, NewDate
  <2>3. e.active /\ e.at <= Time => log[e.id].last = ms
    BY <1>1, <1>2, <2>1 DEF PInv, Prompt
  <2>4. e.active /\ at <= Time => log[e.id].last = ms
    <3>1. Time \in Nat
      BY TimeTyped DEF Invs
    <3> QED
      BY <2>2, <2>3, <3>1
  <2> QED
    BY <1>4, <1>5, <2>4, TimeStands DEF Prompt
<1> QED
  BY <1>1, <1>2, <1>4, <1>5, <1>6, OnPrompt

LEMMA RunPrompt == ASSUME Invs, PInv, HandleRun("isr") PROVE PInv'
<1>1. PICK i \in Slot, n \in Ids :
        /\ i = handling["isr"].slot /\ event[HIGH][i].active /\ n = event[HIGH][i].id
        /\ This("isr") = event[HIGH][i]
  <2>1. pc["isr"] = "h_look" /\ This("isr").active
    BY DEF HandleRun, Elapsed
  <2>2. Prio("isr") = HIGH /\ handling["isr"].slot \in Slot
    BY <2>1, AtWork, Sides DEF Invs
  <2>3. event[HIGH][handling["isr"].slot].active =>
          event[HIGH][handling["isr"].slot].id \in Ids
    BY <2>2, Sides, LogFacts DEF Invs
  <2> QED
    BY <2>1, <2>2, <2>3 DEF This
<1>2. /\ pc["isr"] = "h_look" /\ pc'["isr"] = "callback" /\ UNCHANGED <<handling, event, ms>>
      /\ log' = [log EXCEPT ![n].ran = @ + 1, ![n].last = ms]
  BY <1>1, Sides DEF HandleRun, Step, table, Invs, IInv, Typed
<1>3. log'[n].last = ms /\ \A k \in Ids : k # n => log'[k] = log[k]
  <2> DEFINE f == [log[n] EXCEPT !.ran = log[n].ran + 1]
  <2>1. DOMAIN f = DOMAIN log[n] /\ "last" \in DOMAIN log[n]
    BY LogFacts DEF Invs, Entry
  <2> HIDE DEF f
  <2>2. [f EXCEPT !.last = ms].last = ms
    BY <2>1
  <2>3. log' = [log EXCEPT ![n] = [f EXCEPT !.last = ms]]
    BY <1>2 DEF Invs, KInv, f
  <2> QED
    BY <2>2, <2>3 DEF Invs, KInv
<1>4. ASSUME NEW j \in Slot, Swept(j)', j # i PROVE Swept(j)
  BY <1>1, <1>2, <1>4 DEF Swept, Busy
<1>5. ASSUME handling["isr"].slot # 0, NEW j \in Slot, Swept(j)' PROVE Prompt(j)'
  <2>1. CASE event[HIGH][j].active /\ event[HIGH][j].id = n
    BY <1>2, <1>3, <2>1 DEF Prompt
  <2>2. CASE event[HIGH][j].active /\ event[HIGH][j].id # n
    <3>1. Prompt(j) /\ event[HIGH][j].id \in Ids
      BY <1>1, <1>4, <1>5, <2>2, Sides, LogFacts DEF Invs, PInv
    <3> QED
      BY <1>2, <1>3, <2>2, <3>1, TimeStands DEF Prompt
  <2>3. CASE ~event[HIGH][j].active
    BY <1>2, <2>3 DEF Prompt
  <2> QED
    BY <2>1, <2>2, <2>3
<1>6. Pending'
  BY <1>2 DEF Pending, Filling
<1> QED
  BY <1>2, <1>5, <1>6, TimeStands DEF PInv

LEMMA RunsPrompt ==
  ASSUME Invs, PInv, HandleRuns("isr") \/ HandleLoad("isr") \/ HandleStore("isr") PROVE PInv'
<1>1. /\ pc["isr"] \in {"h_runs"} \cup Ending /\ pc'["isr"] \in Ending
      /\ UNCHANGED <<ms, log>>
  BY Sides DEF HandleRuns, HandleLoad, HandleStore, Step, Ending, Invs, IInv, Typed
<1>2. /\ handling'["isr"].slot = handling["isr"].slot /\ handling'["isr"].now = handling["isr"].now
  <2>1. CASE HandleLoad("isr")
    BY <2>1, Sides DEF HandleLoad, Invs, IInv, Typed, Pass
  <2> QED
    BY <2>1 DEF HandleRuns, HandleStore
<1>3. \A j \in Slot : Unmoved(j)
  <2>1. CASE HandleLoad("isr") \/ HandleStore("isr")
    BY <1>1, <2>1 DEF HandleLoad, HandleStore, table, Unmoved
  <2>2. CASE HandleRuns("isr")
    <3>1. pc["isr"] = "h_runs"
      BY <2>2 DEF HandleRuns, Step
    <3>2. \A q \in Priorities, j \in Slot :
            /\ event'[q][j].id = event[q][j].id /\ event'[q][j].at = event[q][j].at
            /\ event'[q][j].active => event[q][j].active
      BY <2>2, Sides, RunsWrite
    <3> QED
      BY <1>1, <3>2, Sides DEF Unmoved
  <2> QED
    BY <2>1, <2>2
<1>4. \A j \in Slot : Busy("isr", j)' => Busy("isr", j)
  BY <1>1, <1>2 DEF Busy
<1>5. Pending' /\ pc'["isr"] \notin {"idle", "h_test"}
  BY <1>1 DEF Pending, Filling, Ending
<1> QED
  BY <1>1, <1>2, <1>3, <1>4, <1>5, StayPrompt

LEMMA CodePrompt ==
  ASSUME Invs, InRange, PInv, CallSchedule("isr") \/ Code("isr")
  PROVE  /\ PInv'
         /\ pc["isr"] # "idle" /\ pc'["isr"] = "idle" /\ handling["isr"].slot # 0 =>
              \A j \in Slot : Ran(j)
<1>1. CASE HandleSkip("isr") \/ HandleNext("isr")
  BY <1>1, SkipPrompt, NextPrompt
<1>2. CASE ~(HandleSkip("isr") \/ HandleNext("isr"))
  <2>1. ~(ResetSlot("isr") \/ ResetCount("isr"))
    BY Sides, Resetting DEF Invs
  <2>2. PInv'
    BY <1>2, <2>1, EndPrompt, RoomPrompt, CallSchedulePrompt, ScheduleFillPrompt, ScheduleDuePrompt,
       ActivatePrompt, TestPrompt, RunPrompt, RunsPrompt DEF Code
  <2>3. pc'["isr"] = "idle" => handling["isr"].slot = 0
    <3>1. CASE ScheduleRefuse("isr") \/ ScheduleEnable("isr")
      BY <3>1, Sides DEF ScheduleRefuse, ScheduleEnable, Step, Caller, Invs, IInv, Typed
    <3>2. CASE HandleTest("isr")
      BY <3>2 DEF HandleTest, PInv
    <3>3. CASE CallSchedule("isr")
      BY <3>3, Sides DEF CallSchedule, Step, Invs, IInv, Typed
    <3>4. CASE ScheduleSlot("isr")
      BY <3>4, Sides DEF ScheduleSlot, Step, Invs, IInv, Typed
    <3> QED
      BY <1>2, <2>1, <3>1, <3>2, <3>3, <3>4, Sides
      DEF Code, ScheduleRoom, ScheduleFill, ScheduleDue, ScheduleLoad, ScheduleStore,
          ScheduleActivate, HandleRun, CallbackReturn, HandleRuns, HandleLoad, HandleStore,
          Step, Invs, IInv, Typed
  <2> QED
    BY <2>2, <2>3
<1> QED
  BY <1>1, <1>2

\* main executes only while no interrupt does, and leaves its variables alone.
LEMMA MainAlone ==
  ASSUME OneCaller, IInv, CallSchedule("main") \/ CallReset("main") \/ Code("main")
  PROVE  Only("main") /\ pc["isr"] = "idle"
<1>1. Only("main")
  <2>1. CASE \/ ScheduleStore("main") \/ ScheduleActivate("main") \/ HandleRuns("main")
             \/ HandleStore("main")
    BY <2>1 DEF ScheduleStore, ScheduleActivate, HandleRuns, HandleStore, Step, Only, IInv, Typed
  <2> QED
    BY <2>1, Sides, Resetting, CallScheduleInv, CallResetInv, ScheduleRefuseInv, ScheduleRoomInv, ScheduleSlotInv,
       ScheduleFillInv, ScheduleDueInv, ScheduleLoadInv, ScheduleEnableInv, HandleTestInv, HandleSkipInv,
       HandleRunInv, CallbackReturnInv, HandleLoadInv, HandleNextInv
    DEF Code, Quiet
<1>2. pc["isr"] = "idle"
  BY DEF CallSchedule, CallReset, Code, ScheduleRefuse, ScheduleRoom, ScheduleSlot, ScheduleFill,
         ScheduleDue, ScheduleLoad, ScheduleStore, ScheduleActivate, ScheduleEnable, ResetSlot, ResetCount,
         HandleTest, HandleSkip, Advance, HandleRun, CallbackReturn, HandleRuns, HandleLoad,
         HandleStore, HandleNext, Step
<1> QED
  BY <1>1, <1>2

LEMMA BeginPrompt ==
  ASSUME Invs, PInv, Enable \/ Disable \/ CallHandle \/ Interrupt \/ UNCHANGED vars
  PROVE  PInv' /\ ~(pc["isr"] # "idle" /\ pc'["isr"] = "idle")
<1>1. CASE UNCHANGED vars
  BY <1>1, TimeStands DEF vars, table, PInv, Pending, Swept, Busy, Prompt
<1>2. CASE Enable \/ Disable \/ CallHandle \/ Interrupt
  <2>1. pc["isr"] = "idle"
    BY <1>2 DEF Enable, Disable, CallHandle, Interrupt, TC0_Handler, TC2_Handler, StartInterrupt, Step
  <2>2. pc'["isr"] \in {"idle", "h_test"} /\ handling'["isr"].slot = handling["isr"].slot
    <3>1. CASE Enable \/ Disable
      BY <2>1, <3>1, Sides DEF Enable, Disable, Step, Invs, IInv, Typed
    <3>2. CASE CallHandle
      BY <2>1, <3>2, Sides DEF CallHandle, Step, Invs, IInv, Typed
    <3>3. CASE StartInterrupt
      BY <3>3, Sides DEF StartInterrupt, Step, Invs, IInv, Typed, Pass
    <3>4. CASE UNCHANGED <<pc, handling>>
      BY <2>1, <3>4
    <3> QED
      BY <1>2, <3>1, <3>2, <3>3, <3>4 DEF Interrupt, TC0_Handler, TC2_Handler
  <2> QED
    BY <2>1, <2>2, OutsidePrompt
<1> QED
  BY <1>1, <1>2

\* The interrupt that returns has run whatever was due.
Return ==
  pc["isr"] # "idle" /\ pc'["isr"] = "idle" /\ handling["isr"].slot # 0 => \A j \in Slot : Ran(j)

LEMMA PNext == ASSUME OneCaller, Invs, InRange, PInv, [Next]_vars PROVE PInv' /\ Return
<1>1. CASE \E c \in Contexts : CallSchedule(c) \/ CallReset(c) \/ Code(c)
  <2>1. PICK c \in Contexts : CallSchedule(c) \/ CallReset(c) \/ Code(c)
    BY <1>1
  <2>2. CASE c = "main"
    BY <2>1, <2>2, MainAlone, MainPrompt DEF Invs, Return
  <2>3. CASE c = "isr"
    <3>1. ~CallReset("isr")
      BY DEF CallReset, OneCaller
    <3> QED
      BY <2>1, <2>3, <3>1, CodePrompt DEF Return
  <2> QED
    BY <2>2, <2>3 DEF Contexts
<1>2. CASE Enable \/ Disable \/ CallHandle \/ Interrupt \/ UNCHANGED vars
  BY <1>2, BeginPrompt DEF Return
<1> QED
  BY <1>1, <1>2 DEF Next

LEMMA PInit == Init => PInv
BY Sides DEF Init, Outside, PInv, Pending, Filling

\* When the timer interrupt returns, every HIGH event that is due was run by
\* this very interrupt, though its callbacks add and remove events meanwhile
\* and main was interrupted in the middle of a call (handleEvents).
THEOREM DueEventsRun == ASSUME OneCaller PROVE Spec /\ []InRange => Punctual
<1>1. Init => DInv /\ PInv
  BY DInit, PInit
<1>2. Invs /\ InRange /\ [Next]_vars => DInv'
  BY DNext
<1>3. Invs /\ InRange /\ PInv /\ [Next]_vars => PInv'
  BY PNext
<1>4. Invs /\ InRange /\ PInv /\ [Next]_vars =>
        [pc["isr"] # "idle" /\ pc'["isr"] = "idle" /\ handling["isr"].slot # 0 =>
           \A i \in Slot : event'[HIGH][i].active /\ event'[HIGH][i].at <= Time =>
             log[event[HIGH][i].id].last = ms]_vars
  BY PNext DEF Return, Ran
<1>5. Spec => []IInv
  BY Inductive
<1>6. Spec => []KInv
  BY KInductive
<1>7. Spec => []TInv
  BY TInit, NextTyped, PTL DEF Spec
<1> HIDE DEF OneCaller
<1> QED
  BY <1>1, <1>2, <1>3, <1>4, <1>5, <1>6, <1>7, PTL DEF Spec, Invs, Punctual

=============================================================================
