----------------------------- MODULE Scheduler -----------------------------
(***************************************************************************)
(* One SchedulerModule (SchedulerMillis or SchedulerMicros).  Two contexts *)
(* execute the same code: "main", the sketch and the loop of main.cpp that *)
(* calls handleEvents(LOW), and "isr", the timer interrupts that call      *)
(* handleEvents(HIGH).  An interrupt comes between any two steps of main   *)
(* and runs to its end; the callbacks of events run in the context that    *)
(* handles them and may call the scheduler again.                          *)
(*                                                                         *)
(* numEvents[p]++ and numEvents[p]-- are a load and a store each.  The     *)
(* fields of a slot are written in the order of the source, and reset      *)
(* clears slot by slot, with the interrupts enabled.  Callers says which   *)
(* contexts schedule at which level: the code leaves that open, and what   *)
(* it promises depends on it.  handleAllEvents, which nothing calls, is    *)
(* left out.                                                               *)
(***************************************************************************)
EXTENDS Integers, FiniteSets

CONSTANTS
  Slots,        \* MAX_EVENTS / NUM_PRIORITIES, 10
  TimeMod,      \* elapsedAt is a uint32_t: 2^32
  Units,        \* timeUnits
  UsPerMs,      \* 1000
  Callers,      \* the pairs of a context and a level it schedules at
  Calls,        \* the other operations the sketch uses
  Intervals,    \* the intervals it asks for, all positive
  Runs,         \* the numbers of runs it asks for, 0 for ever
  MaxEvents,    \* bound on the calls of schedule
  MaxTime       \* the clock stops here once no event waits for it

HIGH == 0
LOW == 1
Priorities == {HIGH, LOW}
Contexts == {"main", "isr"}

ASSUME SchedulerAssumption ==
  /\ Slots \in Nat \ {0}
  /\ TimeMod \in Nat \ {0}
  /\ Units \in {"1MS", "10US"}
  /\ UsPerMs \in Nat \ {0}
  /\ Callers \subseteq Contexts \X Priorities
  /\ Calls \subseteq {"disable", "enable", "reset", "reset in callback"}
  /\ Intervals \subseteq Nat \ {0}
  /\ Runs \subseteq Nat
  /\ MaxEvents \in Nat
  /\ MaxTime \in Nat

VARIABLES
  pc,         \* where each context is
  handling,   \* the local variables of its handleEvents; slot 0: not in it
  asking,     \* the local variables of its schedule or reset
  enabled,
  event,      \* eventArray
  num,        \* numEvents
  ticking,    \* TC2 was started
  ms,         \* ms_counter
  log         \* history: what became of each call of schedule

table == <<event, num>>
vars == <<pc, handling, asking, enabled, table, ticking, ms, log>>

Ids == 1 .. MaxEvents
Slot == 1 .. Slots

ScheduleSteps == {"s_room", "s_slot", "s_fill", "s_due", "s_load", "s_store", "s_active", "s_enable"}
HandleSteps == {"h_test", "h_look", "callback", "h_runs", "h_load", "h_store", "h_next"}

ResetSteps == {"r_slot", "r_count"}

TypeOK ==
  /\ pc \in [Contexts -> {"idle", "fault"} \cup ResetSteps \cup ScheduleSteps \cup HandleSteps]
  /\ handling \in [Contexts -> [prio : Priorities, slot : Slot \cup {0}, now : Nat, count : Int]]
  /\ \A c \in Contexts :
       /\ asking[c].id \in Ids \cup {0}
       /\ asking[c].prio \in Priorities
       /\ asking[c].slot \in Slot \cup {0}
       /\ asking[c].count \in Int
  /\ enabled \in BOOLEAN
  /\ \A p \in Priorities, i \in Slot :
       /\ event[p][i].active \in BOOLEAN
       /\ event[p][i].id \in Ids \cup {0}
       /\ event[p][i].runs \in Nat
       /\ event[p][i].at \in 0 .. TimeMod - 1
  /\ num \in [Priorities -> Int]
  /\ ticking \in BOOLEAN
  /\ ms \in Nat
  /\ \A id \in Ids : log[id].state \in {"none", "asked", "refused", "accepted", "cancelled"}

NoEvent == [active |-> FALSE, id |-> 0, interval |-> 0, runs |-> 0, at |-> 0]
Outside == [prio |-> LOW, slot |-> 0, now |-> 0, count |-> 0]
NoCall == [id |-> 0, prio |-> LOW, interval |-> 0, runs |-> 0, slot |-> 0, count |-> 0]
NoLog == [state |-> "none", prio |-> LOW, interval |-> 0, runs |-> 0, start |-> 0, ran |-> 0, last |-> 0]

Init ==
  /\ pc = [c \in Contexts |-> "idle"]
  /\ handling = [c \in Contexts |-> Outside]
  /\ asking = [c \in Contexts |-> NoCall]
  /\ enabled = FALSE
  /\ event = [p \in Priorities |-> [i \in Slot |-> NoEvent]]
  /\ num = [p \in Priorities |-> 0]
  /\ ticking = FALSE
  /\ ms = 0
  /\ log = [id \in Ids |-> NoLog]

\* The time in the scheduler's units.  micros() reads the compare register of
\* the counter, a constant, so that it moves once a millisecond.
Time == IF Units = "1MS" THEN ms ELSE UsPerMs + ms * UsPerMs

\* millis() has 64 bits; micros() adds up in an unsigned long of 32.
Clock == IF Units = "1MS" THEN Time ELSE Time % TimeMod

\* One step of the code of c; main executes only while no interrupt does.
Step(c, from, to) ==
  /\ pc[c] = from
  /\ c = "main" => pc["isr"] = "idle"
  /\ pc' = [pc EXCEPT ![c] = to]

\* Where a call from a callback, or from outside of one, returns to.
Caller(c) == IF handling[c].slot = 0 THEN "idle" ELSE "callback"

Asked == {id \in Ids : log[id].state # "none"}

-----------------------------------------------------------------------------
\* schedule(function, interval, numRuns, priority).  The calls with a bad
\* parameter return -1 at once and are left out.

CallSchedule(c) ==
  \E p \in Priorities, n \in Intervals, r \in Runs, id \in Ids :
    /\ <<c, p>> \in Callers
    /\ id = Cardinality(Asked) + 1
    /\ Step(c, Caller(c), "s_room")
    /\ asking' = [asking EXCEPT ![c] =
                   [NoCall EXCEPT !.id = id, !.prio = p, !.interval = n, !.runs = r]]
    /\ log' = [log EXCEPT ![id] = [NoLog EXCEPT !.state = "asked", !.prio = p, !.interval = n, !.runs = r]]
    /\ UNCHANGED <<handling, enabled, table, ticking, ms>>

\* return -2: "error no room to schedule at that priority"
ScheduleRefuse(c) ==
  /\ num[asking[c].prio] = Slots
  /\ Step(c, "s_room", Caller(c))
  /\ asking' = [asking EXCEPT ![c] = NoCall]
  /\ log' = [log EXCEPT ![asking[c].id].state = "refused"]
  /\ UNCHANGED <<handling, enabled, table, ticking, ms>>

ScheduleRoom(c) ==
  /\ num[asking[c].prio] # Slots
  /\ Step(c, "s_room", "s_slot")
  /\ UNCHANGED <<handling, asking, enabled, table, ticking, ms, log>>

Free(p) == {i \in Slot : ~event[p][i].active}

\* (Definitions named Faulty... are not the code but plausible mistakes, put
\* in its place to see that the properties notice.)
FaultyScheduleSlot(c) ==
  /\ Step(c, "s_slot", "s_fill")
  /\ asking' = [asking EXCEPT ![c].slot = num[asking[c].prio] + 1]
  /\ UNCHANGED <<handling, enabled, table, ticking, ms, log>>

\* The first inactive slot; without one the writes go through NULL.
ScheduleSlot(c) ==
  LET free == Free(asking[c].prio) IN
  /\ Step(c, "s_slot", IF free = {} THEN "fault" ELSE "s_fill")
  /\ asking' = [asking EXCEPT ![c].slot =
                 IF free = {} THEN 0 ELSE CHOOSE i \in free : \A j \in free : i <= j]
  /\ UNCHANGED <<handling, enabled, table, ticking, ms, log>>

\* Function and argument stand for the call that gave them.
ScheduleFill(c) ==
  LET a == asking[c] IN
  /\ Step(c, "s_fill", "s_due")
  /\ event' = [event EXCEPT ![a.prio][a.slot] =
                [@ EXCEPT !.id = a.id, !.interval = a.interval, !.runs = a.runs]]
  /\ UNCHANGED <<handling, asking, enabled, num, ticking, ms, log>>

ScheduleDue(c) ==
  LET a == asking[c] IN
  /\ Step(c, "s_due", "s_load")
  /\ event' = [event EXCEPT ![a.prio][a.slot] =
                [@ EXCEPT !.at = (Clock + a.interval) % TimeMod]]
  /\ log' = [log EXCEPT ![a.id].start = Time]
  /\ UNCHANGED <<handling, asking, enabled, num, ticking, ms>>

ScheduleLoad(c) ==
  /\ Step(c, "s_load", "s_store")
  /\ asking' = [asking EXCEPT ![c].count = num[asking[c].prio]]
  /\ UNCHANGED <<handling, enabled, table, ticking, ms, log>>

FaultyScheduleStore(c) ==
  /\ Step(c, "s_store", "s_active")
  /\ UNCHANGED <<handling, asking, enabled, table, ticking, ms, log>>

ScheduleStore(c) ==
  /\ Step(c, "s_store", "s_active")
  /\ num' = [num EXCEPT ![asking[c].prio] = asking[c].count + 1]
  /\ UNCHANGED <<handling, asking, enabled, event, ticking, ms, log>>

ScheduleActivate(c) ==
  /\ Step(c, "s_active", "s_enable")
  /\ event' = [event EXCEPT ![asking[c].prio][asking[c].slot] = [@ EXCEPT !.active = TRUE]]
  /\ UNCHANGED <<handling, asking, enabled, num, ticking, ms, log>>

\* enable()
SetEnabled ==
  /\ enabled' = TRUE
  /\ ticking' = (ticking \/ (Units = "10US" /\ num[HIGH] = 1))

ScheduleEnable(c) ==
  /\ Step(c, "s_enable", Caller(c))
  /\ SetEnabled
  /\ asking' = [asking EXCEPT ![c] = NoCall]
  /\ log' = [log EXCEPT ![asking[c].id].state = "accepted"]
  /\ UNCHANGED <<handling, table, ms>>

-----------------------------------------------------------------------------
\* enable(), disable() and reset()

Enable ==
  /\ "enable" \in Calls
  /\ Step("main", "idle", "idle")
  /\ SetEnabled
  /\ UNCHANGED <<handling, asking, table, ms, log>>

Disable ==
  /\ "disable" \in Calls
  /\ Step("main", "idle", "idle")
  /\ enabled' = FALSE
  /\ UNCHANGED <<handling, asking, table, ticking, ms, log>>

\* disable(), and the start of the two loops of reset
CallReset(c) ==
  /\ (IF handling[c].slot = 0 THEN "reset" ELSE "reset in callback") \in Calls
  /\ c = "isr" => handling[c].slot # 0
  /\ Step(c, Caller(c), "r_slot")
  /\ enabled' = FALSE
  /\ asking' = [asking EXCEPT ![c] = [NoCall EXCEPT !.prio = HIGH, !.slot = 1]]
  /\ UNCHANGED <<handling, table, ticking, ms, log>>

\* One isActive = 0; who was accepted for this slot is cancelled by it.
ResetSlot(c) ==
  LET a == asking[c]
      e == event[a.prio][a.slot] IN
  /\ Step(c, "r_slot", IF a.slot = Slots THEN "r_count" ELSE "r_slot")
  /\ event' = [event EXCEPT ![a.prio][a.slot] = [@ EXCEPT !.active = FALSE]]
  /\ asking' = [asking EXCEPT ![c].slot = IF a.slot = Slots THEN 1 ELSE a.slot + 1]
  /\ log' = [id \in Ids |-> IF e.active /\ e.id = id /\ log[id].state = "accepted"
                            THEN [log[id] EXCEPT !.state = "cancelled"] ELSE log[id]]
  /\ UNCHANGED <<handling, enabled, num, ticking, ms>>

\* numEvents[i] = 0, and the next level
ResetCount(c) ==
  LET more == asking[c].prio = HIGH IN
  /\ Step(c, "r_count", IF more THEN "r_slot" ELSE Caller(c))
  /\ num' = [num EXCEPT ![asking[c].prio] = 0]
  /\ asking' = [asking EXCEPT ![c] = IF more THEN [@ EXCEPT !.prio = LOW] ELSE NoCall]
  /\ UNCHANGED <<handling, enabled, event, ticking, ms, log>>

-----------------------------------------------------------------------------
\* handleEvents(priorityLevel)

\* The event the loop looks at.
Prio(c) == handling[c].prio
This(c) == event[Prio(c)][handling[c].slot]

FaultyHandleTest(c) ==
  /\ pc[c] = "h_test"
  /\ IF ~enabled \/ num[HIGH] = 0
     THEN /\ Step(c, "h_test", "idle")
          /\ handling' = [handling EXCEPT ![c] = Outside]
     ELSE /\ Step(c, "h_test", "h_look")
          /\ handling' = [handling EXCEPT ![c].slot = 1, ![c].now = Clock]
  /\ UNCHANGED <<asking, enabled, table, ticking, ms, log>>

\* The test, and the time the whole pass goes by.
HandleTest(c) ==
  /\ pc[c] = "h_test"
  /\ IF ~enabled \/ num[Prio(c)] = 0
     THEN /\ Step(c, "h_test", "idle")
          /\ handling' = [handling EXCEPT ![c] = Outside]
     ELSE /\ Step(c, "h_test", "h_look")
          /\ handling' = [handling EXCEPT ![c].slot = 1, ![c].now = Clock]
  /\ UNCHANGED <<asking, enabled, table, ticking, ms, log>>

FaultyElapsed(e, now) == e.active

Elapsed(e, now) == e.active /\ e.at <= now

FaultyAdvance(c, from) ==
  IF handling[c].slot <= Slots
  THEN /\ Step(c, from, "h_look")
       /\ handling' = [handling EXCEPT ![c].slot = @ + 1, ![c].count = 0]
  ELSE /\ Step(c, from, "idle")
       /\ handling' = [handling EXCEPT ![c] = Outside]

\* i++ and the test of the loop
Advance(c, from) ==
  IF handling[c].slot < Slots
  THEN /\ Step(c, from, "h_look")
       /\ handling' = [handling EXCEPT ![c].slot = @ + 1, ![c].count = 0]
  ELSE /\ Step(c, from, "idle")
       /\ handling' = [handling EXCEPT ![c] = Outside]

HandleSkip(c) ==
  /\ pc[c] = "h_look"
  /\ ~Elapsed(This(c), handling[c].now)
  /\ Advance(c, "h_look")
  /\ UNCHANGED <<asking, enabled, table, ticking, ms, log>>

HandleRun(c) ==
  /\ pc[c] = "h_look"
  /\ Elapsed(This(c), handling[c].now)
  /\ Step(c, "h_look", "callback")
  /\ log' = [log EXCEPT ![This(c).id].ran = @ + 1, ![This(c).id].last = ms]
  /\ UNCHANGED <<handling, asking, enabled, table, ticking, ms>>

CallbackReturn(c) ==
  /\ Step(c, "callback", "h_runs")
  /\ UNCHANGED <<handling, asking, enabled, table, ticking, ms, log>>

FaultyHandleRuns(c) ==
  LET runs == This(c).runs IN
  /\ Step(c, "h_runs", "h_next")
  /\ event' = [event EXCEPT ![Prio(c)][handling[c].slot].runs = IF runs > 0 THEN runs - 1 ELSE runs]
  /\ UNCHANGED <<handling, asking, enabled, num, ticking, ms, log>>

HandleRuns(c) ==
  LET runs == This(c).runs IN
  /\ Step(c, "h_runs", IF runs = 1 THEN "h_load" ELSE "h_next")
  /\ event' = [event EXCEPT ![Prio(c)][handling[c].slot] =
                [@ EXCEPT !.active = This(c).active /\ runs # 1,
                          !.runs = IF runs > 1 THEN runs - 1 ELSE runs]]
  /\ UNCHANGED <<handling, asking, enabled, num, ticking, ms, log>>

HandleLoad(c) ==
  /\ Step(c, "h_load", "h_store")
  /\ handling' = [handling EXCEPT ![c].count = num[Prio(c)]]
  /\ UNCHANGED <<asking, enabled, table, ticking, ms, log>>

FaultyHandleStore(c) ==
  /\ Step(c, "h_store", "h_next")
  /\ UNCHANGED <<handling, asking, enabled, table, ticking, ms, log>>

HandleStore(c) ==
  /\ Step(c, "h_store", "h_next")
  /\ num' = [num EXCEPT ![Prio(c)] = handling[c].count - 1]
  /\ UNCHANGED <<handling, asking, enabled, event, ticking, ms, log>>

FaultyHandleNext(c) ==
  /\ Step(c, "h_next", "idle")
  /\ handling' = [handling EXCEPT ![c] = Outside]
  /\ event' = [event EXCEPT ![Prio(c)][handling[c].slot].at = (@ + This(c).interval) % TimeMod]
  /\ UNCHANGED <<asking, enabled, num, ticking, ms, log>>

HandleNext(c) ==
  /\ Advance(c, "h_next")
  /\ event' = [event EXCEPT ![Prio(c)][handling[c].slot] =
                [@ EXCEPT !.at = (This(c).at + This(c).interval) % TimeMod]]
  /\ UNCHANGED <<asking, enabled, num, ticking, ms, log>>

-----------------------------------------------------------------------------
\* The main loop and the timer interrupts

CallHandle ==
  /\ Step("main", "idle", "h_test")
  /\ handling' = [handling EXCEPT !["main"].prio = LOW]
  /\ UNCHANGED <<asking, enabled, table, ticking, ms, log>>

\* Someone is still to be run by the clock.
Awaited(p, i) ==
  LET e == event[p][i] IN e.active /\ e.at > Clock /\ (e.runs > 0 \/ log[e.id].ran = 0)

ClockRuns == ms < MaxTime \/ \E p \in Priorities, i \in Slot : Awaited(p, i)

StartInterrupt ==
  /\ Step("isr", "idle", "h_test")
  /\ handling' = [handling EXCEPT !["isr"].prio = HIGH]

\* SchedulerMillis is called by the interrupt that counts the milliseconds.
TC0_Handler ==
  /\ ClockRuns
  /\ ms' = ms + 1
  /\ pc["isr"] = "idle"
  /\ IF Units = "1MS" THEN StartInterrupt ELSE UNCHANGED <<pc, handling>>
  /\ UNCHANGED <<asking, enabled, table, ticking, log>>

\* SchedulerMicros has an interrupt of its own, once it was started.
TC2_Handler ==
  /\ ticking
  /\ StartInterrupt
  /\ UNCHANGED <<asking, enabled, table, ticking, ms, log>>

-----------------------------------------------------------------------------

Code(c) ==
  \/ ScheduleRefuse(c) \/ ScheduleRoom(c) \/ ScheduleSlot(c) \/ ScheduleFill(c) \/ ScheduleDue(c)
  \/ ScheduleLoad(c) \/ ScheduleStore(c) \/ ScheduleActivate(c) \/ ScheduleEnable(c)
  \/ ResetSlot(c) \/ ResetCount(c)
  \/ HandleTest(c) \/ HandleSkip(c) \/ HandleRun(c) \/ CallbackReturn(c) \/ HandleRuns(c)
  \/ HandleLoad(c) \/ HandleStore(c) \/ HandleNext(c)

Interrupt == TC0_Handler \/ TC2_Handler

Next ==
  \/ \E c \in Contexts : CallSchedule(c) \/ CallReset(c) \/ Code(c)
  \/ Enable \/ Disable \/ CallHandle
  \/ Interrupt

Spec == Init /\ [][Next]_vars

\* A pending interrupt is taken, though another may be served first, and
\* interrupts end.  main gets the processor between two interrupts, and the
\* loop of main.cpp comes back to handleEvents however often it is interrupted
\* or the sketch calls something else first.
Fairness ==
  /\ SF_vars(TC0_Handler)
  /\ WF_vars(TC2_Handler)
  /\ WF_vars(Code("isr"))
  /\ SF_vars(Code("main"))
  /\ SF_vars(CallHandle)

FairSpec == Spec /\ Fairness

-----------------------------------------------------------------------------
\* Properties

Active(p) == Slot \ Free(p)

\* A context is between its updates of the count and of isActive.
Updating(p) ==
  \E c \in Contexts :
    \/ pc[c] = "s_active" /\ asking[c].prio = p
    \/ pc[c] \in {"h_load", "h_store"} /\ handling[c].prio = p
    \/ pc[c] \in ResetSteps /\ asking[c].prio = p

\* numEvents is the number of active events (schedule, handleEvents, reset).
CountExact == \A p \in Priorities : ~Updating(p) => num[p] = Cardinality(Active(p))

\* numEvents never falls below the number of active events, though the
\* interrupt takes events away while main adds some: handleEvents never skips
\* an active event and schedule never runs out of slots it was promised.
CountCovers == \A p \in Priorities : num[p] >= Cardinality(Active(p))

\* An event that schedule accepted keeps a slot until its last run.
Kept ==
  \A id \in Ids :
    log[id].state = "accepted" /\ (log[id].runs = 0 \/ log[id].ran < log[id].runs) =>
      \E i \in Slot : event[log[id].prio][i].active /\ event[log[id].prio][i].id = id

\* No event runs more often than it was asked to.
NeverTooOften == \A id \in Ids : log[id].runs > 0 => log[id].ran <= log[id].runs

\* "handle any elapsed events": the k-th run of an event comes no earlier than
\* k intervals after schedule read the clock.
NeverEarly ==
  [][\A id \in Ids : log'[id].ran > log[id].ran =>
       Time >= log[id].start + log'[id].ran * log[id].interval]_vars

\* When the timer interrupt returns, every HIGH event that is due was run by
\* this very interrupt: it is behind by whole intervals, never forgotten.
Punctual ==
  [][pc["isr"] # "idle" /\ pc'["isr"] = "idle" /\ handling["isr"].slot # 0 =>
       \A i \in Slot : event'[HIGH][i].active /\ event'[HIGH][i].at <= Time =>
         log[event[HIGH][i].id].last = ms]_vars

\* Once the scheduler stays enabled every accepted event runs as often as it
\* was asked to, or at least once when that is for ever.
AllRun ==
  <>[]enabled =>
    \A id \in Ids :
      log[id].state = "accepted" ~>
        \/ log[id].state = "cancelled"
        \/ log[id].ran > 0 /\ log[id].ran >= log[id].runs

=============================================================================
