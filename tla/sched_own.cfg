\* SchedulerMillis, each level scheduled from its own context only.
SPECIFICATION FairSpec
CONSTANTS
  Slots = 2
  TimeMod = 64
  Units = "1MS"
  UsPerMs = 2
  Callers <- OwnLevel
  Calls = {}
  Intervals = {2}
  Runs = {1, 2}
  MaxEvents = 3
  MaxTime = 1
INVARIANTS
  TypeOK
  CountExact
  Kept
  NeverTooOften
PROPERTIES
  Punctual
