\* SchedulerMicros, both levels scheduled from main only.
SPECIFICATION FairSpec
CONSTANTS
  Slots = 2
  TimeMod = 64
  Units = "10US"
  UsPerMs = 2
  Callers <- MainOnly
  Calls = {"enable", "disable", "reset"}
  Intervals = {1, 3}
  Runs = {0, 2}
  MaxEvents = 2
  MaxTime = 1
INVARIANTS
  CountCovers
PROPERTIES
  NeverEarly
  AllRun
