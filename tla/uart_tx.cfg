\* Transmit side with more bytes than the ring holds, through further calls of begin.
SPECIFICATION FairSpec
CONSTANTS
  Slots = 3
  Limit = 8
  CountMod = 4
  MaxArrivals = 0
  Calls = {"write", "flush", "begin"}
  MaxWrites = 6
INVARIANTS
  NothingLostUnlessOverrun
PROPERTIES
  SentUnlessMissed
CHECK_DEADLOCK FALSE
