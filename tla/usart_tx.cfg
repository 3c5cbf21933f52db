\* Transmit side: the sketch writes, flushes and opens the port again.
SPECIFICATION FairSpec
CONSTANTS
  Slots = 2
  Limit = 2
  CountMod = 8
  MaxArrivals = 1
  Calls = {"write", "flush", "begin"}
  MaxWrites = 5
INVARIANTS
  NothingLost
  NoLostWakeup
  WireInOrder
PROPERTIES
  AllSent
  CallsReturn
