\* Receive side: reads and peeks while more bytes come in than the ring holds.
SPECIFICATION FairSpec
CONSTANTS
  Slots = 3
  Limit = 3
  CountMod = 8
  MaxArrivals = 8
  Calls = {"read", "peek", "write"}
  MaxWrites = 1
INVARIANTS
  RxCountMatches
PROPERTIES
  ReadsInOrder
  PeekThenRead
  ImplementsPort
