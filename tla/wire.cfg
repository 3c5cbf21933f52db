\* Two slaves; packets of up to two bytes, reads of up to two into a ring of two.
SPECIFICATION FairSpec
CONSTANTS
  Slots = 2
  Limit = 8
  CountMod = 4
  Addresses = {1, 2}
  SendSize = 2
  MaxQuantity = 2
  Timeout = 1
  WriteTimeout = 3
  MaxHeard = 3
  MaxWritten = 2
INVARIANTS
  OwnBytes
  ReadsInOrder
  OnlyToItsSlave
  AcceptedButLast
PROPERTIES
  StuckOnlyAtStop
  CallsReturn
