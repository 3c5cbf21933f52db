\* Receive side, from before begin on and through further ones, with more bytes than the ring holds.
SPECIFICATION FairSpec
CONSTANTS
  Slots = 3
  Limit = 8
  CountMod = 4
  MaxArrivals = 6
  Calls = {"read", "flush", "begin"}
  MaxWrites = 0
INVARIANTS
  TypeOK
  RxCountUnlessSpoiled
PROPERTIES
  ReadsInOrderUnlessSpoiled
