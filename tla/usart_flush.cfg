\* A flush while bytes come in.
SPECIFICATION FairSpec
CONSTANTS
  Slots = 2
  Limit = 2
  CountMod = 8
  MaxArrivals = 3
  Calls = {"read", "flush"}
  MaxWrites = 0
PROPERTIES
  FlushDropsAll
