\* The sketch reads only while available says that there is something.
SPECIFICATION FairSpec
CONSTANTS
  Slots = 3
  Limit = 3
  CountMod = 8
  BufSize = 2
  Polls = TRUE
  MaxSent = 5
PROPERTIES
  AllRead
CHECK_DEADLOCK FALSE
