\* The sketch reads whenever it likes; the ring holds one and a half transfers.
SPECIFICATION FairSpec
CONSTANTS
  Slots = 3
  Limit = 3
  CountMod = 8
  BufSize = 2
  Polls = FALSE
  MaxSent = 9
INVARIANTS
  NothingLost
  ReadsInOrderUnlessOvertaken
  GetcNeverWaits
PROPERTIES
  AllRead
