\* Three packets; frame numbers wrap; the host closes and opens once more.
SPECIFICATION FairSpec
CONSTANTS
  BufSize = 2
  NumFrames = 3
  ZlpLimit = 3
  MaxWritten = 6
  MaxOpened = 2
INVARIANTS
  NothingLost
  SentPromptly
PROPERTIES
  AllSent
  CallsReturn
CHECK_DEADLOCK FALSE
