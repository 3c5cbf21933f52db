\* Two pins of each port.  24 configures the line of 6, whose entry detaching 6
\* leaves alone and detaching 2 clears; 2 and 34 have their lines swapped.
SPECIFICATION FairSpec
CONSTANTS
  Pins = {2, 6, 24, 34}
  Modes = {1, 2}
  MaxCalls = 2
  None = None
INVARIANTS
  EdgesKept
  PromiseKept
PROPERTIES
  CalledForCause
  EdgesServed
