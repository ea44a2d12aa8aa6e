\* Two loops, two addresses of which one looks like a part of the other.
CONSTANTS
  l1 = l1
  l2 = l2
  short = short
  long = long
  None = None
  Loops <- TwoLoops
  Addresses <- TwoAddresses
  Within <- Lookalikes
SPECIFICATION FairSpec
INVARIANTS
  LocalCanSpeak
  StoppedIsQuiet
PROPERTIES
  LocalReturns
