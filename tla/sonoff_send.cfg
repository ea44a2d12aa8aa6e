\* Three bulk calls, or one and two uiActive.
CONSTANTS
  b1 = b1
  b2 = b2
  b3 = b3
  u1 = u1
  u2 = u2
  o1 = o1
  o2 = o2
  BulkCalls <- ThreeBulkCalls
  UiCalls <- TwoUiCalls
  Mixes <- BulkOrMixed
  Outlets <- TwoOutlets
  Values <- OnOff
  Wishes <- FirstAndLater
  None = None
  BulkDelay = 1
  Gap = 1
  UiGap = 3
  Timeout = 1
SPECIFICATION FairSpec
INVARIANTS
  NothingLost
  OnlineIsTrue
  NoWaiterLeaks
PROPERTIES
  Spaced
  ImplementsRemoteCall
  CallsEnd
