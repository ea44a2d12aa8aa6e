\* One place for clients; the clock wraps after four intervals.
CONSTANTS
  place = place
  Slots <- OnePlace
  Power <- LineAndBattery
  MaxFailures = 1
  ResetAfter = 2
  ClientTimeout = 1
  Wrap = 4
SPECIFICATION FairSpec
INVARIANTS
  StatusIsLastRead
  ConnectedIsFresh
PROPERTIES
  ComesBack
  SilentClientsLeave
