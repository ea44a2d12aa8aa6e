\* Three transfers at once.
\* When all have returned nothing is left to do.
CONSTANTS
  status = status
  command = command
  late = late
  Requests <- ThreeRequests
CHECK_DEADLOCK FALSE
SPECIFICATION FairSpec
INVARIANTS
  NoUseAfterFree
  LeaksOnlyCrossed
PROPERTIES
  CallsReturn
