\* The answer arrives while the caller gives up.
\* When all have returned nothing is left to do.
CONSTANTS
  status = status
  command = command
  late = late
  Requests <- ThreeRequests
CHECK_DEADLOCK FALSE
SPECIFICATION Spec
INVARIANTS
  NeverNeither
