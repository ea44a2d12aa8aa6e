\* Every kind of main device, two requests of a sort in flight.
CONSTANTS
  c1 = c1
  Commands <- OneCommand
  Kinds <- AllKinds
  MaxRequests = 2
SPECIFICATION FairSpec
INVARIANTS
  AvailabilityTrue
PROPERTIES
  LocalComesBack
  LocalGoneIsNoticed
  CommandsArrive
