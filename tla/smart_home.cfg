CONSTANTS
  Loads = 3
  Managers <- ThreeLoads
  Values <- OnOff
  InFlight = 2
  Entries <- CloudOrReports
SPECIFICATION FairSpec
INVARIANTS
  UnloadedIsQuiet
  NothingForgotten
PROPERTIES
  FloatsHeal
  StaysConnected
  LinkedReports
