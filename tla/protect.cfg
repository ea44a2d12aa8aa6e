\* Every kind of input, two kinds in one behaviour.
CONSTANTS
  RunTime = 6
  Travel = 5
  Commands <- NodeCommands
  OnePerPass = TRUE
  kitchen = kitchen
  bath = bath
  Sensors <- TwoSensors
  DriveTime = 5
  WaitTime = 4
  HoldTime = 1
  AnnounceTime = 1
  MaxRuns = 10
  Mixes <- HandledAndAnyTwo
  Handled <- HandledMixes
SPECIFICATION FairSpec
INVARIANTS
  BusyIsTrue
  ClosedMeansClosed
  LeakClosedIsTrue
  TestReportIsTrue
PROPERTIES
  LeakClosesWater
  RunsEnd
