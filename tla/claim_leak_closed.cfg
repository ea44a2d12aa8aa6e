\* A leak arrives while the water is being opened, and the user closes it.
CONSTANTS
  RunTime = 6
  Travel = 5
  Commands <- NoCommands
  OnePerPass = TRUE
  kitchen = kitchen
  bath = bath
  Sensors <- TwoSensors
  DriveTime = 5
  WaitTime = 4
  HoldTime = 1
  AnnounceTime = 1
  MaxRuns = 10
  Mixes <- LeakAndClicks
  Handled <- LeakAndClicks
SPECIFICATION Spec
INVARIANTS
  LeakClosedIsTrue
