\* Every command at any time, several messages in one loop pass.
CONSTANTS
  RunTime = 3
  Travel = 2
  Commands <- AllCommands
  OnePerPass = FALSE
SPECIFICATION FairValveSpec
INVARIANTS
  MotorGuarded
PROPERTIES
  MotorStops
