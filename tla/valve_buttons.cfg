\* Buttons and the restart button only, one message per loop pass.
CONSTANTS
  RunTime = 6
  Travel = 5
  Commands <- ButtonCommands
  OnePerPass = TRUE
SPECIFICATION ValveSpec
INVARIANTS
  ReportedPosition
PROPERTIES
  NoReversal
  ImplementsActuator
