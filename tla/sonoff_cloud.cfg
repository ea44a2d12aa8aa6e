\* Three loads of the entry, two outages.
\* An entry that stays unloaded does nothing more.
CONSTANTS
  t1 = t1
  t2 = t2
  t3 = t3
  Tasks <- ThreeTasks
  NoTask = NoTask
  Modes <- BothModes
  MaxOutages = 2
CHECK_DEADLOCK FALSE
SPECIFICATION FairSpec
INVARIANTS
  QuietWhenUnloaded
PROPERTIES
  SetupEnds
  Reconnects
  OutageIsShown
