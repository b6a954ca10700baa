SPECIFICATION FairRemovalSpec
CONSTANTS
  MaxStarts = 2
  RemovalStarts = 1
  c1 = c1
  Calls = {c1}
  Kinds = {"pause", "cancel", "pauseAll", "remove"}
  MaxDeaths = 1
  MaxFaults = 1
INVARIANTS
  OnlyNewcomersOverlooked
  CompletedMeansRemoved
PROPERTIES
  DestroyedUnderRecord
  EverythingEnds
  RecoveryFinishes
CHECK_DEADLOCK FALSE
