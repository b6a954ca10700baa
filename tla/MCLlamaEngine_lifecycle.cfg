SPECIFICATION FairSpec
CONSTANTS
  t1 = t1
  t2 = t2
  t3 = t3
  Threads = {t1, t2, t3}
  Loaders = {t1, t2}
  MaxInits = 2
  MaxGens = 1
  Overlaps = FALSE
  FreeMayFail = TRUE
INVARIANTS
  LeasedModelIsAlive
  ModelFilesStayOpen
  NothingIsLost
  StopReachesGeneration
  SomeoneGoesOn
PROPERTIES
  CloseEndsLoads
  CloseTerminates
