SPECIFICATION FairSpec
CONSTANTS
  old = old
  new = new
  backedUp = backedUp
  v1 = v1
  Sessions = {old}
  Saved = {old}
  Backup = {}
  Attached = {old}
  ViewModels = {v1}
  None = None
  MaxCrashes = 1
  MaxFaults = 1
INVARIANTS
  OrphansAreListed
PROPERTIES
  DeletionEnds
  CleanupIsFinished
CHECK_DEADLOCK FALSE
