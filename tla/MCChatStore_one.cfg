SPECIFICATION Spec
CONSTANTS
  old = old
  new = new
  backedUp = backedUp
  v1 = v1
  Sessions = {old, new, backedUp}
  Saved = {old}
  Backup = {backedUp}
  Attached = {}
  ViewModels = {v1}
  None = None
  MaxCrashes = 1
  MaxFaults = 1
INVARIANTS
  TypeOK
PROPERTIES
  HistoryKept
  DeletedStaysDeleted
CHECK_DEADLOCK FALSE
