SPECIFICATION Spec
CONSTANTS
  None = None
  Identities = {modelA, modelB}
  Requests = {r1}
  MaxOps = 3
  MaxCalls = 4
  Stalls = {}
  Publications = {}
SYMMETRY Symmetry
INVARIANTS
  OneLoaderAtATime
CHECK_DEADLOCK FALSE
