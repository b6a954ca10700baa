SPECIFICATION Spec
CONSTANTS
  None = None
  Identities = {modelA, modelB}
  Requests = {r1}
  MaxOps = 2
  MaxCalls = 4
  Stalls = {}
  Publications = {1, 2}
SYMMETRY Symmetry
PROPERTIES
  ReadyStaysReady
CHECK_DEADLOCK FALSE
