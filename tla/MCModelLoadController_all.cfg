SPECIFICATION FairSpec
CONSTANTS
  None = None
  Identities = {modelA, modelB}
  Requests = {r1, r2}
  MaxOps = 2
  MaxCalls = 3
  Stalls = {1}
  Publications = {2}
INVARIANTS
  ReadyIsCurrent
  PredecessorEnded
PROPERTIES
  RequestsHitTheirTarget
  CallersAreAnswered
  LoaderTokenReleased
CHECK_DEADLOCK FALSE
