SPECIFICATION FairSpec
CONSTANTS
  c1 = c1
  c2 = c2
  Callers = {c1, c2}
  Owners <- MCOwners
  Benchmark = "Benchmark"
  OwnerOf <- MCOwnerOf
  None = None
  chat1 = chat1
  chat2 = chat2
  vision1 = vision1
  bench = bench
  Instances = {chat1, bench}
  AtStart = {}
  CloseMayStall = TRUE
INVARIANTS
  BusyOnlyInBlock
  NotifiedOnlyWhenClosed
PROPERTIES
  HandoverReleases
  NobodyWaitsForever
