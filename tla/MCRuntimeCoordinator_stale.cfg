SPECIFICATION Spec
CONSTANTS
  c1 = c1
  Callers = {c1}
  Owners <- MCOwners
  Benchmark = "Benchmark"
  OwnerOf <- MCOwnerOf
  None = None
  chat1 = chat1
  chat2 = chat2
  vision1 = vision1
  bench = bench
  Instances = {chat1, vision1}
  AtStart = {chat1, vision1}
  CloseMayStall = TRUE
INVARIANTS
  NextStartsAfterClose
