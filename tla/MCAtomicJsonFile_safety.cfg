SPECIFICATION Spec
CONSTANTS
  d1 = d1
  d2 = d2
  d3 = d3
  Documents = {d1, d2, d3}
  Missing = Missing
  Bad = Bad
  Nothing = Nothing
  MaxDamage = 2
INVARIANTS
  PrimaryIsAuthority
PROPERTIES
  ImplementsDurable
  RecoveryIsStable
