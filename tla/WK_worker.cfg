CONSTANTS
  NDays = 1
  p = p
  q = q
  Pois = {}
  Plans = {p, q}
  NoPlan = NoPlan
  Me = 1
  MaxIter = 3
  MaxSame = 2
  MaxRecovery = 3
  Keys = {"k"}
  MaxCalls = 2
  Silent = Silent
SPECIFICATION Spec
SYMMETRY PlanSymmetry
CHECK_DEADLOCK FALSE
INVARIANTS ContractKept LookupsBounded RoundsBounded
