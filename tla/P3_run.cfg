CONSTANTS
  NDays = 2
  a = a
  b = b
  Pois = {a, b}
  Plans <- MCPlans
  NoPlan = NoPlan
  Skeletons <- MCSkeletons
  MaxCore = 1
  Budget = 2
  MaxWorkers = 2
  MaxSteer = 2
SPECIFICATION Spec
CHECK_DEADLOCK FALSE
INVARIANTS PlansAgree ClaimsBacked FlagsConsumed
PROPERTIES ImplementsClaims RunEnds RunAdvances
