\* Three calls, one key or none, a discounted bundle and a free course, one Redis outage.
CONSTANTS
  c1 = c1
  c2 = c2
  c3 = c3
  k1 = k1
  NoCall = NoCall
  Calls <- ThreeCalls
  Keys <- OneKey
  Bodies <- TwoBodies
  Limits <- SomeLimits
  Attempts = 2
  MaxOutages = 1
SPECIFICATION Spec
INVARIANTS
  TypeOK
  DiscountsWithinLimit
  NoSecondOrder
  KeyAnswersAsLastUsed
SYMMETRY CallSymmetry
CHECK_DEADLOCK FALSE
