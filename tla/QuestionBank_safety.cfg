\* Three calls, four questions, pages of one row, two keys that share a question.
CONSTANTS
  c1 = c1
  c2 = c2
  c3 = c3
  t1 = t1
  t2 = t2
  tps = tps
  algebra = algebra
  NoHash = NoHash
  NoCall = NoCall
  Calls <- ThreeCalls
  Size = 4
  Texts <- TwoTexts
  Banks <- SomeBanks
  KeysOf <- KeysOfEach
  TagKeys <- OneTag
  Quota <- OneOfEach
  Limit = 1
  MaxAttempts = 1
  Micros = 2
  MaxStamp = 6
  MaxFaults = 1
SPECIFICATION Spec
INVARIANTS
  TypeOK
  PagesCoverListing
  AttemptsBounded
  SessionsAreSound
SYMMETRY CallSymmetry
CHECK_DEADLOCK FALSE
