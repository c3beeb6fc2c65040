\* Three requests of one account; two families, three tokens between them.
CONSTANTS
  t1 = t1
  t2 = t2
  t3 = t3
  f1 = f1
  f2 = f2
  r1 = r1
  r2 = r2
  r3 = r3
  Tokens <- MCTokens
  Families <- MCFamilies
  Requests <- MCRequests
SPECIFICATION Spec
INVARIANTS
  TypeOK
  OneSuccessor
  OldTokensEnd
PROPERTIES
  ImplementsBaton
SYMMETRY TokenSymmetry
