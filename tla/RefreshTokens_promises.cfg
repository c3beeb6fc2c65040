\* Three requests of one account with one session: a rotation, a theft, two resets.
CONSTANTS
  t1 = t1
  t2 = t2
  t3 = t3
  f1 = f1
  f2 = f2
  r1 = r1
  r2 = r2
  r3 = r3
  Tokens <- MCTokens
  Families <- MCFamilies
  Requests <- MCRequests
SPECIFICATION Spec
INVARIANTS
  RevocationIsComplete
SYMMETRY TokenSymmetry
