\* Two readers that repeat, two writers, one of them bumping twice, one rejected command.
CONSTANTS
  r1 = r1
  r2 = r2
  w1 = w1
  w2 = w2
  Readers <- TwoReaders
  Writers <- TwoWriters
  Double <- OneDouble
  NoReader = NoReader
  Miss = Miss
  MaxFaults = 1
SPECIFICATION Spec
INVARIANTS
  TypeOK
  BumpIsBarrier
PROPERTIES
  EveryReaderReturns
