CONSTANTS
  Heights = {1, 2}
  Rounds = {0, 1}
  Steps = {1, 2}
  Nil = Nil
  Values = {Nil, a}
  Signers = {1, 2}
  MaxRecords = 3
  Corrupt = Corrupt
  NoShadow = NoShadow
SPECIFICATION Spec
INVARIANTS TypeOK NeverEquivocates Reopenable NothingLost MemoryIsReplay
PROPERTY ImplementsSigningLog
