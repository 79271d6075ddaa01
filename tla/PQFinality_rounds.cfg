CONSTANTS
  c1 = c1 c2 = c2 c3 = c3 z = z
  a = a b = b
  Members = {c1, c2, c3, z}
  Correct = {c1, c2, c3}
  Unreliable = {}
  Values = {a, b}
  Nil = Nil
  None = None
  MaxRound = 1
SPECIFICATION Spec
SYMMETRY Symmetry
INVARIANTS Agreement ProofBlocksEarlierRounds LockRespected GateOpen
PROPERTY ImplementsConsensus
\* Every member may be in its last round, or the height final for all.
CHECK_DEADLOCK FALSE
