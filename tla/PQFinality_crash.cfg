CONSTANTS
  c1 = c1 c2 = c2 c3 = c3 z = z
  a = a b = b
  Members = {c1, c2, c3, z}
  Correct = {c1, c2, c3}
  Unreliable = {c1}
  Values = {a, b}
  Nil = Nil
  None = None
  MaxRound = 1
SPECIFICATION Spec
SYMMETRY Symmetry
CONSTRAINT NoneFinal
INVARIANT IInv
PROPERTIES LockMovesOnProof VotesInOrder
\* Every member may be in its last round, or the height final for all.
CHECK_DEADLOCK FALSE
