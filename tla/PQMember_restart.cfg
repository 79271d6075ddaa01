CONSTANTS
  a = a b = b
  Values = {a, b}
  Nil = Nil
  None = None
  MaxRound = 2
  RoundHistory = 2
  MaxRestarts = 1
  Peers <- MCPeers
  Self <- MCSelf
  Proposer <- MCProposer
  OfferedVotes <- RestartVotes
  OfferedProposals <- RestartProposals
  OfferedCommitments = {}
SPECIFICATION Spec
INVARIANT LockInStep
CONSTRAINT DiesUnlocked
