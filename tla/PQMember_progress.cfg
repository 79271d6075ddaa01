CONSTANTS
  a = a b = b
  Values = {a, b}
  Nil = Nil
  None = None
  MaxRound = 1
  RoundHistory = 2
  MaxRestarts = 1
  Peers <- MCPeers
  Self <- MCSelf
  Proposer <- ProgressProposer
  OfferedVotes <- ProgressVotes
  OfferedProposals <- ProgressProposals
  OfferedCommitments = {a}
SPECIFICATION Spec
PROPERTIES LockKept RoundProgress
