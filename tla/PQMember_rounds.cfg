CONSTANTS
  a = a b = b
  Values = {a}
  Nil = Nil
  None = None
  MaxRound = 2
  RoundHistory = 2
  MaxRestarts = 0
  Peers <- MCPeers
  Self <- MCSelf
  Proposer <- MCProposer
  OfferedVotes <- ReportVotes
  OfferedProposals <- ReportProposals
  OfferedCommitments = {}
SPECIFICATION Spec
INVARIANTS TypeOK QuorumsRemembered VotesInWindow LockHasProof
PROPERTIES NoQuorumDropped SkipsOnQuorum LockKept
