CONSTANTS
  propose1 = propose1
  propose1again = propose1again
  propose2 = propose2
  lock1 = lock1
  lock2 = lock2
  support = support
  oppose = oppose
  vote2 = vote2
  alice = alice
  bob = bob
  None = None
  Proposals <- MCProposals
  Proposal <- MCProposal
  Txs <- MCTxs
  Tx <- MCTx
  Cycle = 2
  Budget = 2
  Hazards = {"restart", "refused", "verify", "refresh"}
  MaxHeight = 7
  MaxBlockTxs = 2
SPECIFICATION Spec
INVARIANTS IndexMatchesChain ViewMatchesIndex ChecksAgree PaidAsVoted
