------------------------ MODULE MCGovernanceVoteIndex ------------------------
(***************************************************************************)
(* An instance of GovernanceVoteIndex for TLC: two proposals, of which the *)
(* second is paid alone in one cycle and competes with the first for the   *)
(* budget of the next; two transactions propose the first.  Each has a     *)
(* lock, and the first lock two casts.                                     *)
(***************************************************************************)
EXTENDS GovernanceVoteIndex

CONSTANTS propose1, propose1again, propose2, lock1, lock2, support, oppose, vote2, alice, bob

MCProposals == {1, 2}

MCProposal == <<[start |-> 6, count |-> 1, amount |-> 2], [start |-> 4, count |-> 2, amount |-> 1]>>

MCTxs == {propose1, propose1again, propose2, lock1, lock2, support, oppose, vote2}

Proposes(p) == [mode |-> "PROPOSAL", proposal |-> p]

MCTx == [t \in MCTxs |->
  CASE t \in {propose1, propose1again} -> Proposes(1)
    [] t = propose2 -> Proposes(2)
    [] t = lock1 -> [mode |-> "LOCK", proposal |-> 1, weight |-> 1, unlock |-> 10, owner |-> alice]
    [] t = lock2 -> [mode |-> "LOCK", proposal |-> 2, weight |-> 2, unlock |-> 11, owner |-> bob]
    [] t = support -> [mode |-> "CAST", proposal |-> 1, locks |-> {lock1}, direction |-> "yes",
                       owner |-> alice]
    [] t = oppose -> [mode |-> "CAST", proposal |-> 1, locks |-> {lock1}, direction |-> "no",
                      owner |-> alice]
    [] t = vote2 -> [mode |-> "CAST", proposal |-> 2, locks |-> {lock2}, direction |-> "yes",
                     owner |-> bob]]
=============================================================================
