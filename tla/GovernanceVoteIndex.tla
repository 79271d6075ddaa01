------------------------- MODULE GovernanceVoteIndex -------------------------
(***************************************************************************)
(* Proposals, locked-coin votes and treasury payments, as blocks connect   *)
(* and disconnect.                                                         *)
(*                                                                         *)
(* The same facts are kept twice.  CGovernanceVoteIndex keeps proposals,   *)
(* locks and tallies in EvoDB, inside the transaction that commits with    *)
(* the block (here: index).  The budget manager keeps proposals with their *)
(* votes in memory (here: budgetman); it is what blocks are checked        *)
(* against and what payments are computed from, and nothing rolls it back. *)
(*                                                                         *)
(* A thread that asks for the proposals refreshes the votes in memory from *)
(* the index.  It does not wait for the block under way and it reads what  *)
(* that block has written so far, so that it can come between the two      *)
(* writes of a cast and have memory count the cast twice.                  *)
(*                                                                         *)
(* The blocks offered are those that a node whose memory agrees with its   *)
(* index accepts, and those that fail half-way.  What a node that lost     *)
(* that agreement might accept against all others is left out, and so are  *)
(* signatures, fees, the coins of transactions, sums beyond 64 bits, a     *)
(* supply too low to pay the budget, a refresh that reads some tallies     *)
(* before EvoDB is rolled back and others after, and the RPC command       *)
(* checkbudgets.                                                           *)
(***************************************************************************)
EXTENDS Integers, Sequences, FiniteSets, SequencesExt, FiniteSetsExt

CONSTANTS
  Proposals,     \* by number, which compare as their hashes do
  Proposal,      \* Proposal[p]: [start, count, amount]
  Txs,
  Tx,            \* Tx[t]: what t does
  Cycle,         \* nBudgetCycleBlocks
  Budget,        \* GetTotalBudget
  Hazards,       \* which events may part memory from the index
  MaxHeight,     \* bounds the chain
  MaxBlockTxs,   \* bounds the transactions of a block
  None

Locks == {t \in Txs : Tx[t].mode = "LOCK"}

Directions == {"yes", "no"}

ASSUME GovernanceAssumption ==
  /\ Proposals \subseteq Nat
  /\ Cycle \in Nat \ {0}
  /\ {MaxHeight, MaxBlockTxs} \subseteq Nat
  /\ \A p \in Proposals :
       /\ Proposal[p].start \in Nat /\ Proposal[p].start % Cycle = 0
       /\ Proposal[p].count \in Nat \ {0}
  /\ IsFiniteSet(Txs)
  /\ \A t \in Txs :
       /\ Tx[t].mode \in {"PROPOSAL", "LOCK", "CAST"}
       /\ Tx[t].proposal \in Proposals
       /\ Tx[t].mode = "LOCK" => Tx[t].weight \in Nat \ {0}
       /\ Tx[t].mode = "CAST" => Tx[t].locks \subseteq Locks /\ Tx[t].direction \in Directions
  /\ Hazards \subseteq {"restart", "refused", "verify", "refresh"}
  /\ None \notin Proposals
  /\ None \notin {"unused"} \cup Directions

VARIABLES
  chain,       \* the active chain: [txs, paid] for each block
  index,       \* EvoDB: [proposals, locks, tally]
  budgetman,   \* memory: [proposals, votes]
  agreement    \* history: memory is "exact", "stale" in its votes, or "lost"

vars == <<chain, index, budgetman, agreement>>

Height == Len(chain)

NoVotes == [p \in Proposals |-> [d \in Directions |-> 0]]

Larger(a, b) == IF a >= b THEN a ELSE b

Mined == UNION {ToSet(chain[i].txs) : i \in DOMAIN chain}
-----------------------------------------------------------------------------
(* Payments.                                                               *)
Net(v) == v["yes"] - v["no"]

CycleStart(height) == height - (height % Cycle)

\* GetTotalPaymentCount is count while that is less than Cycle, as on every network.
Candidates(view, height) ==
  {p \in view.proposals :
     /\ Proposal[p].start <= CycleStart(height)
     /\ Net(view.votes[p]) > 0
     /\ (CycleStart(height) - Proposal[p].start) \div Cycle < Proposal[p].count}

(* The candidates by their net votes, then by hash, as far as the budget   *)
(* goes; net gives each candidate's votes.                                 *)
Winners(net) ==
  LET Before(p, q) == net[p] > net[q] \/ (net[p] = net[q] /\ p < q)
      Take(taken, p) ==
        IF Proposal[p].amount <= Budget - taken.allocated
        THEN [allocated |-> taken.allocated + Proposal[p].amount,
              winners |-> Append(taken.winners, p)]
        ELSE taken
  IN  FoldLeft(Take, [allocated |-> 0, winners |-> <<>>],
               SetToSortSeq(DOMAIN net, Before)).winners

\* The proposal that the block of this height pays, or None.
GetPQPayment(view, height) ==
  LET winners == Winners([p \in Candidates(view, height) |-> Net(view.votes[p])])
      paymentIndex == height % Cycle
  IN  IF paymentIndex < Len(winners) THEN winners[paymentIndex + 1] ELSE None

\* What memory should be, by the index.
IndexView(i) == [proposals |-> i.proposals, votes |-> i.tally]
-----------------------------------------------------------------------------
(* Each transaction of a block is first checked against the state before   *)
(* the block.  A lock that is neither in the index nor in the block may    *)
(* still be found in the mempool.                                          *)
\* Variant: votes are still taken in the block that starts the payments.
VotingOpenAtStart(p, height) == height <= Proposal[p].start

VotingOpen(p, height) == height < Proposal[p].start

BlockEnd(p) == Proposal[p].start + (Cycle + 1) * Proposal[p].count

LockFits(t, lock, height) ==
  /\ Tx[lock].proposal = Tx[t].proposal
  /\ Tx[lock].unlock > height
  /\ Tx[lock].owner = Tx[t].owner

CheckSpecialTx(t, i, view, height) ==
  LET p == Tx[t].proposal
  IN  CASE Tx[t].mode = "PROPOSAL" ->
             Proposal[p].start > height /\ p \notin view.proposals
        [] Tx[t].mode = "LOCK" ->
             /\ p \in view.proposals
             /\ VotingOpen(p, height)
             /\ Tx[t].unlock > BlockEnd(p)
        [] Tx[t].mode = "CAST" ->
             /\ p \in view.proposals
             /\ VotingOpen(p, height)
             /\ \A lock \in Tx[t].locks :
                  LockFits(t, lock, height) /\ i.locks[lock] \in {None, "unused"}

\* The transactions that the next block may have, and the blocks of them.
Checked(view) == {t \in Txs \ Mined : CheckSpecialTx(t, index, view, Height + 1)}

BlocksOf(txs) == {block \in SeqOf(txs, MaxBlockTxs) : IsInjective(block)}

\* Staged is the state of the locks that the cast is checked against.
CheckAndStageCast(t, staged, view, height) ==
  /\ Tx[t].proposal \in view.proposals
  /\ VotingOpen(Tx[t].proposal, height)
  /\ \A lock \in Tx[t].locks : LockFits(t, lock, height) /\ staged[lock] = "unused"

WeightOf(locks) == MapThenSumSet(LAMBDA lock : Tx[lock].weight, locks)

Weight(t) == WeightOf(Tx[t].locks)

Stage(locks, t, direction) ==
  [lock \in Locks |-> IF lock \in Tx[t].locks THEN direction ELSE locks[lock]]

(* Applying a transaction, to the index and to memory.                     *)
CanApply(t, i, view, height) ==
  CASE Tx[t].mode = "PROPOSAL" ->
         Proposal[Tx[t].proposal].start > height /\ Tx[t].proposal \notin view.proposals
    [] Tx[t].mode = "LOCK" -> i.locks[t] = None
    [] Tx[t].mode = "CAST" -> CheckAndStageCast(t, i.locks, view, height)

ApplyToIndex(t, i) ==
  CASE Tx[t].mode = "PROPOSAL" -> [i EXCEPT !.proposals = @ \cup {Tx[t].proposal}]
    [] Tx[t].mode = "LOCK" -> [i EXCEPT !.locks[t] = "unused"]
    [] Tx[t].mode = "CAST" ->
         [i EXCEPT !.locks = Stage(@, t, Tx[t].direction),
                   !.tally[Tx[t].proposal][Tx[t].direction] = @ + Weight(t)]

AddVotes(t, view) ==
  IF Tx[t].proposal \in view.proposals
  THEN [view EXCEPT !.votes[Tx[t].proposal][Tx[t].direction] = @ + Weight(t)]
  ELSE view

ApplyToMemory(t, view) ==
  CASE Tx[t].mode = "PROPOSAL" ->
         [view EXCEPT !.proposals = @ \cup {Tx[t].proposal},
                      !.votes[Tx[t].proposal] = [d \in Directions |-> 0]]
    [] Tx[t].mode = "LOCK" -> view
    [] Tx[t].mode = "CAST" -> AddVotes(t, view)

(* The votes of the proposals in memory, read again from the index.        *)
Refreshed(view, i) ==
  [view EXCEPT !.votes =
     [p \in Proposals |-> IF p \in view.proposals THEN i.tally[p] ELSE @[p]]]

(* A refresh while a block is processed comes at a moment <<t, when>> of a *)
(* cast t, between its writes to the index and to memory or after both,    *)
(* and reads the tally that t has just written.  It replaces all votes, so *)
(* that of several only the last one counts.  A bound: there is none while *)
(* memory is lost anyway.                                                  *)
Seen(moment, view, i, refreshed) ==
  IF moment \in refreshed THEN Refreshed(view, i) ELSE view

Refreshes(txs, moments) ==
  LET casts == {t \in txs : Tx[t].mode = "CAST"}
  IN  {{}} \cup {{m} : m \in IF "refresh" \in Hazards /\ agreement # "lost"
                           THEN casts \X moments ELSE {}}

Remember(t, view, written, refreshed) ==
  LET between == Seen(<<t, "between">>, view, written, refreshed)
  IN  Seen(<<t, "after">>, ApplyToMemory(t, between), written, refreshed)

\* The transactions in order, up to the first that is refused.
ProcessBlock(txs, i, view, height, refreshed) ==
  LET Step(s, t) ==
        IF s.ok /\ CanApply(t, s.index, s.view, height)
        THEN LET written == ApplyToIndex(t, s.index)
             IN  [ok |-> TRUE, index |-> written,
                  view |-> Remember(t, s.view, written, refreshed)]
        ELSE [s EXCEPT !.ok = FALSE]
  IN  FoldLeft(Step, [ok |-> TRUE, index |-> i, view |-> view], txs)

(* The other pass, for blocks that are only checked, keeps what the block  *)
(* adds beside the index.                                                  *)
\* Variant: the votes of the block's earlier casts are not staged.
JustCheckStepUnstaged(s, t, view, height) ==
  CASE Tx[t].mode = "PROPOSAL" ->
         [s EXCEPT !.ok = @ /\ Proposal[Tx[t].proposal].start > height
                            /\ Tx[t].proposal \notin view.proposals \cup s.proposalAdds,
                   !.proposalAdds = @ \cup {Tx[t].proposal}]
    [] Tx[t].mode = "LOCK" ->
         [s EXCEPT !.ok = @ /\ s.staged[t] = None, !.staged[t] = "unused"]
    [] Tx[t].mode = "CAST" ->
         [s EXCEPT !.ok = @ /\ CheckAndStageCast(t, s.staged, view, height)]

JustCheckStep(s, t, view, height) ==
  CASE Tx[t].mode = "PROPOSAL" ->
         [s EXCEPT !.ok = @ /\ Proposal[Tx[t].proposal].start > height
                            /\ Tx[t].proposal \notin view.proposals \cup s.proposalAdds,
                   !.proposalAdds = @ \cup {Tx[t].proposal}]
    [] Tx[t].mode = "LOCK" ->
         [s EXCEPT !.ok = @ /\ s.staged[t] = None, !.staged[t] = "unused"]
    [] Tx[t].mode = "CAST" ->
         [s EXCEPT !.ok = @ /\ CheckAndStageCast(t, s.staged, view, height),
                   !.staged = Stage(@, t, Tx[t].direction)]

JustCheck(txs, i, view, height) ==
  FoldLeft(LAMBDA s, t : JustCheckStep(s, t, view, height),
           [ok |-> TRUE, proposalAdds |-> {}, staged |-> i.locks], txs).ok

-----------------------------------------------------------------------------
(* Taking a transaction back.                                              *)
\* Variant: the lock keeps its vote.
UndoInIndexKeepingVote(t, i) ==
  CASE Tx[t].mode = "PROPOSAL" -> [i EXCEPT !.proposals = @ \ {Tx[t].proposal}]
    [] Tx[t].mode = "LOCK" -> [i EXCEPT !.locks[t] = None]
    [] Tx[t].mode = "CAST" ->
         [i EXCEPT !.tally[Tx[t].proposal][Tx[t].direction] = Larger(0, @ - Weight(t))]

UndoInIndex(t, i) ==
  CASE Tx[t].mode = "PROPOSAL" -> [i EXCEPT !.proposals = @ \ {Tx[t].proposal}]
    [] Tx[t].mode = "LOCK" -> [i EXCEPT !.locks[t] = None]
    [] Tx[t].mode = "CAST" ->
         [i EXCEPT !.locks = Stage(@, t, "unused"),
                   !.tally[Tx[t].proposal][Tx[t].direction] = Larger(0, @ - Weight(t))]

SubVotes(t, view) ==
  IF Tx[t].proposal \in view.proposals
  THEN [view EXCEPT !.votes[Tx[t].proposal][Tx[t].direction] = Larger(0, @ - Weight(t))]
  ELSE view

UndoInMemory(t, view) ==
  CASE Tx[t].mode = "PROPOSAL" ->
         [view EXCEPT !.proposals = @ \ {Tx[t].proposal},
                      !.votes[Tx[t].proposal] = [d \in Directions |-> 0]]
    [] Tx[t].mode = "LOCK" -> view
    [] Tx[t].mode = "CAST" -> SubVotes(t, view)

Forget(t, view, written, refreshed) ==
  LET between == Seen(<<t, "between">>, view, written, refreshed)
  IN  Seen(<<t, "after">>, UndoInMemory(t, between), written, refreshed)

UndoBlock(block, i, view, refreshed) ==
  LET Step(s, t) ==
        LET written == UndoInIndex(t, s.index)
        IN  [index |-> written, view |-> Forget(t, s.view, written, refreshed)]
  IN  FoldLeft(Step, [index |-> i, view |-> view], Reverse(block.txs))
-----------------------------------------------------------------------------
Init ==
  /\ chain = <<>>
  /\ index = [proposals |-> {}, locks |-> [lock \in Locks |-> None], tally |-> NoVotes]
  /\ budgetman = [proposals |-> {}, votes |-> NoVotes]
  /\ agreement = "exact"

(* A refresh between the two writes of a cast spoils the votes; one at any *)
(* other moment is one before or after a block that is connected or        *)
(* disconnected.                                                           *)
Torn(refreshed) == IF refreshed = {} THEN agreement ELSE "stale"

(* A block that the index of its parent allows, in its transactions and in *)
(* what it pays.                                                           *)
ConnectBlock ==
  LET truth == IndexView(index)
      height == Height + 1
      paid == GetPQPayment(budgetman, height)
  IN  /\ height <= MaxHeight
      /\ paid = GetPQPayment(truth, height)
      /\ \E txs \in BlocksOf(Checked(truth) \cap Checked(budgetman)) :
           /\ ProcessBlock(txs, index, truth, height, {}).ok
           /\ \E refreshed \in Refreshes(ToSet(txs), {"between"}) :
                LET processed == ProcessBlock(txs, index, budgetman, height, refreshed)
                IN  /\ processed.ok
                    /\ index' = processed.index
                    /\ budgetman' = processed.view
                    /\ agreement' = Torn(refreshed)
           /\ chain' = Append(chain, [txs |-> txs, paid |-> paid])

(* A block that passes the checks against its parent and is refused at one *)
(* of its transactions: the EvoDB transaction is rolled back, and what the *)
(* earlier ones did to memory stays.  A bound: after one such block memory  *)
(* has to be reloaded before there is another.                             *)
RefuseBlock ==
  /\ "refused" \in Hazards
  /\ agreement # "lost"
  /\ Height < MaxHeight
  /\ \E txs \in BlocksOf(Checked(budgetman)) :
     \E refreshed \in Refreshes(ToSet(txs), {"between", "after"}) :
       LET processed == ProcessBlock(txs, index, budgetman, Height + 1, refreshed)
       IN  /\ ~ processed.ok
           /\ budgetman' = processed.view
           /\ agreement' = IF processed.view = budgetman THEN agreement ELSE "lost"
  /\ UNCHANGED <<chain, index>>

DisconnectBlock ==
  /\ chain # <<>>
  /\ \E refreshed \in Refreshes(ToSet(Last(chain).txs), {"between"}) :
       LET undone == UndoBlock(Last(chain), index, budgetman, refreshed)
       IN  /\ chain' = Front(chain)
           /\ index' = undone.index
           /\ budgetman' = undone.view
           /\ agreement' = Torn(refreshed)

\* Variant: the proposals of the index are added to those in memory.
LoadProposalsUncleared ==
  [proposals |-> budgetman.proposals \cup index.proposals, votes |-> budgetman.votes]

\* The proposals of the index, each without votes.
LoadProposals == [proposals |-> index.proposals, votes |-> NoVotes]

(* The process stops and starts again.  After a crash it may start from an *)
(* earlier tip, which is where DisconnectBlock leads as well.              *)
Restart ==
  /\ "restart" \in Hazards
  /\ budgetman' = LoadProposals
  /\ agreement' = "stale"
  /\ UNCHANGED <<chain, index>>

(* The RPC command getbudgetinfo, or the governance page of the GUI, while *)
(* no block is under way.                                                  *)
GetAllProposalsOrdered ==
  /\ budgetman' = Refreshed(budgetman, index)
  /\ agreement' = IF agreement = "stale" THEN "exact" ELSE agreement
  /\ UNCHANGED <<chain, index>>

(* The RPC command verifychain disconnects the last blocks in a            *)
(* transaction that is rolled back; memory has no such transaction.        *)
VerifyDB(depth) ==
  /\ "verify" \in Hazards
  /\ depth <= Height
  /\ \E refreshed \in Refreshes(Mined, {"between", "after"}) :
       LET Back(s, n) == UndoBlock(chain[Height + 1 - n], s.index, s.view, refreshed)
           undone == FoldLeft(Back, [index |-> index, view |-> budgetman],
                              [n \in 1..depth |-> n])
       IN  /\ budgetman' = undone.view
           /\ agreement' = IF undone.view = budgetman THEN agreement ELSE "lost"
  /\ UNCHANGED <<chain, index>>

Next ==
  \/ ConnectBlock
  \/ RefuseBlock
  \/ DisconnectBlock
  \/ Restart
  \/ GetAllProposalsOrdered
  \/ \E depth \in 1..MaxHeight : VerifyDB(depth)

Spec == Init /\ [][Next]_vars
-----------------------------------------------------------------------------
(* ConnectBlock and DisconnectBlock keep the index a function of the       *)
(* active chain, whatever memory says: its proposals, its locks with the   *)
(* vote each has cast, at most one, and the weight of those votes.         *)
CastsWith(lock) == {t \in Mined : Tx[t].mode = "CAST" /\ lock \in Tx[t].locks}

IndexMatchesChain ==
  /\ index.proposals = {Tx[t].proposal : t \in {u \in Mined : Tx[u].mode = "PROPOSAL"}}
  /\ \A lock \in Locks :
       /\ Cardinality(CastsWith(lock)) <= 1
       /\ index.locks[lock] =
            IF lock \notin Mined THEN None
            ELSE IF CastsWith(lock) = {} THEN "unused"
            ELSE Tx[CHOOSE t \in CastsWith(lock) : TRUE].direction
  /\ \A p \in Proposals, d \in Directions :
       index.tally[p][d] =
         WeightOf({lock \in Locks : Tx[lock].proposal = p /\ index.locks[lock] = d})

(* Memory is exact from the start until the node restarts, refuses a block *)
(* half-way, verifies its chain, or refreshes its votes between the two    *)
(* writes of a cast.  A restart brings the proposals back, whatever        *)
(* happened before; it and such a refresh leave wrong votes, never wrong   *)
(* proposals, and the next refresh between two blocks mends them.  No      *)
(* block connected or disconnected in between changes that.                *)
ViewMatchesIndex ==
  /\ agreement \in {"exact", "stale"} => budgetman.proposals = index.proposals
  /\ agreement = "exact" => budgetman = IndexView(index)

(* The two passes of ProcessBlock, one for blocks that are only checked    *)
(* (a block template, for one) and one for blocks that are connected,      *)
(* accept the same blocks.                                                 *)
ChecksAgree ==
  \A txs \in BlocksOf(Checked(budgetman)) :
    JustCheck(txs, index, budgetman, Height + 1)
      <=> ProcessBlock(txs, index, budgetman, Height + 1, {}).ok

(* A complete budget cycle has paid each of its winners once, in the order *)
(* of the votes as they stand, and nobody else: no vote is taken once the  *)
(* payments have begun that it could reorder.                              *)
PaidAsVoted ==
  \A height \in 1..Height :
    height % Cycle = Cycle - 1 /\ height >= Cycle =>
      \A n \in 0..(Cycle - 1) :
        chain[height - n].paid = GetPQPayment(IndexView(index), height - n)

(* init.cpp: "Restore the proposal view that corresponds to the persisted  *)
(* chain tip", and doc/pq-only.md: "Reorganization and reindex restore     *)
(* proposals, locks, votes, and payments from the chain."  The payment     *)
(* that the node demands of the next block is the one its own chain gives. *)
PaymentFollowsChain ==
  GetPQPayment(budgetman, Height + 1) = GetPQPayment(IndexView(index), Height + 1)
=============================================================================
