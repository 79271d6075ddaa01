# Post-quantum finality of OrganicLife Core: TLA+ models and proofs

OrganicLife Core is a C++ node of the Bitcoin/PIVX family. What it adds to that
family, and what this project is about, is *finality by a post-quantum
committee*: registered operators vote with ML-DSA signatures on the block of
each height, a quorum of precommits is a certificate, and a certified block can
never be reorganized away. Around it stand the registry that the committees are drawn
from and a treasury whose proposals and votes are transactions. They are described in
`src/doc/pq-only.md` and implemented in `src/src/pq*.cpp`, `src/src/evo/` and
`src/src/budget/`, with hooks in `validation.cpp`, `init.cpp`
and `net_processing.cpp`. The models are translated from those files; the line
ranges of every definition are in the `map` of `PROJECT.json`.

## Inventory

| component | source | state | operations | what makes it correct |
| --- | --- | --- | --- | --- |
| quorum rules | `pqquorum.cpp` | none | threshold, canonical signers, certificate verification | two quorums share a correct member |
| round state | `pqquorum.cpp` | round, lock, votes of the round, committed value; volatile | Restore, Advance, Prevote, Precommit, Commit | a lock yields only to a newer proof |
| driver | `pqfinality.cpp` | working height, votes, proposals, best proof, inbox, deadlines | Process: drain the inbox, decide, time out; propose; accept commitments | agreement; a vote is durable before it is sent; a restart loses no promise |
| signing journal | `pqjournal.cpp`, `pqjournal_io.cpp` | append-only file and its replayed memory | sign a vote, record a lock, a proof, a final height; compact; open | never two signatures for one height, round and step |
| anchors | `pqanchors.cpp` | the mirror in EvoDB (rolled back with the chain) and the saved store (never rolled back) | record and undo in a block; write the store; recovery checkpoints; committee selection | a saved anchor is never contradicted or forgotten |
| chain activation | `validation.cpp` | block index, active chain, coins, EvoDB | choose a candidate, disconnect, connect, flush, invalidate | no finalized block is disconnected |
| startup | `init.cpp` | none | replay, reindex, activate, reconcile with the store | a restart is not refused by the node's own doing |
| operator registry | `evo/pqmasternode.cpp` | registrations, their reverse index and undo entries, in EvoDB | register, update the operator or service, revoke, spend the collateral, pay; undo each | the same registry after any reorganization; nothing shared or leaked; operators paid in turn |
| service heartbeats | `pqservice*.cpp` | a pool of received heartbeats; what blocks carry is in the registry | check, carry in a block, undo; relay and rate limits | only the operator and service of today keep a registration alive |
| governance votes | `evo/governancevoteindex.cpp`, `evo/specialtx_validation.cpp` | proposals, locks and tallies in EvoDB | apply, only check, undo, load | the index is a function of the chain; a locked coin votes once |
| budget and payments | `budget/`, `masternode-payments.cpp` | proposals with votes, in memory only | add, remove, count, choose the payment of a height | memory agrees with the index; each winner is paid once |
| the inherited node | `net*`, `txmempool`, `wallet/`, `llmq/`, `spork.cpp`, `qt/` | | | not specific to this program |

How they interact: one driver thread (`Manager::Process`, every 250 ms or when
woken) takes `cs_main`, reads the saved tip and the active chain, drains the
inbox that network threads fill, asks `RoundState` for a decision, records it in
the journal, and only then broadcasts. A precommit quorum goes through
`RecordCommitment`: flush chain state, journal the height as final, write the
saved anchor. A staker later publishes the certificate in a coinbase; connecting
that *carrier* records the anchor in the mirror, flushes, and writes the store
too. Activation, invalidation and startup consult the saved anchors.

Who is in the committee is chain state: every block brings the registry up to date (its
payment, its heartbeats, then its transactions with the collaterals they spend), the
committee is selected from it, and a snapshot is kept of each change. The treasury is
chain state as well, but kept twice: tallies in EvoDB, and in memory the proposals with
the votes that payments are computed from.

What is hard: members that sign anything and messages in any order; a crash
between the writes of one decision; storage that fails or lies in the cache;
two copies of the same fact (mirror and store) that advance at different times
and have different lives; activations that run while finality advances. And chain state
that must be undone exactly, by code other than the one that did it, also when a block
fails half-way or was connected only to be checked.
`PROJECT.json` lists these hazards line by line with the properties that catch
them, and says of the others why none does yet.

## Modules

    PQQuorum        thresholds and certificates        PQQuorumProofs
    PQRoundState    RoundState as operators            PQQuorumProofs
    PQFinality      a committee on one height          PQFinalityProofs   MCPQFinality
       extends PQRoundState, PQQuorum; implements PQConsensus
    PQConsensus     one value is chosen, only it is finalized
    PQMember        the driver of one member of it     PQMemberProofs     MCPQMember
       extends PQRoundState, PQQuorum
    PQJournal       the journal on a failing disk     PQJournalProofs
       implements PQSigningLog
    PQSigningLog    an atomic log that never fails
    PQAnchors       one node's chain, mirror and       PQAnchorsProofs    MCPQAnchors
       saved anchors
    PQMasternode    the registry's operations          PQMasternodeProofs
    PQRegistry      the registry and the committees    PQRegistryProofs   MCPQRegistry
       as blocks come and go; extends PQMasternode
    GovernanceVoteIndex   proposals, votes and         GovernanceVoteIndexProofs
       payments, in the index and in memory                               MCGovernanceVoteIndex

The detailed modules meet at their interfaces. PQMember refines the member of
PQFinality where that one is coarse: which votes and proofs a member still has, when it
is due to act, in which order it writes. PQFinality assumes of a
journal what PQSigningLog promises and PQJournal is shown to implement. PQAnchors
assumes of the committee one certified block per height, each a child of the one
before or of the emergency checkpoint, which is what PQFinality's agreement gives for each height. PQRegistry shows
what all of them take for granted: that the committee of a height is the same for every
node that has the block, however it came to its chain.

### PQFinality

One height, a committee `Members`, of which `Correct` run this code (the rest, less
than a third, sign anything at any time) and `Unreliable` may also restart or see
their writes and signer fail. `state[m]` is the RoundState, `lock`,
`prevotes`, `precommits` and `finalized` are the journal. Actions are the decisions
of a pass of `Drive` (`PrevoteProposal`, `PrevoteNil`, `PrecommitQuorum`,
`PrecommitNil`, `Commit`, `AdvanceRound`), `AcceptCommitment` and `Restart`.
`JournalVote` follows the code's order: decide in memory, compare the journal's
lock, record a changed lock, record the vote; each may fail and what came before
it stays.

Abstractions, each of which allows more than the code does:

- The network is not a variable. A certificate exists when enough members have
  journalled (or, incorrect ones, may have signed) the vote; a member may act on
  any that exists, in any order, late or never. A member's lost inbox, the first-seen
  rule for votes, the window of `ROUND_HISTORY` rounds and the relay are particular cases.
- Timers are gone: nil votes and round advances may happen at any time.
- Any block may be the member's local one in each step, which covers
  reorganizations between the steps of a round.
- After a failed append the real journal answers nothing until the process
  restarts; here the member may go on, which is weaker.
- A proposal's signature and its proposer's turn are not checked, and which
  proof a restart finds is any that it may have known.
- A journal without a lock is one with `NoLock`; the code makes the same identification
  in the comparison of `JournalVote` (and not in `RecordLock`: see `RecordLockAccepts`).

### PQMember

One member, `Self`, on one height; its peers are the set of verified messages they may
send (`OfferedVotes`, `OfferedProposals`, `OfferedCommitments`), in any order, any number of
times or never, contradictory ones included. `rs` is the RoundState; `votes`, `best`, `future`,
`proposal` and `futureProposal` are the fields of `Height`; `lock`, `proof`, `signed` and `closed`
are what the journal holds for the height.

A pass of `Process` is cut into its messages (`AcceptVote`, `AcceptFutureVote`,
`AcceptProposal`, `AcceptCommitment`), the recording of the quorums among them
(`PersistPrevotes`, one statement a step because the process may die between two), and the
decisions of `Drive`, each enabled when the code would reach it. `changed` is
`changedPrevotes`: decisions wait until it is empty, and so does a vote of a future round.
`due` counts the deadlines of the round that have passed. A failed write sets `mute`, which only
a restart clears. `Restart` also stands for a height that is dropped and rebuilt in a
running process, for a journal that works.

Left out: which signatures a proof has (only that a proof may be written again with
more), the numbers 16, 64 and 401, messages that do not verify, passive nodes, and what follows
a commitment. A deferred commitment is retried in the model as in the code, and a crash or a
failed write may leave the height closed in the journal and its anchor not saved.

### PQJournal

`file` is what the operating system would read back, `synced` how much of it is on
the disk for certain, `shadow` the file that the directory may still name after a
rename that was not flushed. The code's mutex makes operations atomic to callers,
so each action is an operation with one outcome per place where it can fail; an
outcome that fails poisons the journal (`open` becomes false), and dying in the
middle is that outcome followed by `Exit` or `PowerLoss`. `CrashImages` are the files a
power loss may leave. `released` is a history variable: the votes whose signature any
caller could have obtained. Left out: the header and its binding to a genesis and key,
the hash chain (it detects damage the model's disk does not do), the lifetime lock, and
first use. A successful flush is taken to make all earlier writes durable. The size limit
is counted in records instead of bytes. `Contents` says at once what the code's loop over the
records leaves in its maps (all votes, the last lock and proof of each height, the last
final record), and `Readable` that each record passed its test against those before it.

### PQAnchors

One node. `tip` and `mirror` are chain state in memory and `disk` is its flushed
image (`Broken` when a crash hit between the coins and EvoDB, which only a reindex
repairs); `store` and `journal` are durable at once. `target` is the activation
under way; it is a step for each block disconnected or connected because the node
may die between them. `Certify` is the committee. The tree of blocks and
the certificates they carry are constants; the node learns blocks in any order. Below a block
of `Empty` finality ends for want of members; `ReconcileRecovery` is a start with the
emergency checkpoint that administrators agreed on (`Recovery`), and a saved anchor there is its
marker. Any start may have the argument or not. Left out: pruning and `ReconsiderBlock`. A block's work is its height, and the candidate is any better
allowed block where the code takes the best. After an activation that failed the
model lets other events in before the fallback, which the code does under one lock.

### PQMasternode and PQRegistry

PQMasternode has the operations of `Index` as operators on the registry: its records, the
reverse index of every collateral, key and service, and the undo entries that each
operation writes. A registration replaces those whose properties it takes over, and
a spent collateral ends one. `Apply`, `Beat` and `Pay` are the three kinds of change
and `Undo`, `UndoBeat` and `UndoPayment` take them back, guarded by what the code
compares first. Keys, services and collaterals are model values; a signature is the
key that signed.

PQRegistry connects and disconnects blocks, in steps of the code's order: payment,
heartbeats, transactions one at a time, committee snapshot. `ConnectTip` commits them and
`Abandon` drops them at any of the steps, for a block that fails or was connected only to
be checked. `DisconnectTip` commits the same steps taken back. The snapshots are linked, one for
each change of the committee, and `CommitteeAt` follows the links. Left out: the amounts of payments,
encodings, the relay of heartbeats.

### GovernanceVoteIndex

`index` is what EvoDB has (proposals, locks with the vote each has cast, tallies) and
`budgetman` the proposals with their votes in memory. A block is applied as a fold over its
transactions, as `ProcessBlock` does, against memory for the proposals and against the
index for the locks. `RefuseBlock` is one that fails half-way, `VerifyDB` what `verifychain`
undoes: in both the index rolls back and memory does not. `Restart` is `LoadProposals`,
`GetAllProposalsOrdered` the refresh of votes that only a user asks for. `agreement` is a
history variable: memory is known to be exact, or stale (the right proposals, maybe with wrong
votes), or lost.

The refresh is a step of another thread. It takes `cs_proposals` and not `cs_main`
(`rpc/pqgovernance.cpp:316`, `budgetmanager.cpp:945`), and `CEvoDB::Read` returns what the block
under way has written (`evodb.h:66-70`). `ApplyCastTx` writes the tally
(`governancevoteindex.cpp:289`) before it adds the votes in memory (292), and `UndoCastTx` (365, 370)
likewise: a refresh in between makes memory count the cast twice, or subtract it twice. `ProcessBlock`
and `UndoBlock` therefore take the moments at which a refresh comes, and `Remember` and `Forget` make
it. Only casts have such moments, as a refresh changes votes and no two writes of another transaction
concern them; one after both writes is, for a block that stays, a refresh before or after
the block, and is kept for those that are rolled back. A refresh replaces every vote, so of several in
one block only the last counts, and one is enough. It holds `cs_proposals` from end to end, so the
second write of a cast waits for it, and what it reads is the index at one of these moments. Two
things are left out: a refresh within a block while memory is lost anyway (a bound), and one that
overlaps the roll-back of EvoDB itself and reads some tallies before and others after it.

`Candidates` has `count` for `GetTotalPaymentCount`, which is `((Cycle + 1) * count) \div Cycle`: the
same while `count < Cycle`, and every network has a cycle of at least 144 blocks and at most 26
payments.

The chain is that of a network whose nodes agree: a block is one that both the true index and this
node's memory accept. What a node whose memory is wrong might build for itself is left out.
After a refused block that changed memory, there is no second one until a restart.

## Runs

| run | question | distinct states |
| --- | --- | --- |
| `PQFinality_rounds` | are blocks agreed on, locks respected, votes accepted, and is it consensus? | 129,569 |
| `PQFinality_crash` | do the invariant and the order of votes survive restarts and failing writes? | 839,000 |
| `PQMember_rounds` | does a member keep what it needs when it changes rounds, and when may it skip one? | 975,769 |
| `PQMember_restart` | does its lock stay the journalled one, so that it can vote? **No**, see Findings | 22-state trace |
| `PQMember_progress` | does it leave a round that does not decide, and keep its lock while writes fail? | 366,848 |
| `PQJournal` | is the journal an atomic log, whatever fails? | 273,338 |
| `PQAnchors` | are saved anchors kept and compatible with the chain? on three networks: a pinned bootstrap with competing certified branches, an automatic one, where nothing is saved before the first certificate, and an emergency checkpoint beyond a dead end | 809,642 |
| `PQAnchors_interrupted` | is a finalized block retained? **No**, see Findings | 16-state trace |
| `PQAnchors_reindex` | does a reindex rebuild the chain where a certificate is published above the checkpoint that follows it? **No**, see Findings | 17-state trace |
| `PQRegistry` | are registry, committees, payments and liveness a function of the chain? | 159,915 |
| `GovernanceVoteIndex` | are index, memory and payments, wherever the votes are refreshed? | 121,187 |
| `GovernanceVoteIndex_restart` | does a node still know what to pay after a restart? **No**, see Findings | 5-state trace |

Bounds, and why they show something:

- *Four members, one incorrect* is `MIN_MEMBERS`, where the threshold (3) is tightest. The
  theorems hold for every size.
- *Two blocks* suffice for disagreement. *Two rounds* let a lock of round 0 meet a
  proof of it in round 1; all four invariants break there when a rule of the lock does. Longer
  histories of locks taken and released are left to the proofs, which have no bound on
  rounds. In the crash run nothing follows a finalization (`NoneFinal`), a constraint on
  size only that the proofs do not have.
- *Symmetry* permutes correct members of equal reliability and blocks. None of the
  checked formulas tells them apart, and no liveness is checked under it.
- The finality runs switch deadlock checking off: at the bound on rounds, or with the
  height final everywhere, the members really have nothing left to do.
- *Journal*: two heights (one that gets finalized and one that stays live), two rounds,
  both steps, two values, three records: a compaction may fill the file, and a partial
  record may follow any other.
- *Member*: it keeps two rounds of three (the code keeps four of 2^32), so that a round is
  forgotten. In `PQMember_rounds` its peers can take it to round 1 or at once to round 2,
  there is one block and nothing restarts, which leaves the state space to the orders of
  messages and writes; `PQMember_progress` has an equivocating peer, two blocks, two rounds,
  a restart and a finalization. `PQMember_restart` has three rounds, two blocks, and a proof that
  comes with a proposal before its votes do; `DiesUnlocked` leaves out failing writes, and
  deaths before an unlock, from the search for its trace only. The theorems have none of these bounds.
- *Anchors*: the seven-block tree has two heights with certificates; that of height 1 is
  carried on three branches (and is invalid on those without the certified block), one of
  which forks between the two heights. The five-block tree has a certified branch that is
  shorter than the other. In the third network two branches compete above the checkpoint, and
  the certificate of the height after it is carried by one of them.
- *Registry*: eight transactions, so that a registration is revoked, given another operator,
  brought back, ended by its coin and replaced in the same transaction by one that takes
  over its keys and service, while two others compete for its place in the payment queue.
  Four blocks of at most two transactions and one heartbeat let liveness, which lasts two blocks,
  lapse and return. A committee of one shows a committee that is there, changes and is gone.
- *Governance*: a cycle of two heights and seven blocks: proposals and votes before height 4, a
  cycle with one winner, and one in which two compete for a budget that pays only one of
  them. Two transactions make the same proposal (a block with both fails half-way), and two casts
  use the same lock.

Every property has a mutant, a plausible bug of a mapped definition, under which TLC
finds it violated (`PROJECT.json`, `mutants`; the variants are marked in the modules).

## Findings

`PQAnchors_interrupted` checks `CheckpointRetained`, which states what
`src/doc/pq-only.md:187-193` promises, and TLC refutes it. `ConnectTip` flushes a
carrier with the mirror's new anchor and writes the saved anchor afterwards
(`validation.cpp:2414-2423`). If the node dies in between, or the write fails, the
certificate is in the chain but not in the store. Startup compares only the saved
tip with the chain (`init.cpp:827-839`) and does not write what the mirror has and
the store lacks; `RecordCommitment` refuses from then on as the mirror is ahead. Since
every guard against reorganization reads the store, a heavier branch from below
the finalized height then undoes the carrier and the finalized block.

`PQAnchors_reindex` checks `ReindexKeepsChain`, which states what `src/doc/pq-only.md:227-229`
says of `-reindex` ("to rebuild from existing block files. Reindex does not reset the chain"), and
TLC refutes it. An emergency checkpoint is accepted whatever came of the certificate of the saved
tip before it (`pqanchors.cpp:465-523`). If finality lagged, that certificate is carried by a block above the
checkpoint. The node that runs has both in its mirror; the node that reindexes restores the checkpoint
at its own block (`validation.cpp:1859-1867`), skips the heights before it, and then refuses the
carrier, because its certificate is not for the next height (`validation.cpp:1817-1818`). Nor can
the running node undo the carrier, whose anchor is not the mirror's last (`pqanchors.cpp:243-250`).
Where every certificate carried above the checkpoint is for a height above it (`OnTime`), reindex, undo
and a crash during the recovery are all sound: `PQAnchors` checks it, and `PQAnchorsProofs` proves it.

`PQMember_restart` checks `LockInStep`, which states what the comment on the unlock says
(`src/src/pqquorum.cpp:118-119`: its round is persisted so that "a later current-round precommit
can then relock durably"), and TLC refutes it. A member that dies, or whose signer refuses, between
the record of an unlock and the vote resumes in the round of the unlocking proof, which may be one
that it had left without a precommit (`pqfinality.cpp:990-993`). If it sees that proof's quorum
again, and by then the block is its own, it precommits; memory takes the lock and the journal refuses it,
because for that round it holds the unlock (`pqjournal.cpp:534-540`). Every later vote of the height
is then a lock mismatch (`pqfinality.cpp:507-515`), until the process restarts again.
Agreement does not suffer, and the member still moves through the rounds. `LockKept`, checked
and proved, says that this is the only way for memory and journal to part.

`GovernanceVoteIndex_restart` checks `PaymentFollowsChain`, which states what
`src/src/init.cpp:1742-1744` and `src/doc/pq-only.md:181-182` say, and TLC refutes it with a
proposal, a lock, a vote and a restart. `LoadProposals` brings the proposals back as they
were when proposed, without votes, and `GetPQPayment` counts the votes in memory. The
node then expects no treasury payment, or another one, and refuses the block that pays the
winner, until somebody calls `getbudgetinfo` or opens the governance page. That call is not
harmless either: between the two writes of a cast it makes memory count the cast twice, and the same
property fails without a restart (`Hazards = {"refresh"}`, 6 states). A block refused
half-way and `verifychain` part memory from the index as well, against the comment "Nothing
before this point should actually store to disk (or even memory)"
(`src/src/validation.cpp:2022`).

## Liveness and its fairness

`RoundProgress`: a member does not stay in a round that does not decide, even if its signer
refuses, its disk has failed or its peers are silent. It assumes weak fairness of
`PersistPrevotes`, `Drive` and `Tick`: `Run` calls `Process` in a loop for as long as the process
lives (`pqfinality.cpp:637-648`), a pass runs to its end, and the clock advances. Nothing is
assumed of messages, restarts are bounded by `MaxRestarts` and the rounds by `MaxRound`. It says
nothing of the decision itself: that needs a bound on message delays, and four members
of which one is silent need all three others, so that one of them locked on a block that the
others have reorganized away from can only be released by a proof that includes its own vote, which it casts for its lock.

## Proofs

`PQQuorumProofs`: `ThresholdBounds`, `QuorumsShareCorrectMember` (two quorums meet in a
correct member when fewer than a third are not), `CorrectMembersAreQuorum`, and the lemmas on round
states and rounds that the next two rest on.

`PQFinalityProofs`, for every committee of a supported size, every set of correct
and unreliable members, blocks and rounds, from `MemberAssumption`, `ValueAssumption`,
`RoundAssumption` and `ProofAssumption`:

- `TypeCorrect`: the type invariant.
- `Invariance`: `IInv`. Agreement is not inductive, because nothing in it says what a
  member with a lock may still do. The chain of parts: the journal's promises are in
  memory after any failure and restart (`MemoryCoversJournal`); a precommit has a prevote
  quorum (`PrecommitsCertified`); the lock accounts for every precommit, or a newer
  quorum has overruled it (`LockExplained`); hence a precommitted member prevotes
  against its block only after such a quorum (`LockRespected`); hence, by induction on
  the rounds between, a quorum for one value leaves too few members to commit another in
  any earlier round (`ProofBlocksEarlierRounds`).
- `AgreementHolds`, `LockRespectedHolds`, `ProofBlocksEarlierRoundsHolds` follow from it and
  from the intersection of quorums; `VotesInOrderHolds` is an action property from the
  same invariant.
- `GateStaysOpen`: where nothing fails, the journal's lock never disagrees with memory
  and no precommit is refused for its lock.
  It has an invariant of its own, on the agreement of the lock in memory and on disk.
- `Refinement`: every step is a step of PQConsensus or leaves it unchanged.

`PQMemberProofs`, for every committee of a supported size, number of rounds, window of rounds,
and set of messages that the peers may send, with any number of restarts and failing writes,
from the same assumptions and `OfferAssumption`. The inductive invariant is `MemberInv`. Its parts: what
every table holds and for which rounds (`TypeOK`, `TablesOK`, `LocksBehind`, `VotesInWindow`); while the
journal can be written, it has the proof that memory has (`ProofInStep`); the proof of a proposal is
recorded before the proposal is used (`PolcRemembered`); a quorum among the votes that is
not recorded is due to be (`QuorumsQueued`). They are what `LockHasProof` needs when a vote
moves the lock, and what `NoQuorumDropped` needs when a round is left.

- `TypeCorrect`, `VotesInWindowHolds`, `LockHasProofHolds`, `QuorumsRememberedHolds`.
- `NoQuorumDroppedHolds`: one member's votes are no quorum, and every other quorum is recorded
  before its votes go.
- `SkipsOnQuorumHolds`, by counting senders: reports are one for each sender.
- `LockKeptHolds`, and `LockInStepUntilRestart`: what `PQMember_restart` refutes holds for a
  member that has not restarted.

`PQMasternodeProofs`, for every registry that is well formed, from `RegistryAssumption`:
`UndoRevertsApply`, `UndoRevertsBeat`, `UndoRevertsPay`: what a transaction, the heartbeats or the
payment of a block did, their undo accepts and gives back, undo entries and reverse index
included.

`PQRegistryProofs`, for chains of any length and blocks of any size, from
`RegistryAssumption` and `ChainAssumption` (the chain starts at a height, and the value for "no snapshot"
is none of the snapshots):

- `TypeCorrect`: the registry is well formed at every step of every block.
- `IndexStaysExact`: each property has the one owner that the records say, so that none is
  shared and none is lost.
- `UndoIsExact`: each step back gives the registry that the step forward began with. The inductive
  invariant, `RInv`, says of every block of the chain, by the history variable `past`, that its steps
  lead from one registry to the next; the three theorems above then turn each of them round.
- `CommitteesRemembered`: the committee of every height of the chain is the one that the registry of that
  height gave. A snapshot is stored only when the committee changes, so the invariant (`SInv`) says which
  heights have one, that each names the one before it, and that between two of them the
  committee stayed the same; and it says so of the committed snapshots and of those of the block under way.
- `CollateralStaysHeld` and `HeartbeatsAreCarried`: a property of the tip that must hold again after an undo
  has to hold of every registry the chain went through (`QInv`): each collateral is a coin that is unspent at
  that point of the block, and each last heartbeat is the newest carried up to it.
- `PaidInOrder`: nobody is paid before one that was already waiting. The invariant (`TInv`) relates each
  registry of the chain to the blocks before it: every payment of the chain is in its books, and no place in the
  queue was taken later than its block. `QuietStep` says that after the payment nothing in a block moves a
  masternode that keeps its service; `TurnTaken` draws the conclusion from the order of `FindPayee`.

`PQJournalProofs`, for any heights, rounds, values and size of the file, from `JournalAssumption`:

- `TypeCorrect`, `NeverEquivocatesHolds`, `ReopenableHolds`, `NothingLostHolds`, `MemoryIsReplayHolds`: every
  invariant of the run. The inductive invariant, `IInv`, is about the files that a power loss may leave at any time
  (`ImagesOf`): each can be read, and holds what the journal last answered from, and at most one record more, which
  is one that could be written then (`Found`). `Promised` adds that the votes given out above the final height are in
  memory: hence a vote is signed only when no other for its height, round and step has been.
  The rest is about files: what one more record changes (`ReplayAppend`), and that a
  compacted file is read as the memory that it was written from and fits (`CompactedReplay`, `CompactionFits`).
- `Refinement`: each step is a step of PQSigningLog or changes none of its answers. A record that a failed
  append or compaction left behind takes effect when the file is opened again; that there is at most one is what the
  proof needs from `Found`.

`PQAnchorsProofs`, for every tree of blocks, whatever certificates they carry, wherever finality ends, and every
network, seeded or not and with or without an emergency checkpoint. It rests on `TreeAssumption`,
`ChainAssumption` (the equations that define `ChainOf`, a recursive function) and `RecoveryAssumption` (administrators
approve a checkpoint only beyond a block at which finality had ended). TLC evaluates all three on the run's trees.

- `TypeCorrect`.
- `SavedForEverHolds`: no anchor leaves the saved store or is replaced in it.
- `SavedAnchorsHoldHolds`: saved anchors do not contradict one another or the committee, and a node
  that is up has the newest on its chain.
- `MirrorMatchesChainHolds`: the mirror is what the certificates on the chain say, in memory and in the flushed image.
- `RestartAcceptedHolds`, `NeverForcedToAbortHolds`, `ReindexKeepsChainHolds`: a node starts again after any crash,
  never begins to undo what it refuses to undo, and accepts its own chain once more. They are stated as
  `OnTime => ...`: the certificates carried by blocks above an emergency checkpoint are for heights above it. On a
  network without a checkpoint `OnTime` says nothing, and it holds on the networks of the `PQAnchors` run. It is needed: on
  the network of `PQAnchors_reindex`, where a late certificate is carried above the checkpoint, TLC refutes all
  three. They rest on `BrokenAssumption` too (the value for a refused chain is none of the others).

`SavedAnchorsHold` is not inductive: it does not say why the next certificate or the checkpoint should fit the
last. `IInv` adds that each block the committee certified is of its own height and is a descendant of the checkpoint or
has no dead end below it, as a block certified without the checkpoint must (`CertifiedOK`); that what is saved is on one chain, each anchor at its own height
(`SavedOK`); that the mirror's heights increase, without a gap unless the checkpoint is in it, and that its carriers
are on the chain (`MirrorOK`); and that the checkpoint is in the mirror, of memory and of the flushed image,
once something above it is saved (`Restored`).

For the last three, the invariant must also say what an activation may still undo: a target that a node has
chosen is allowed by the saved anchors at every carrier on its way (`Led`, `Fits`), a carrier that may be undone
holds the mirror's last anchor, and a flushed image leads to the saved tip or is led to by it.

`GovernanceVoteIndexProofs`, for any proposals, transactions, cycle and length of the chain, from
`GovernanceAssumption`. The inductive invariant, `GInv`, gives the index in closed form, as a function of the
*set* of mined transactions (`IndexFrom`): tallies are sums of weights over the locks that voted. It holds because
what is mined is consistent (`Legal`: a proposal once, a cast only of locks of its own proposal, a lock cast once),
and undo finds what it needs because nothing was mined before what it counts on (`BlockOK`, `Needs`). Of memory it
says what restarts, refused blocks, `verifychain` and refreshes between the two writes of a cast leave of the
agreement. A run of the fold goes from one pair of index and memory to the next, and each lemma about such
a run says what holds for any moments of a refresh (types, and the same proposals in both copies) and what
holds without one (memory is the view of the index). So the index part of the invariant does not depend on
refreshes, and exact memory becomes at worst stale.

- `GovernanceInvariant`, and from it `IndexMatchesChainHolds` and `ViewMatchesIndexHolds`.
- `ChecksAgreeHolds`: the pass that only checks stages what the other writes; the two states differ, and decide alike.
- `PaidAsVotedHolds`: each block was paid as the index before it said, and no proposal or vote that enters a
  cycle's candidates is mined once that cycle has begun (`InTime`).

`ProcessBlock`, `JustCheck`, `UndoBlock` and `VerifyDB` are folds. A fold over a block has no
induction theorem to use, but it is a run of states, each the next step of the one before, once a function that does
this is shown to exist (`FoldExists`); what moves on from each state to the next then holds of the last (`Climb`).

Only model-checked: `RoundProgress` of PQMember, as liveness is out of the proof system's reach, and the
properties of PQAnchors on networks that are not `OnTime`, where they fail. The equations that define `ChainOf`, a
recursive function, are an assumption that TLC evaluates (`ChainAssumption`).

## Not modelled

- *Peer authentication, network entry points*: a challenge for each connection, and dispatch. Message
  delivery is arbitrary in the models, so nothing depends on them.
- *The heartbeat pool*: what is received and relayed between blocks. A block may carry any
  valid heartbeats here.
- *Inbox limits*: the counts 16, 64 and 401 (see PQMember).
- *Bootstrap resolution* (`ResolveBootstrap`, `ResolveDelayedBootstrap`): decided by the chain's
  first committee or by configuration, once.
- *Nested EvoDB transactions*: taken to be atomic, which `evodb.h` delegates to its layers.
- *Fork guard and network watchdog*: heuristics on the heights of peers and on stalled threads, which pause staking or
  reset the network. Neither touches what is modelled.
- *Staking, wallet, mempool, RPC, GUI, sporks, LLMQ*: inherited code that finality, the registry
  and the treasury do not depend on. Most of the repository is this, and vendored libraries.
- *Cryptography* is assumed unforgeable and LevelDB to write a synced batch atomically.

## Plan

Done: agreement, the member's driver, the journal, the anchors, the registry with its committees and
heartbeats, and governance. What is left, in order:

1. *PQMember*: the inbox with its limits, `PendingCertificate`, the choice of the voting height and
   the wake-up delay; that it implements a member of PQFinality.
2. *PQCommittee*: the context check of automatic bootstraps and of checkpoints, with the
   snapshots of PQRegistry.
3. The pool of heartbeats and its rate limits.
4. Proofs: that a step of PQMember is a step of a member of PQFinality, or changes nothing there; of PQRegistry, that
   the committees its snapshots give are those that PQFinality's quorums are counted in.
