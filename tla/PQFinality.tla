----------------------------- MODULE PQFinality -----------------------------
(***************************************************************************)
(* Agreement on one height by a committee: the finality protocol of        *)
(* src/pqfinality.cpp as its members run it together.  Each correct member *)
(* keeps a volatile RoundState and a durable journal; the others may sign  *)
(* anything at any time.                                                   *)
(*                                                                         *)
(* The network is not a variable.  A vote is sent only after it is in the  *)
(* journal (JournalVote), the journal never forgets one at an open height, *)
(* and a received vote is only ever counted, so what a member can assemble *)
(* from messages that were lost, delayed, duplicated or reordered is some  *)
(* certificate over votes that are journalled somewhere.  A member may act *)
(* on any such certificate at any time, which covers every delivery order. *)
(***************************************************************************)
EXTENDS PQRoundState, PQQuorum

CONSTANTS
  Members,     \* the committee at this height
  Correct,     \* the members that run this code
  Unreliable   \* correct members whose writes and signer may fail, or that may restart

ASSUME MemberAssumption ==
  /\ IsFiniteSet(Members)
  /\ Cardinality(Members) \in MIN_MEMBERS..MAX_MEMBERS
  /\ Correct \subseteq Members
  /\ 3 * Cardinality(Members \ Correct) < Cardinality(Members)
  /\ Unreliable \subseteq Correct

VARIABLES
  state,       \* state[m]: the RoundState in m's memory
  lock,        \* lock[m]: the lock in m's journal, NoLock when it has none
  prevotes,    \* prevotes[m][r], precommits[m][r]: the vote m has journalled
  precommits,  \*   (and signed) in round r, None when it has none
  finalized    \* finalized[m]: the value m's journal records as final, or Nil

vars == <<state, lock, prevotes, precommits, finalized>>

Locks == [value : Votes, round : Rounds]
NoLock == [value |-> Nil, round |-> 0]
NoVotes == [r \in Rounds |-> None]

(* A certificate exists when enough members may have signed it: those that *)
(* do not run this code sign whatever is asked of them.                    *)
CommitteeThreshold == Threshold(Cardinality(Members))
Enough(signers) == Cardinality(signers) >= CommitteeThreshold

Prevoters(round, value) ==
  {m \in Members : m \in Correct => prevotes[m][round] = value}

Precommitters(round, value) ==
  {m \in Members : m \in Correct => precommits[m][round] = value}

Polc(round, value) == Enough(Prevoters(round, value))
CommitCertificate(round, value) == Enough(Precommitters(round, value))

KnownProofs == {p \in Proofs : Polc(p.round, p.value)}

Init ==
  /\ state = [m \in Correct |-> Fresh]
  /\ lock = [m \in Correct |-> NoLock]
  /\ prevotes = [m \in Correct |-> NoVotes]
  /\ precommits = [m \in Correct |-> NoVotes]
  /\ finalized = [m \in Correct |-> Nil]
-----------------------------------------------------------------------------
(* The signing gate JournalVote.  The decision is already in memory; then  *)
(* the journal's lock must be the one the decision started from, a changed *)
(* lock is recorded, and last the vote is.  Each write may fail, and what  *)
(* was written before stays.  `entry' is what the journal already holds    *)
(* for this round and step.                                                *)

\* Variant: the absence of a lock counts as a lock of round 0.
RecordLockAcceptsNewer(old, new) == new.round > old.round \/ new = old

RecordLockAccepts(old, new) ==
  old = NoLock \/ new.round > old.round \/ new = old

LockRecordable(m, next) ==
  /\ lock[m] = LockOf(state[m])
  /\ RecordLockAccepts(lock[m], LockOf(next))

VoteRecordable(entry, vote) == entry \in {None, vote}

JournalVote(m, next, entry, vote, Record) ==
  /\ state' = [state EXCEPT ![m] = next]
  /\ UNCHANGED finalized
  /\ \/ /\ LockRecordable(m, next) => m \in Unreliable
        /\ UNCHANGED <<lock, prevotes, precommits>>
     \/ /\ LockRecordable(m, next)
        /\ lock' = [lock EXCEPT ![m] = LockOf(next)]
        /\ \/ /\ VoteRecordable(entry, vote) => m \in Unreliable
              /\ UNCHANGED <<prevotes, precommits>>
           \/ /\ VoteRecordable(entry, vote)
              /\ Record

JournalPrevote(m, next) ==
  LET r == next.round IN
  JournalVote(m, next, prevotes[m][r], next.prevote,
              /\ prevotes' = [prevotes EXCEPT ![m][r] = next.prevote]
              /\ UNCHANGED precommits)

JournalPrecommit(m, next) ==
  LET r == next.round IN
  JournalVote(m, next, precommits[m][r], next.precommit,
              /\ precommits' = [precommits EXCEPT ![m][r] = next.precommit]
              /\ UNCHANGED prevotes)

(* A member stops voting at this height once its journal says it is final: *)
(* every write below is then refused.                                      *)
Voting(m) == finalized[m] = Nil
-----------------------------------------------------------------------------
(* The decisions of one driver pass.  Which block is on the member's own   *)
(* active chain may differ from pass to pass (a reorganisation refreshes   *)
(* localBlock and nothing else), so each takes any value as the local one. *)

(* A proposal, or the member's own: prevote its block with its proof when  *)
(* the block is the local one or the locked one.                           *)
PrevoteProposal(m, block) ==
  /\ Voting(m)
  /\ state[m].prevote = None
  /\ \E proof \in KnownProofs \cup {None} :
       /\ CanPrevote(state[m], block, proof)
       /\ JournalPrevote(m, Prevoted(state[m], block, proof))

(* An unknown block, or no proposal in time: nil, or the lock if there is  *)
(* one.                                                                    *)
PrevoteNil(m) ==
  /\ Voting(m)
  /\ state[m].prevote = None
  /\ CanPrevote(state[m], Nil, None)
  /\ JournalPrevote(m, Prevoted(state[m], Nil, None))

(* A prevote quorum of this round for the local block or for nil.          *)
PrecommitQuorum(m, block) ==
  /\ Voting(m)
  /\ state[m].prevote # None
  /\ state[m].precommit = None
  /\ \E proof \in KnownProofs :
       /\ CanPrecommit(state[m], proof, block)
       /\ JournalPrecommit(m, Precommitted(state[m], proof))

(* No prevote quorum in time.                                              *)
PrecommitNil(m) ==
  /\ Voting(m)
  /\ state[m].precommit = None
  /\ CanPrecommit(state[m], None, Nil)
  /\ JournalPrecommit(m, Precommitted(state[m], None))

(* The round ends, or a quorum of members reports being in a later one.    *)
AdvanceRound(m, round) ==
  /\ Voting(m)
  /\ CanAdvance(state[m], round)
  /\ state' = [state EXCEPT ![m] = Advanced(@, round)]
  /\ UNCHANGED <<lock, prevotes, precommits, finalized>>

(* RecordCommitment: the journal records the height as final and drops the *)
(* votes and the lock of the height, so a later start rebuilds nothing.    *)
RecordFinalized(m, value) ==
  /\ state' = [state EXCEPT ![m] = Fresh]
  /\ finalized' = [finalized EXCEPT ![m] = value]
  /\ lock' = [lock EXCEPT ![m] = NoLock]
  /\ UNCHANGED <<prevotes, precommits>>

(* A precommit quorum of this round for the local block: decide in memory, *)
(* and record it unless the record is deferred by a failure.               *)
Commit(m, block) ==
  /\ Voting(m)
  /\ state[m].precommit # None
  /\ CommitCertificate(state[m].round, block)
  /\ CanCommit(state[m], block, block)
  /\ \/ RecordFinalized(m, block)
     \/ /\ m \in Unreliable
        /\ state' = [state EXCEPT ![m] = Committed(@, block)]
        /\ UNCHANGED <<lock, prevotes, precommits, finalized>>

(* A gossiped commitment for the local block, from any round.              *)
\* Variant: the commitment is not verified.
AcceptAnyCommitment(m, round, block) == Voting(m) /\ RecordFinalized(m, block)

AcceptCommitment(m, round, block) ==
  /\ Voting(m)
  /\ CommitCertificate(round, block)
  /\ RecordFinalized(m, block)

(* A restart at this height rebuilds the round state from the journal: the *)
(* round is the highest one it knows of by a vote, by the lock or by the   *)
(* proof it has kept (any proof it may have seen).                         *)
JournalRounds(m) ==
  {r \in Rounds : prevotes[m][r] # None \/ precommits[m][r] # None}
    \cup {lock[m].round}

HighestOf(rounds) == CHOOSE r \in rounds : \A q \in rounds : q <= r

\* Variant: resume at the lock's round, whatever was voted since.
RestoredLockRound(m, proofRound) == HighestOf({lock[m].round, proofRound})

RestoredRound(m, proofRound) == HighestOf(JournalRounds(m) \cup {proofRound})

Restart(m) ==
  /\ m \in Unreliable
  /\ Voting(m)
  /\ \E proofRound \in {p.round : p \in KnownProofs} \cup {0} :
       LET round == RestoredRound(m, proofRound) IN
       state' = [state EXCEPT ![m] =
         Restored(round, lock[m], prevotes[m][round], precommits[m][round])]
  /\ UNCHANGED <<lock, prevotes, precommits, finalized>>

Next ==
  \E m \in Correct :
    \/ \E b \in Values : PrevoteProposal(m, b)
    \/ PrevoteNil(m)
    \/ \E b \in Values : PrecommitQuorum(m, b)
    \/ PrecommitNil(m)
    \/ \E r \in Rounds : AdvanceRound(m, r)
    \/ \E b \in Values : Commit(m, b)
    \/ \E r \in Rounds, b \in Values : AcceptCommitment(m, r, b)
    \/ Restart(m)

Spec == Init /\ [][Next]_vars
-----------------------------------------------------------------------------
TypeOK ==
  /\ state \in [Correct -> RoundStates]
  /\ lock \in [Correct -> Locks]
  /\ prevotes \in [Correct -> [Rounds -> Votes \cup {None}]]
  /\ precommits \in [Correct -> [Rounds -> Votes \cup {None}]]
  /\ finalized \in [Correct -> Votes]

(* No two blocks of the height can both get a commit certificate, in       *)
(* whatever rounds; this is what lets a node treat an anchor as            *)
(* irreversible.  (BuildCertificate, pqquorum::Verify)                     *)
ChosenValues == {v \in Values : \E r \in Rounds : CommitCertificate(r, v)}

Agreement == \A v1, v2 \in ChosenValues : v1 = v2

(* A member will not precommit in round r any more: it has, or it has      *)
(* journalled something of a later round, or the height is final for it.   *)
DoneWith(m, r) ==
  \/ precommits[m][r] # None
  \/ \E q \in JournalRounds(m) : q > r
  \/ finalized[m] # Nil

(* The members that may yet be on a commit certificate for v in round r    *)
(* are too few to make one.                                                *)
Blocked(r, v) ==
  ~ Enough({m \in Members :
              m \in Correct => precommits[m][r] = v \/ ~ DoneWith(m, r)})

(* Once a prevote quorum for one value (or nil) exists, no other block can *)
(* ever be committed by an earlier round: a release of a lock on the       *)
(* strength of such a proof loses nothing.                                 *)
ProofBlocksEarlierRounds ==
  \A r1, r2 \in Rounds, v \in Values, w \in Votes :
    r1 < r2 /\ v # w /\ Polc(r2, w) => Blocked(r1, v)

(* Some prevote quorum for something else than v, of a round after r and   *)
(* not after q.                                                            *)
Overruled(v, r, q) ==
  \E p \in KnownProofs : r < p.round /\ p.round <= q /\ p.value # v

(* A member that precommitted a block and later prevotes something else    *)
(* does so only after a prevote quorum of a later round for something      *)
(* else, also when it has restarted in between or its writes have failed.  *)
LockRespected ==
  \A m \in Correct, r1, r2 \in Rounds :
    /\ r1 < r2
    /\ precommits[m][r1] \in Values
    /\ prevotes[m][r2] \notin {None, precommits[m][r1]}
    => Overruled(precommits[m][r1], r1, r2)

(* Only a prevote quorum makes a member precommit a block.                 *)
PrecommitsCertified ==
  \A m \in Correct, r \in Rounds :
    precommits[m][r] \in Values => Polc(r, precommits[m][r])

(* A lock accounts for every block the member has precommitted: it still   *)
(* holds it, or a prevote quorum not newer than the lock overruled it.     *)
Explains(l, m) ==
  \A r \in Rounds : precommits[m][r] \in Values =>
    /\ r <= l.round
    /\ l.value = precommits[m][r] \/ Overruled(precommits[m][r], r, l.round)

(* The journalled lock of an open height accounts for the precommits.      *)
LockExplained == \A m \in Correct : Voting(m) => Explains(lock[m], m)

(* While the height is open, memory is never in an earlier round than the  *)
(* journal, and holds the journal's votes of its round.                    *)
MemoryCoversJournal ==
  \A m \in Correct : Voting(m) =>
    /\ \A r \in JournalRounds(m) : r <= state[m].round
    /\ prevotes[m][state[m].round] \in {None, state[m].prevote}
    /\ precommits[m][state[m].round] \in {None, state[m].precommit}

(* Without a restart or a failing write the signing gate never disagrees   *)
(* with the decision: no correct decision is refused, no member is silent. *)
GateOpen ==
  \A m \in Correct \ Unreliable :
    Voting(m) =>
      /\ lock[m] = LockOf(state[m])
      /\ state[m].precommit = None =>
           \A p \in KnownProofs :
             p.round = state[m].round => LockRecordable(m, Precommitted(state[m], p))

(* A journalled lock moves to a block or is released only when a prevote   *)
(* quorum, no older than the lock it replaces, says so.                    *)
LockMovesOnProof ==
  [][\A m \in Correct :
       Voting(m)' /\ lock'[m] # lock[m] =>
         /\ lock[m].round <= lock'[m].round
         /\ lock'[m].value \in Values =>
              Polc(lock'[m].round, lock'[m].value)
         /\ lock[m].value \in Values \ {lock'[m].value} =>
              \E w \in Votes \ {lock[m].value} : Polc(lock'[m].round, w)]_vars

(* A member journals its votes in order: never one for a round or step     *)
(* that comes before another it has already journalled, and never in place *)
(* of one.                                                                 *)
VotesInOrder ==
  [][\A m \in Correct, r \in Rounds :
       /\ prevotes'[m][r] # prevotes[m][r] =>
            /\ prevotes[m][r] = None
            /\ precommits[m][r] = None
            /\ \A q \in JournalRounds(m) : q <= r
       /\ precommits'[m][r] # precommits[m][r] =>
            /\ precommits[m][r] = None
            /\ \A q \in JournalRounds(m) : q <= r]_vars

(* The inductive invariant behind Agreement.                               *)
IInv ==
  /\ TypeOK
  /\ MemoryCoversJournal
  /\ PrecommitsCertified
  /\ LockExplained
  /\ LockRespected
  /\ ProofBlocksEarlierRounds
-----------------------------------------------------------------------------
(* The protocol implements consensus on the height: what has a commit      *)
(* certificate is chosen, and a member's journal makes it final.           *)
Consensus == INSTANCE PQConsensus WITH chosen <- ChosenValues, final <- finalized

ImplementsConsensus == Consensus!Spec
=============================================================================
