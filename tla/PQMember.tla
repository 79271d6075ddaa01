------------------------------ MODULE PQMember ------------------------------
(***************************************************************************)
(* The driver of one voting member at one height (Manager::Process of      *)
(* src/pqfinality.cpp): what it keeps of the votes, proposals and proofs   *)
(* that reach it, the round it is in, its deadlines, and the order of its  *)
(* journal writes.  PQFinality has the committee; here the peers are the   *)
(* set of messages they may send, which arrive in any order and number, or *)
(* never: the bounded inbox delays and drops them, and the limits of a     *)
(* pass only cut it in pieces.                                             *)
(*                                                                         *)
(* A pass first verifies and stores messages, then makes sure that every   *)
(* prevote quorum among them is recorded (`changed' = {}), then takes the  *)
(* decisions that are due, in order.  The process may die between any two  *)
(* of these steps, and any write may fail, which silences the journal      *)
(* until the process restarts.  The time is how many of the round's three  *)
(* deadlines have passed.                                                  *)
(***************************************************************************)
EXTENDS PQRoundState, PQQuorum, FiniteSetsExt

CONSTANTS
  Peers, Self,         \* the other members of the committee, and this one
  Proposer,            \* Proposer[r]: whose turn it is to propose in round r
  RoundHistory,        \* ROUND_HISTORY: how many rounds of votes are kept
  OfferedVotes,        \* what the peers may send: votes, proposals and
  OfferedProposals,    \*   the values of commitments, all of them verified
  OfferedCommitments,
  MaxRestarts          \* bound on the restarts of the process

ASSUME MemberAssumption ==
  /\ IsFiniteSet(Peers) /\ Self \notin Peers
  /\ Cardinality(Peers) + 1 \in MIN_MEMBERS..MAX_MEMBERS
  /\ Proposer \in [Rounds -> Peers \cup {Self}]
  /\ RoundHistory \in Nat \ {0}
  /\ OfferedCommitments \subseteq Values
  /\ MaxRestarts \in Nat

SignedVotes(members) ==
  [round : Rounds, step : {"prevote", "precommit"}, member : members, value : Votes]
Proposals == [round : Rounds, block : Values, polc : Proofs \cup {None}]

ASSUME OfferAssumption ==
  /\ OfferedVotes \subseteq SignedVotes(Peers)
  /\ OfferedProposals \subseteq Proposals
  /\ \A q \in OfferedProposals :
       /\ Proposer[q.round] # Self
       /\ q.polc # None => q.polc.round < q.round

VARIABLES
  rs,            \* the RoundState
  votes,         \* verified votes of the retained rounds, its own included
  best,          \* bestPolc: the newest prevote quorum it knows, or None
  future,        \* one vote of a later round for each peer that sent one
  proposal,      \* the proposal of this round, or None
  futureProposal,
  changed,       \* prevote statements stored since proofs were last recorded
  due,           \* deadlines passed: propose, prevote, precommit
  mute,          \* the journal is poisoned
  local,         \* localBlock: the member's own active-chain block
  committed,     \* the height is final for this node
  lock, proof,   \* journal: the lock and the newest proof of this height
  signed,        \* journal: its own votes
  closed,        \* journal: the height's final value, or None
  restarts

memory == <<rs, votes, best, future, proposal, futureProposal, changed, due, mute>>
journal == <<lock, proof, signed, closed>>
vars == <<memory, journal, local, committed, restarts>>

CommitteeThreshold == Threshold(Cardinality(Peers) + 1)

Init ==
  /\ rs = Fresh
  /\ votes = {} /\ best = None /\ future = {} /\ changed = {}
  /\ proposal = None /\ futureProposal = None
  /\ due = 0 /\ mute = FALSE
  /\ local \in Values
  /\ committed = FALSE
  /\ lock = None /\ proof = None /\ signed = {} /\ closed = None
  /\ restarts = 0
-----------------------------------------------------------------------------
(* Votes are kept by round, step and member, and the first one stays.      *)
SameKey(v, w) == v.round = w.round /\ v.step = w.step /\ v.member = w.member
StoreVote(table, v) == IF \E w \in table : SameKey(v, w) THEN table ELSE table \cup {v}

Statement(v) == [round |-> v.round, value |-> v.value]
Statements(table) == {Statement(v) : v \in {w \in table : w.step = "prevote"}}

BuildCertificate(table, round, step, value) ==
  Cardinality({v \in table : v.round = round /\ v.step = step /\ v.value = value})
    >= CommitteeThreshold

QuorumProofs(table) ==
  {p \in Statements(table) : BuildCertificate(table, p.round, "prevote", p.value)}

(* A poisoned journal takes no record, a closed height none either.        *)
Usable == ~mute /\ closed = None

(* RememberProof: a proof newer than the one in hand is recorded before it *)
(* replaces that one.  So are more signatures for the same proof, which    *)
(* the model tells apart only when that write fails.                       *)
Newer(p) == p # None /\ (best # None => p.round > best.round)

RememberProof(p) ==
  IF Newer(p)
  THEN Usable /\ best' = p /\ proof' = p /\ UNCHANGED mute
  ELSE UNCHANGED <<best, proof, mute>>

RememberFails(p) ==
  /\ p # None
  /\ Newer(p) \/ p = best
  /\ \/ ~Usable /\ UNCHANGED <<proof, mute>>
     \/ Usable /\ proof' \in {proof, p} /\ mute' = TRUE
  /\ UNCHANGED best

\* Variant: the proof of a proposal is used but not recorded.
TakeProposalUnrecorded(q) ==
  /\ proposal' = IF proposal = None THEN q ELSE proposal
  /\ UNCHANGED <<best, proof, mute>>

(* A proposal of the current round, once its proof is recorded.            *)
TakeProposal(q) ==
  \/ RememberProof(q.polc) /\ proposal' = IF proposal = None THEN q ELSE proposal
  \/ RememberFails(q.polc) /\ UNCHANGED proposal

(* Entering a later round: old votes go, stored reports of rounds up to it *)
(* become votes, and a stored proposal for it is taken.                    *)
\* Variant: one round too few is forgotten.
FirstRetainedEarly(round) == IF round >= RoundHistory THEN round - RoundHistory ELSE 0

FirstRetained(round) == IF round >= RoundHistory THEN round - RoundHistory + 1 ELSE 0

\* Variant: a report stays one after its round has begun.
ReportsFrom(round, reports) == {v \in reports : v.round >= round}

ReportsAfter(round, reports) == {v \in reports : v.round > round}

AdvanceRound(round, reports) ==
  LET first == FirstRetained(round)
      reached == {v \in reports : first <= v.round /\ v.round <= round}
  IN  /\ rs' = Advanced(rs, round)
      /\ votes' = {v \in votes : v.round >= first} \cup reached
      /\ changed' = Statements(reached)
      /\ future' = ReportsAfter(round, reports)
      /\ due' = 0
      /\ IF futureProposal # None /\ futureProposal.round <= round
         THEN /\ futureProposal' = None
              /\ IF futureProposal.round < round
                 THEN proposal' = None /\ UNCHANGED <<best, proof, mute>>
                 ELSE \/ RememberProof(futureProposal.polc) /\ proposal' = futureProposal
                      \/ RememberFails(futureProposal.polc) /\ proposal' = None
         ELSE proposal' = None /\ UNCHANGED <<best, proof, mute, futureProposal>>
-----------------------------------------------------------------------------
(* Messages.                                                               *)
Draining == ~committed

AcceptVote(v) ==
  /\ Draining
  /\ v.round <= rs.round
  /\ rs.round - v.round < RoundHistory
  /\ votes' = StoreVote(votes, v)
  /\ changed' = changed \cup Statements(votes' \ votes)
  /\ UNCHANGED <<rs, best, future, proposal, futureProposal, due, mute,
                 journal, local, committed, restarts>>

(* A vote of a later round is a report that its sender is there; only the  *)
(* latest of each sender is kept.  When a quorum has reported, the member  *)
(* enters the latest round that a quorum has reached.                      *)
\* Variant: the latest round that anyone has reached.
HighestReported(reports) == Max({v.round : v \in reports})

CatchUpRound(reports) ==
  Max({r \in Rounds :
         Cardinality({v \in reports : v.round >= r}) >= CommitteeThreshold})

\* Variant: proofs are recorded at the end of the pass only.
RecordedAtTheEnd == TRUE

RecordedBefore == changed = {}

AcceptFutureVote(v) ==
  LET reports == {w \in future : w.member # v.member} \cup {v}
  IN  /\ Draining
      /\ RecordedBefore
      /\ v.round > rs.round
      /\ \A w \in future : w.member = v.member => w.round < v.round
      /\ IF /\ Cardinality(reports) >= CommitteeThreshold
            /\ CanAdvance(rs, CatchUpRound(reports))
         THEN /\ AdvanceRound(CatchUpRound(reports), reports)
              /\ UNCHANGED <<lock, signed, closed>>
         ELSE /\ future' = reports
              /\ UNCHANGED <<rs, votes, best, proposal, futureProposal, changed,
                             due, mute, journal>>
      /\ UNCHANGED <<local, committed, restarts>>

(* Of the proposals for later rounds, the one for the nearest is kept.     *)
AcceptProposal(q) ==
  /\ Draining
  /\ \/ /\ q.round = rs.round
        /\ TakeProposal(q)
        /\ UNCHANGED futureProposal
     \/ /\ q.round > rs.round
        /\ futureProposal # None => q.round < futureProposal.round
        /\ futureProposal' = q
        /\ UNCHANGED <<best, proof, mute, proposal>>
  /\ UNCHANGED <<rs, votes, future, changed, due, lock, signed, closed,
                 local, committed, restarts>>

(* RecordCommitment: the journal closes the height, then the anchor is     *)
(* saved.  Either may fail and be retried; a commitment may also have to   *)
(* wait for the chain to carry the one before it.                          *)
CloseJournal ==
  closed' = local /\ lock' = None /\ proof' = None /\ signed' = {}

RecordCommitment ==
  \/ UNCHANGED <<committed, mute, journal>>
  \/ /\ Usable                               \* the journal's write failed
     /\ UNCHANGED journal \/ CloseJournal
     /\ mute' = TRUE
     /\ UNCHANGED committed
  \/ /\ ~mute
     /\ closed \in {None, local}
     /\ IF closed = None THEN CloseJournal ELSE UNCHANGED journal
     /\ committed' \in BOOLEAN               \* the store's write may fail
     /\ UNCHANGED mute

AcceptCommitment(value) ==
  /\ Draining
  /\ value = local
  /\ RecordCommitment
  /\ UNCHANGED <<rs, votes, best, future, proposal, futureProposal, changed, due,
                 local, restarts>>

(* persistPrevotes, and the certificate built for the member's own vote:   *)
(* in ascending rounds, a quorum among what has been stored is recorded.   *)
PersistPrevotes ==
  \E p \in changed :
    /\ \A q \in changed : p.round <= q.round
    /\ changed' = changed \ {p}
    /\ IF p \in QuorumProofs(votes)
       THEN RememberProof(p) \/ RememberFails(p)
       ELSE UNCHANGED <<best, proof, mute>>
    /\ UNCHANGED <<rs, votes, future, proposal, futureProposal, due, lock, signed,
                   closed, local, committed, restarts>>
-----------------------------------------------------------------------------
(* The signing gate JournalVote, with its effect on what the member keeps. *)
JournalLock == IF lock = None THEN LockOf(Fresh) ELSE lock

LockRecordable(new) ==
  /\ Usable
  /\ JournalLock = LockOf(rs)
  /\ lock # None => new.round > lock.round \/ new = lock

\* Variant: the vote is signed first and the lock recorded after it.
LockWhileVoting(new) == UNCHANGED lock

RecordLock(new) == lock' = IF new = LockOf(rs) THEN lock ELSE new

GetOrSignVote(v) ==
  \/ /\ v \notin signed                     \* refused by the signer or the journal
     /\ UNCHANGED <<signed, mute, votes, changed>>
  \/ /\ v \notin signed                     \* the append failed
     /\ \A w \in signed : ~ SameKey(v, w)
     /\ signed' \in {signed, signed \cup {v}}
     /\ mute' = TRUE
     /\ UNCHANGED <<votes, changed>>
  \/ /\ \A w \in signed : SameKey(v, w) => v = w
     /\ signed' = signed \cup {v}
     /\ votes' = StoreVote(votes, v)
     /\ changed' = Statements(votes' \ votes)
     /\ UNCHANGED mute

JournalVote(step, next) ==
  LET v == [round |-> next.round, step |-> step, member |-> Self, value |-> next[step]]
      new == LockOf(next)
  IN  /\ rs' = next
      /\ \/ /\ ~LockRecordable(new)
            /\ UNCHANGED <<lock, signed, mute, votes, changed>>
         \/ /\ LockRecordable(new) /\ new # LockOf(rs)  \* the write failed
            /\ lock' \in {lock, new}
            /\ mute' = TRUE
            /\ UNCHANGED <<signed, votes, changed>>
         \/ /\ LockRecordable(new)
            /\ RecordLock(new)
            /\ GetOrSignVote(v)
      /\ UNCHANGED <<best, future, proposal, futureProposal, due, proof, closed,
                     local, committed, restarts>>
-----------------------------------------------------------------------------
(* Decisions: the first that is due.                                       *)
Driving == ~committed /\ changed = {}

MayPrevote == rs.prevote = None /\ rs.precommit = None

(* A proposal is voted for when it is the member's own block or its lock.  *)
PrevoteProposal ==
  LET known == proposal.block \in {local, rs.locked}
  IN  /\ Driving /\ MayPrevote
      /\ proposal # None
      /\ JournalVote("prevote",
           IF known THEN Prevoted(rs, proposal.block, proposal.polc)
                    ELSE Prevoted(rs, Nil, None))

PrevoteNil ==
  /\ Driving /\ MayPrevote
  /\ proposal = None
  /\ due >= 1
  /\ JournalVote("prevote", Prevoted(rs, Nil, None))

(* The proposer votes for what it proposes: its lock, unless it can show a *)
(* newer quorum for something else.                                        *)
Propose ==
  LET polc == IF best # None /\ best.round < rs.round THEN best ELSE None
      block == IF rs.locked # Nil /\ ~Unlocks(rs, polc) THEN rs.locked ELSE local
  IN  /\ Driving /\ MayPrevote
      /\ proposal = None
      /\ due = 0
      /\ Proposer[rs.round] = Self
      /\ JournalVote("prevote", Prevoted(rs, block, polc))

PrevoteIsDue == MayPrevote /\ (proposal # None \/ due >= 1 \/ Proposer[rs.round] = Self)

(* The quorum of this round for the local block or for nil, if recorded.   *)
CurrentQuorums ==
  {p \in QuorumProofs(votes) :
     p.round = rs.round /\ p.value \in {local, Nil} /\ ~Newer(p)}

PrecommitIsDue == rs.prevote # None /\ rs.precommit = None /\ CurrentQuorums # {}

PrecommitQuorum ==
  /\ Driving
  /\ PrecommitIsDue
  /\ \E p \in CurrentQuorums : JournalVote("precommit", Precommitted(rs, p))

PrecommitNil ==
  /\ Driving
  /\ rs.precommit = None
  /\ due >= 2
  /\ ~PrevoteIsDue /\ ~PrecommitIsDue
  /\ JournalVote("precommit", Precommitted(rs, None))

CommitIsDue ==
  /\ rs.precommit # None
  /\ BuildCertificate(votes, rs.round, "precommit", local)
  /\ CanCommit(rs, local, local)

(* The round state is decided even when the commitment has to wait.        *)
Commit ==
  /\ Driving
  /\ CommitIsDue
  /\ rs' = Committed(rs, local)
  /\ RecordCommitment
  /\ UNCHANGED <<votes, best, future, proposal, futureProposal, changed, due, local,
                 restarts>>

\* Variant: a member that cannot vote stays in its round.
VotersOnly == rs.precommit # None /\ ~mute

MayTimeOut == TRUE

RoundTimeout ==
  /\ Driving
  /\ due = 3
  /\ ~PrevoteIsDue /\ rs.precommit # None /\ ~CommitIsDue
  /\ MayTimeOut
  /\ rs.round < MaxRound
  /\ CanAdvance(rs, rs.round + 1)
  /\ AdvanceRound(rs.round + 1, future)
  /\ UNCHANGED <<lock, signed, closed, local, committed, restarts>>
-----------------------------------------------------------------------------
Tick ==
  /\ due < 3
  /\ due' = due + 1
  /\ UNCHANGED <<rs, votes, best, future, proposal, futureProposal, changed, mute,
                 journal, local, committed, restarts>>

(* A reorganization refreshes the local block and nothing else.            *)
Reorganize ==
  /\ local' \in Values \ {local}
  /\ UNCHANGED <<memory, journal, committed, restarts>>

(* CheckContext: a journalled lock is only taken up again with a proof     *)
(* that says which committee it belongs to.                                *)
ContextKnown == lock # None => proof # None

JournalRound ==
  Max({v.round : v \in signed} \cup {JournalLock.round}
        \cup {IF proof = None THEN 0 ELSE proof.round})

OwnVotes(round) == {v \in signed : v.round = round}

SignedValue(round, step) ==
  LET own == {v \in OwnVotes(round) : v.step = step}
  IN  IF own = {} THEN None ELSE (CHOOSE v \in own : TRUE).value

Restart ==
  /\ restarts < MaxRestarts
  /\ ~committed
  /\ ContextKnown
  /\ restarts' = restarts + 1
  /\ rs' = Restored(JournalRound, JournalLock, SignedValue(JournalRound, "prevote"),
                    SignedValue(JournalRound, "precommit"))
  /\ votes' = OwnVotes(JournalRound)
  /\ best' = proof
  /\ future' = {} /\ changed' = {}
  /\ proposal' = None /\ futureProposal' = None
  /\ due' = 0 /\ mute' = FALSE
  /\ UNCHANGED <<journal, local, committed>>

Drive ==
  \/ PrevoteProposal
  \/ PrevoteNil
  \/ Propose
  \/ PrecommitQuorum
  \/ PrecommitNil
  \/ Commit
  \/ RoundTimeout

Next ==
  \/ \E v \in OfferedVotes : AcceptVote(v)
  \/ \E v \in OfferedVotes : AcceptFutureVote(v)
  \/ \E q \in OfferedProposals : AcceptProposal(q)
  \/ \E value \in OfferedCommitments : AcceptCommitment(value)
  \/ PersistPrevotes
  \/ Drive
  \/ Tick
  \/ Reorganize
  \/ Restart

(* The driver thread keeps making passes, and time passes.                 *)
Spec ==
  /\ Init /\ [][Next]_vars
  /\ WF_vars(PersistPrevotes) /\ WF_vars(Drive) /\ WF_vars(Tick)
-----------------------------------------------------------------------------
TypeOK ==
  /\ rs \in RoundStates
  /\ votes \subseteq SignedVotes(Peers \cup {Self})
  /\ \A v, w \in votes : SameKey(v, w) => v = w
  /\ best \in Proofs \cup {None} /\ proof \in Proofs \cup {None}
  /\ future \subseteq OfferedVotes /\ \A v \in future : v.round > rs.round
  /\ proposal \in OfferedProposals \cup {None}
  /\ futureProposal \in OfferedProposals \cup {None}
  /\ changed \subseteq Proofs
  /\ due \in 0..3 /\ restarts \in 0..MaxRestarts
  /\ mute \in BOOLEAN /\ committed \in BOOLEAN
  /\ local \in Values
  /\ lock \in [value : Votes, round : Rounds] \cup {None}
  /\ signed \subseteq SignedVotes({Self})
  /\ closed \in Values \cup {None}

(* A journalled lock is never without a journalled proof at least as new,  *)
(* so that a restart is never refused for want of the lock's committee     *)
(* (pq-journal-lock-context-unavailable) and can show why it was released. *)
LockHasProof == lock # None => proof # None /\ proof.round >= lock.round

(* Before it decides anything the member has recorded the newest prevote   *)
(* quorum among the votes it holds, whichever path they came by.           *)
QuorumsRemembered ==
  changed = {} /\ Usable => \A p \in QuorumProofs(votes) : ~Newer(p)

(* Votes are forgotten when a round is left behind, but no quorum among    *)
(* them: it, or a later one, is in the journal by then.                    *)
NoQuorumDropped ==
  [][restarts' = restarts /\ Usable' =>
       \A p \in QuorumProofs(votes) \ QuorumProofs(votes') :
         proof' # None /\ proof'.round >= p.round]_vars

(* A round is skipped only on the word of a quorum: the vote just received *)
(* and those stored of others, all of them of the new round or later.      *)
SkipsOnQuorum ==
  [][restarts' = restarts /\ rs'.round > rs.round + 1 =>
       Cardinality({v.member : v \in {w \in future : w.round >= rs'.round}})
         >= CommitteeThreshold - 1]_vars

(* The votes kept are of the last RoundHistory rounds and none is later.   *)
VotesInWindow ==
  \A v \in votes : v.round <= rs.round /\ rs.round < v.round + RoundHistory

(* Until a write fails or the height is closed, the lock in memory is the  *)
(* journalled one, so that the next vote is not a lock mismatch: the code  *)
(* records the round of an unlocking proof so that "a later current-round  *)
(* precommit can then relock durably".                                     *)
LockInStep == Usable => JournalLock = LockOf(rs)

(* A member that died after it had recorded an unlock, and before it had   *)
(* voted, resumes in the round of the unlocking proof and not in the later *)
(* one where it was unlocked.  A precommit there may be for another value  *)
(* of the same round, which the journal takes for a conflicting lock.      *)
Reentered == lock # None /\ lock.round = rs.round /\ rs.precommit = None

(* Memory and journal part in such a round only, whatever the signer       *)
(* refuses in between, and nothing but a restart brings a member there.    *)
LockKept ==
  [][/\ LockInStep /\ ~Reentered => LockInStep'
     /\ restarts' = restarts /\ ~Reentered => ~Reentered']_vars

(* The member does not stay in a round that does not decide, even when it  *)
(* can no longer sign or write.                                            *)
RoundProgress ==
  \A r \in Rounds \ {MaxRound} :
    rs.round = r ~> rs.round > r \/ rs.committed # Nil \/ committed
=============================================================================
