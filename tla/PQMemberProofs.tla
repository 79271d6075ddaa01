--------------------------- MODULE PQMemberProofs ---------------------------
(***************************************************************************)
(* The safety of PQMember, for every committee, set of blocks, number of   *)
(* rounds and set of messages that its peers may send, with restarts and   *)
(* failing writes.                                                         *)
(***************************************************************************)
EXTENDS PQMember, PQQuorumProofs

-----------------------------------------------------------------------------
(* The inductive invariant.                                                *)

(* Every table is finite and holds one entry for a key, and what it holds  *)
(* is of the rounds that it is for.                                        *)
TablesOK ==
  /\ IsFiniteSet(votes) /\ IsFiniteSet(future) /\ IsFiniteSet(signed)
  /\ \A v, w \in future : v.member = w.member => v = w
  /\ \A v, w \in signed : SameKey(v, w) => v = w
  /\ proposal # None => proposal.round = rs.round
  /\ futureProposal # None => futureProposal.round > rs.round

(* No lock is of a round to come.                                          *)
LocksBehind ==
  /\ rs.lockRound <= rs.round
  /\ lock # None => lock.round <= rs.round

(* While the journal can be written, it has the proof that memory has.     *)
ProofInStep == Usable => best = proof

(* The proof of a proposal is recorded before the proposal is used.        *)
PolcRemembered ==
  proposal # None /\ proposal.polc # None =>
    best # None /\ best.round >= proposal.polc.round

(* A quorum among the votes is recorded, or due to be.                     *)
QuorumsQueued == Usable => \A p \in QuorumProofs(votes) \ changed : ~Newer(p)

MemberInv ==
  /\ TypeOK /\ TablesOK /\ LocksBehind /\ VotesInWindow
  /\ ProofInStep /\ PolcRemembered /\ LockHasProof
  /\ QuorumsQueued
-----------------------------------------------------------------------------
(* Numbers.                                                                *)

LEMMA RoundIsNat == Rounds \subseteq Nat /\ 0 \in Rounds
BY RoundAssumption DEF Rounds

LEMMA ThresholdType == CommitteeThreshold \in Nat /\ CommitteeThreshold >= 3
BY MemberAssumption DEF CommitteeThreshold, Threshold, MIN_MEMBERS, MAX_MEMBERS

LEMMA MaxOfRounds ==
  ASSUME NEW S \in SUBSET Rounds, S # {}
  PROVE  Max(S) \in S /\ \A r \in S : r <= Max(S)
<1>1. PICK h \in S : \A r \in S : r <= h
  BY LatestRound
<1>2. \A r \in S : h >= r
  BY <1>1, RoundIsNat
<1>3. Max(S) \in S /\ \A r \in S : Max(S) >= r
  BY <1>2 DEF Max
<1> QED BY <1>3, RoundIsNat

(* The round that a quorum of reports has reached is one of the rounds.    *)
LEMMA CatchUpRoundReached ==
  ASSUME NEW reports, IsFiniteSet(reports), reports \subseteq SignedVotes(Peers),
         Cardinality(reports) >= CommitteeThreshold
  PROVE  /\ CatchUpRound(reports) \in Rounds
         /\ Cardinality({v \in reports : v.round >= CatchUpRound(reports)})
              >= CommitteeThreshold
<1> DEFINE S == {r \in Rounds :
                   Cardinality({v \in reports : v.round >= r}) >= CommitteeThreshold}
<1>1. {v \in reports : v.round >= 0} = reports
  <2>1. ASSUME NEW v \in reports PROVE v.round >= 0
    <3>1. v \in SignedVotes(Peers)
      OBVIOUS
    <3>2. v.round \in Nat
      BY <3>1, RoundIsNat DEF SignedVotes
    <3> QED BY <3>2
  <2> QED BY <2>1
<1>2. 0 \in S
  BY <1>1, RoundIsNat
<1>3. Max(S) \in S
  BY <1>2, MaxOfRounds
<1> QED BY <1>3 DEF CatchUpRound

(* The round that a restart resumes in is not behind the lock.             *)
LEMMA JournalRoundType ==
  ASSUME TypeOK
  PROVE  /\ JournalLock \in [value : Votes, round : Rounds]
         /\ JournalRound \in Rounds
         /\ JournalLock.round <= JournalRound
<1>1. JournalLock \in [value : Votes, round : Rounds]
  BY RoundIsNat DEF TypeOK, JournalLock, LockOf, Fresh, Votes
<1> DEFINE S == {v.round : v \in signed} \cup {JournalLock.round}
                  \cup {IF proof = None THEN 0 ELSE proof.round}
<1>2. S \in SUBSET Rounds
  BY <1>1, RoundIsNat DEF TypeOK, SignedVotes, Proofs
<1>3. JournalLock.round \in S
  OBVIOUS
<1>4. Max(S) \in S /\ JournalLock.round <= Max(S)
  BY <1>2, <1>3, MaxOfRounds
<1> QED BY <1>1, <1>2, <1>4 DEF JournalRound
-----------------------------------------------------------------------------
(* Tables of votes.                                                        *)

AllVotes == SignedVotes(Peers \cup {Self})

LEMMA OfferedTypes ==
  /\ OfferedVotes \subseteq AllVotes
  /\ SignedVotes({Self}) \subseteq AllVotes
  /\ \A q \in OfferedProposals :
       /\ q.polc \in Proofs \cup {None} /\ q.round \in Rounds /\ q.block \in Values
       /\ q.polc # None => q.polc.round < q.round
BY OfferAssumption DEF AllVotes, SignedVotes, Proposals

LEMMA StatementTypes ==
  ASSUME NEW table, table \subseteq AllVotes
  PROVE  Statements(table) \subseteq Proofs /\ QuorumProofs(table) \subseteq Proofs
<1>1. ASSUME NEW v \in table PROVE Statement(v) \in Proofs
  <2>1. v \in AllVotes
    OBVIOUS
  <2> QED BY <2>1 DEF AllVotes, SignedVotes, Statement, Proofs
<1> QED BY <1>1 DEF Statements, QuorumProofs

(* Whether there is a quorum for p depends on the votes for p only.        *)
VotesFor(table, p) ==
  {v \in table : v.round = p.round /\ v.step = "prevote" /\ v.value = p.value}

LEMMA QuorumDef ==
  ASSUME NEW table, table \subseteq AllVotes, NEW p \in Proofs
  PROVE  /\ p \in QuorumProofs(table) <=>
              Cardinality(VotesFor(table, p)) >= CommitteeThreshold
         /\ p \in Statements(table) <=> VotesFor(table, p) # {}
<1>1. ASSUME NEW v \in table PROVE Statement(v) = p <=> v.round = p.round /\ v.value = p.value
  BY DEF Statement, Proofs
<1>2. p \in Statements(table) <=> VotesFor(table, p) # {}
  BY <1>1 DEF Statements, VotesFor
<1>3. ASSUME Cardinality(VotesFor(table, p)) >= CommitteeThreshold
      PROVE  VotesFor(table, p) # {}
  <2>1. Cardinality({}) = 0
    BY FS_EmptySet
  <2> QED BY <1>3, <2>1, ThresholdType
<1> QED BY <1>2, <1>3 DEF QuorumProofs, BuildCertificate, VotesFor

LEMMA QuorumMoved ==
  ASSUME NEW old, old \subseteq AllVotes, NEW new, new \subseteq AllVotes,
         NEW p \in QuorumProofs(new), VotesFor(new, p) = VotesFor(old, p)
  PROVE  p \in QuorumProofs(old)
<1>1. p \in Proofs
  BY StatementTypes
<1> QED BY <1>1, QuorumDef

LEMMA QuorumGrows ==
  ASSUME NEW new, new \subseteq AllVotes, IsFiniteSet(new), NEW old \in SUBSET new
  PROVE  QuorumProofs(old) \subseteq QuorumProofs(new)
<1>1. SUFFICES ASSUME NEW p \in QuorumProofs(old) PROVE p \in QuorumProofs(new)
  OBVIOUS
<1>2. p \in Proofs /\ old \subseteq AllVotes
  BY StatementTypes
<1>3. Cardinality(VotesFor(old, p)) >= CommitteeThreshold
  BY <1>2, QuorumDef
<1>4. VotesFor(new, p) \in SUBSET new /\ VotesFor(old, p) \in SUBSET VotesFor(new, p)
  BY DEF VotesFor
<1>5. IsFiniteSet(VotesFor(new, p)) /\ IsFiniteSet(VotesFor(old, p))
  BY <1>4, FS_Subset
<1>6. Cardinality(VotesFor(old, p)) <= Cardinality(VotesFor(new, p))
  BY <1>4, <1>5, FS_Subset
<1>7. Cardinality(VotesFor(old, p)) \in Nat /\ Cardinality(VotesFor(new, p)) \in Nat
  BY <1>5, FS_CardinalityType
<1>8. Cardinality(VotesFor(new, p)) >= CommitteeThreshold
  BY <1>3, <1>6, <1>7, ThresholdType
<1> QED BY <1>2, <1>8, QuorumDef

LEMMA StoreVoteKeeps ==
  ASSUME NEW table, table \subseteq AllVotes, IsFiniteSet(table), NEW v \in AllVotes,
         \A w, x \in table : SameKey(w, x) => w = x
  PROVE  LET new == StoreVote(table, v)
         IN  /\ new \subseteq AllVotes /\ IsFiniteSet(new)
             /\ new \in {table, table \cup {v}}
             /\ \A w, x \in new : SameKey(w, x) => w = x
             /\ QuorumProofs(new) \subseteq QuorumProofs(table) \cup Statements(new \ table)
<1> DEFINE new == StoreVote(table, v)
<1>1. new \in {table, table \cup {v}} /\ new \subseteq AllVotes
  BY DEF StoreVote
<1>2. IsFiniteSet(table \cup {v})
  BY FS_AddElement
<1>3. \A w, x \in new : SameKey(w, x) => w = x
  BY DEF StoreVote, SameKey
<1>4. ASSUME NEW p \in QuorumProofs(new), p \notin Statements(new \ table)
      PROVE  p \in QuorumProofs(table)
  <2>1. p \in Proofs /\ new \ table \subseteq AllVotes
    BY <1>1, StatementTypes
  <2>2. VotesFor(new \ table, p) = {}
    BY <1>4, <2>1, QuorumDef
  <2>3. VotesFor(new, p) = VotesFor(table, p)
    BY <1>1, <2>2 DEF VotesFor
  <2> QED BY <1>1, <2>3, QuorumMoved
<1> HIDE DEF new
<1>5. IsFiniteSet(new)
  BY <1>1, <1>2
<1> QED BY <1>1, <1>3, <1>4, <1>5 DEF new
-----------------------------------------------------------------------------
LEMMA InvInit == Init => MemberInv
<1> SUFFICES ASSUME Init PROVE MemberInv
  OBVIOUS
<1>1. TypeOK
  <2>1. rs \in RoundStates
    BY RoundIsNat DEF Init, Fresh, RoundStates, Votes
  <2>2. 0 \in 0..MaxRestarts
    BY MemberAssumption
  <2>3. votes = {} /\ future = {} /\ changed = {} /\ signed = {} /\ due = 0 /\ restarts = 0
    BY DEF Init
  <2>4. /\ best = None /\ proof = None /\ proposal = None /\ futureProposal = None
        /\ lock = None /\ closed = None /\ mute = FALSE /\ committed = FALSE /\ local \in Values
    BY DEF Init
  <2>5. /\ votes \subseteq SignedVotes(Peers \cup {Self}) /\ future \subseteq OfferedVotes
        /\ changed \subseteq Proofs /\ signed \subseteq SignedVotes({Self})
        /\ \A v, w \in votes : SameKey(v, w) => v = w
        /\ \A v \in future : v.round > rs.round
    BY <2>3
  <2>6. due \in 0..3 /\ restarts \in 0..MaxRestarts
    BY <2>2, <2>3
  <2> QED BY <2>1, <2>4, <2>5, <2>6 DEF TypeOK
<1>2. TablesOK /\ LocksBehind /\ PolcRemembered /\ ProofInStep /\ LockHasProof /\ VotesInWindow
  BY FS_EmptySet DEF Init, TablesOK, LocksBehind, PolcRemembered, ProofInStep, LockHasProof,
                     VotesInWindow, Fresh
<1>3. QuorumsQueued
  BY DEF Init, QuorumsQueued, QuorumProofs, Statements
<1> QED BY <1>1, <1>2, <1>3 DEF MemberInv

-----------------------------------------------------------------------------
(* RememberProof: the proof in memory never gets older, and the journal's  *)
(* follows it until a write fails.                                         *)

BestAdvances == best # None => best' # None /\ best'.round >= best.round

LEMMA RememberEffect ==
  ASSUME TypeOK, ProofInStep, LockHasProof, NEW p \in Proofs \cup {None},
         RememberProof(p) \/ RememberFails(p), UNCHANGED closed
  PROVE  /\ best' \in Proofs \cup {None} /\ proof' \in Proofs \cup {None} /\ mute' \in BOOLEAN
         /\ BestAdvances
         /\ Usable' => Usable /\ RememberProof(p)
         /\ ProofInStep'
         /\ lock' = lock => LockHasProof'
<1>1. best \in Proofs \cup {None} /\ proof \in Proofs \cup {None} /\ mute \in BOOLEAN
  BY DEF TypeOK
<1>2. \A q \in Proofs : q.round \in Nat /\ q # None
  BY RoundIsNat, ProofAssumption DEF Proofs
<1>3. lock # None => lock.round \in Nat
  BY RoundIsNat DEF TypeOK
<1>4. CASE Newer(p) /\ RememberProof(p)
  BY <1>1, <1>2, <1>3, <1>4 DEF RememberProof, Newer, BestAdvances, Usable, ProofInStep, LockHasProof
<1>5. CASE ~Newer(p) /\ RememberProof(p)
  BY <1>1, <1>2, <1>3, <1>5 DEF RememberProof, BestAdvances, Usable, ProofInStep, LockHasProof
<1>6. CASE RememberFails(p) /\ ~Usable
  BY <1>1, <1>2, <1>3, <1>6 DEF RememberFails, BestAdvances, Usable, ProofInStep, LockHasProof
<1>7. CASE RememberFails(p) /\ Usable
  <2>1. proof' \in {proof, p} /\ mute' = TRUE /\ best' = best /\ p # None
    BY <1>7 DEF RememberFails
  <2>2. ~Usable'
    BY <2>1 DEF Usable
  <2>3. lock # None => proof' # None /\ proof'.round >= lock.round
    <3>1. Newer(p) \/ p = best
      BY <1>7 DEF RememberFails
    <3>2. best = proof
      BY <1>7 DEF ProofInStep
    <3> QED BY <1>1, <1>2, <1>3, <2>1, <3>1, <3>2 DEF Newer, LockHasProof
  <2> QED BY <1>1, <1>2, <2>1, <2>2, <2>3 DEF BestAdvances, ProofInStep, LockHasProof
<1> QED BY <1>4, <1>5, <1>6, <1>7

LEMMA RememberDone ==
  ASSUME TypeOK, NEW p \in Proofs, RememberProof(p)
  PROVE  best' # None /\ best'.round >= p.round
<1>1. p # None /\ p.round \in Nat /\ (best # None => best.round \in Nat)
  BY RoundIsNat, ProofAssumption DEF Proofs, TypeOK
<1> QED BY <1>1 DEF RememberProof, Newer

LEMMA NotNewerKept ==
  ASSUME TypeOK, best' \in Proofs \cup {None}, BestAdvances, NEW p \in Proofs, ~Newer(p)
  PROVE  ~Newer(p)'
<1>1. /\ p # None /\ p.round \in Nat
      /\ best # None => best.round \in Nat
      /\ best' # None => best'.round \in Nat
  BY RoundIsNat, ProofAssumption DEF Proofs, TypeOK
<1> QED BY <1>1 DEF Newer, BestAdvances

(* A proof that is recorded already, or none, changes nothing.             *)
LEMMA NothingToRemember ==
  ASSUME UNCHANGED <<best, proof, mute>> PROVE RememberProof(None)
BY DEF RememberProof, Newer
-----------------------------------------------------------------------------
(* Entering a later round.                                                 *)

LEMMA FirstRetainedIs ==
  ASSUME NEW round \in Rounds, NEW n \in Rounds
  PROVE  FirstRetained(round) <= n <=> round < n + RoundHistory
BY RoundIsNat, MemberAssumption DEF FirstRetained

(* What AdvanceRound does with the proposal that was stored for later.     *)
LEMMA AdvanceTakes ==
  ASSUME TypeOK, NEW round \in Rounds, NEW reports, AdvanceRound(round, reports)
  PROVE  \E p \in Proofs \cup {None} :
           /\ RememberProof(p) \/ RememberFails(p)
           /\ \/ proposal' = None
              \/ /\ proposal' = futureProposal
                 /\ futureProposal.round = round
                 /\ p = futureProposal.polc /\ RememberProof(p)
           /\ \/ futureProposal' = None
              \/ futureProposal' = futureProposal /\ futureProposal.round > round
<1>1. futureProposal # None =>
        futureProposal.polc \in Proofs \cup {None} /\ futureProposal.round \in Nat
  BY OfferedTypes, RoundIsNat DEF TypeOK
<1>2. round \in Nat
  BY RoundIsNat
<1>3. CASE futureProposal # None /\ futureProposal.round < round
  <2>1. proposal' = None /\ futureProposal' = None /\ UNCHANGED <<best, proof, mute>>
    BY <1>1, <1>2, <1>3 DEF AdvanceRound
  <2> QED BY <2>1, NothingToRemember
<1>4. CASE futureProposal # None /\ futureProposal.round = round
  BY <1>1, <1>2, <1>4 DEF AdvanceRound
<1>5. CASE futureProposal = None \/ futureProposal.round > round
  <2>1. /\ proposal' = None /\ futureProposal' = futureProposal
        /\ UNCHANGED <<best, proof, mute>>
    BY <1>1, <1>2, <1>5 DEF AdvanceRound
  <2> QED BY <1>5, <2>1, NothingToRemember
<1> QED BY <1>1, <1>2, <1>3, <1>4, <1>5

LEMMA AdvanceKeeps ==
  ASSUME MemberInv, changed = {}, NEW round \in Rounds, round > rs.round,
         NEW reports \in SUBSET OfferedVotes, IsFiniteSet(reports),
         \A v \in reports : v.round > rs.round,
         \A v, w \in reports : v.member = w.member => v = w,
         AdvanceRound(round, reports),
         UNCHANGED <<lock, signed, closed, local, committed, restarts>>
  PROVE  MemberInv'
<1> DEFINE first == FirstRetained(round)
           kept == {v \in votes : v.round >= first}
           reached == {v \in reports : first <= v.round /\ v.round <= round}
<1>1. /\ rs' = Advanced(rs, round) /\ due' = 0
      /\ votes' = kept \cup reached
      /\ changed' = Statements(reached)
      /\ future' = {v \in reports : v.round > round}
  BY DEF AdvanceRound, ReportsAfter
<1>2. TypeOK /\ TablesOK /\ LocksBehind /\ VotesInWindow /\ ProofInStep /\ LockHasProof
  BY DEF MemberInv
<1>3. rs \in RoundStates /\ rs.round \in Nat /\ round \in Nat /\ rs.lockRound \in Nat
  BY <1>2, RoundIsNat DEF TypeOK, RoundStates
<1>4. rs' \in RoundStates /\ rs'.round = round /\ rs'.lockRound = rs.lockRound
  BY <1>1, <1>3 DEF Advanced, RoundStates
<1>5. PICK p \in Proofs \cup {None} :
        /\ RememberProof(p) \/ RememberFails(p)
        /\ \/ proposal' = None
           \/ /\ proposal' = futureProposal
              /\ futureProposal.round = round
              /\ p = futureProposal.polc /\ RememberProof(p)
        /\ \/ futureProposal' = None
           \/ futureProposal' = futureProposal /\ futureProposal.round > round
  BY <1>2, AdvanceTakes
<1>6. /\ best' \in Proofs \cup {None} /\ proof' \in Proofs \cup {None} /\ mute' \in BOOLEAN
      /\ BestAdvances /\ ProofInStep' /\ LockHasProof'
      /\ Usable' => Usable
  BY <1>2, <1>5, RememberEffect
<1>7. /\ votes \subseteq AllVotes /\ reports \subseteq AllVotes /\ reached \subseteq AllVotes
      /\ \A v \in AllVotes : v.round \in Rounds /\ v.round \in Nat
  BY <1>2, OfferedTypes, RoundIsNat DEF TypeOK, AllVotes, SignedVotes
<1>8. \A v \in kept : v.round <= rs.round /\ v.round < round /\ first <= v.round
  BY <1>2, <1>3, <1>7, MemberAssumption DEF VotesInWindow, FirstRetained
<1>9. VotesInWindow'
  <2>1. \A v \in votes' : v \in AllVotes /\ v.round <= round /\ first <= v.round
    BY <1>1, <1>3, <1>7, <1>8
  <2>2. \A v \in votes' : v.round <= round /\ round < v.round + RoundHistory
    BY <1>7, <2>1, FirstRetainedIs
  <2> QED BY <1>4, <2>2 DEF VotesInWindow
<1>10. \A v, w \in votes' : SameKey(v, w) => v = w
  <2> SUFFICES ASSUME NEW v \in votes', NEW w \in votes', SameKey(v, w) PROVE v = w
    OBVIOUS
  <2>1. v.round = w.round /\ v.member = w.member
    BY DEF SameKey
  <2>2. CASE v \in kept /\ w \in kept
    BY <1>2, <2>2 DEF TypeOK
  <2>3. CASE v \in reached /\ w \in reached
    BY <2>1, <2>3
  <2>4. CASE v \in kept /\ w \in reached
    BY <1>3, <1>7, <1>8, <2>1, <2>4
  <2>5. CASE v \in reached /\ w \in kept
    BY <1>3, <1>7, <1>8, <2>1, <2>5
  <2> QED BY <1>1, <2>2, <2>3, <2>4, <2>5
<1>11. /\ IsFiniteSet(votes') /\ IsFiniteSet(future')
  <2>1. kept \in SUBSET votes /\ reached \in SUBSET reports /\ future' \in SUBSET reports
    BY <1>1
  <2>2. IsFiniteSet(kept) /\ IsFiniteSet(reached) /\ IsFiniteSet(future')
    BY <1>2, <2>1, FS_Subset DEF TablesOK
  <2> QED BY <1>1, <2>2, FS_Union
<1>12. TypeOK'
  <2>1. votes' \subseteq SignedVotes(Peers \cup {Self}) /\ changed' \subseteq Proofs
    BY <1>1, <1>7, StatementTypes DEF AllVotes
  <2>2. future' \subseteq OfferedVotes /\ \A v \in future' : v.round > rs'.round
    BY <1>1, <1>4
  <2>3. /\ proposal' \in OfferedProposals \cup {None}
        /\ futureProposal' \in OfferedProposals \cup {None}
    BY <1>2, <1>5 DEF TypeOK
  <2>4. due' \in 0..3
    BY <1>1
  <2> QED BY <1>2, <1>4, <1>6, <1>10, <2>1, <2>2, <2>3, <2>4 DEF TypeOK
<1>13. TablesOK'
  <2>1. \A v, w \in future' : v.member = w.member => v = w
    BY <1>1
  <2>2. proposal' # None => proposal'.round = rs'.round
    BY <1>4, <1>5
  <2>3. futureProposal' # None => futureProposal'.round > rs'.round
    BY <1>4, <1>5
  <2> QED BY <1>2, <1>11, <2>1, <2>2, <2>3 DEF TablesOK, SameKey
<1>14. LocksBehind'
  <2>1. lock # None => lock.round \in Nat
    BY <1>2, RoundIsNat DEF TypeOK
  <2> QED BY <1>2, <1>3, <1>4, <2>1 DEF LocksBehind
<1>15. PolcRemembered'
  <2>1. CASE proposal' = None
    BY <2>1 DEF PolcRemembered
  <2>2. CASE proposal' = futureProposal /\ p = futureProposal.polc /\ RememberProof(p)
    BY <1>2, <2>2, RememberDone DEF PolcRemembered
  <2> QED BY <1>5, <2>1, <2>2
<1>16. QuorumsQueued'
  <2> SUFFICES ASSUME Usable', NEW q \in QuorumProofs(votes'), q \notin changed'
               PROVE  ~Newer(q)'
    BY DEF QuorumsQueued
  <2>1. votes' \subseteq AllVotes /\ q \in Proofs
    BY <1>1, <1>7, StatementTypes
  <2>2. VotesFor(reached, q) = {}
    BY <1>1, <1>7, <2>1, QuorumDef
  <2>3. PICK v \in kept : v.round = q.round
    <3>1. VotesFor(votes', q) # {}
      BY <2>1, QuorumDef DEF QuorumProofs
    <3> QED BY <1>1, <2>2, <3>1 DEF VotesFor
  <2>4. VotesFor(votes', q) = VotesFor(votes, q)
    BY <1>1, <2>2, <2>3 DEF VotesFor
  <2>5. q \in QuorumProofs(votes)
    BY <1>7, <2>1, <2>4, QuorumMoved
  <2>6. ~Newer(q)
    BY <1>6, <2>5 DEF MemberInv, QuorumsQueued
  <2> QED BY <1>2, <1>6, <2>1, <2>6, NotNewerKept
<1> QED BY <1>6, <1>9, <1>12, <1>13, <1>14, <1>15, <1>16 DEF MemberInv
-----------------------------------------------------------------------------
(* The signing gate.                                                       *)

OwnVote(step, next) ==
  [round |-> next.round, step |-> step, member |-> Self, value |-> next[step]]

(* The lock only moves to one that a recorded proof accounts for.          *)
Justified(next) ==
  \/ LockOf(next) = LockOf(rs)
  \/ best # None /\ next.lockRound <= best.round

LEMMA JournalVoteEffect ==
  ASSUME NEW step, NEW next, changed = {}, JournalVote(step, next)
  PROVE  /\ rs' = next
         /\ UNCHANGED <<best, future, proposal, futureProposal, due, proof, closed,
                        local, committed, restarts>>
         /\ \/ lock' = lock
            \/ Usable /\ LockOf(next) # LockOf(rs) /\ lock' = LockOf(next)
         /\ mute' \in {mute, TRUE}
         /\ \/ signed' = signed
            \/ /\ signed' = signed \cup {OwnVote(step, next)}
               /\ \A w \in signed : SameKey(OwnVote(step, next), w) => w = OwnVote(step, next)
         /\ votes' \in {votes, StoreVote(votes, OwnVote(step, next))}
         /\ changed' = Statements(votes' \ votes)
<1>1. Statements(votes \ votes) = {}
  BY DEF Statements
<1>2. \A v, w : SameKey(v, w) <=> SameKey(w, v)
  BY DEF SameKey
<1> DEFINE v == OwnVote(step, next)
<1>3. GetOrSignVote(v) =>
        /\ mute' \in {mute, TRUE}
        /\ \/ signed' = signed
           \/ signed' = signed \cup {v} /\ \A w \in signed : SameKey(v, w) => w = v
        /\ votes' \in {votes, StoreVote(votes, v)}
        /\ changed' = Statements(votes' \ votes)
  <2> HIDE DEF v
  <2> QED BY <1>1, <1>2 DEF GetOrSignVote
<1>4. /\ rs' = next
      /\ UNCHANGED <<best, future, proposal, futureProposal, due, proof, closed,
                     local, committed, restarts>>
      /\ \/ UNCHANGED <<lock, signed, mute, votes, changed>>
         \/ /\ LockRecordable(LockOf(next)) /\ LockOf(next) # LockOf(rs)
            /\ lock' \in {lock, LockOf(next)}
            /\ mute' = TRUE
            /\ UNCHANGED <<signed, votes, changed>>
         \/ /\ LockRecordable(LockOf(next))
            /\ RecordLock(LockOf(next))
            /\ GetOrSignVote(v)
  BY DEF JournalVote, OwnVote
<1> HIDE DEF v
<1>5. /\ \/ lock' = lock
         \/ Usable /\ LockOf(next) # LockOf(rs) /\ lock' = LockOf(next)
      /\ mute' \in {mute, TRUE}
      /\ \/ signed' = signed
         \/ signed' = signed \cup {v} /\ \A w \in signed : SameKey(v, w) => w = v
      /\ votes' \in {votes, StoreVote(votes, v)}
      /\ changed' = Statements(votes' \ votes)
  <2>1. CASE UNCHANGED <<lock, signed, mute, votes, changed>>
    BY <1>1, <2>1
  <2>2. CASE /\ LockRecordable(LockOf(next)) /\ LockOf(next) # LockOf(rs)
             /\ lock' \in {lock, LockOf(next)}
             /\ mute' = TRUE
             /\ UNCHANGED <<signed, votes, changed>>
    BY <1>1, <2>2 DEF LockRecordable
  <2>3. CASE /\ LockRecordable(LockOf(next))
             /\ RecordLock(LockOf(next))
             /\ GetOrSignVote(v)
    BY <1>3, <2>3 DEF LockRecordable, RecordLock
  <2> QED BY <1>4, <2>1, <2>2, <2>3
<1> QED BY <1>4, <1>5 DEF v

LEMMA VoteKeeps ==
  ASSUME MemberInv, changed = {},
         NEW step \in {"prevote", "precommit"}, NEW next \in RoundStates,
         next.round = rs.round, next.lockRound <= rs.round, next[step] \in Votes,
         Justified(next), JournalVote(step, next)
  PROVE  MemberInv'
<1> DEFINE v == OwnVote(step, next)
<1>1. /\ rs' = next
      /\ UNCHANGED <<best, future, proposal, futureProposal, due, proof, closed,
                     local, committed, restarts>>
      /\ \/ lock' = lock
         \/ Usable /\ LockOf(next) # LockOf(rs) /\ lock' = LockOf(next)
      /\ mute' \in {mute, TRUE}
      /\ \/ signed' = signed
         \/ signed' = signed \cup {v} /\ \A w \in signed : SameKey(v, w) => w = v
      /\ votes' \in {votes, StoreVote(votes, v)}
      /\ changed' = Statements(votes' \ votes)
  BY JournalVoteEffect
<1>2. TypeOK /\ TablesOK /\ LocksBehind /\ VotesInWindow /\ ProofInStep /\ LockHasProof
      /\ PolcRemembered
  BY DEF MemberInv
<1>3. rs \in RoundStates /\ rs.round \in Nat /\ next.round \in Rounds /\ next.lockRound \in Nat
  BY <1>2, RoundIsNat DEF TypeOK, RoundStates
<1>4. v \in SignedVotes({Self}) /\ v \in AllVotes /\ v.round = rs.round
  BY <1>3 DEF OwnVote, SignedVotes, AllVotes
<1> HIDE DEF v
<1>5. votes \subseteq AllVotes /\ \A w, x \in votes : SameKey(w, x) => w = x
  BY <1>2 DEF TypeOK, AllVotes
<1>6. /\ votes' \subseteq AllVotes /\ IsFiniteSet(votes')
      /\ votes' \subseteq votes \cup {v}
      /\ \A w, x \in votes' : SameKey(w, x) => w = x
      /\ QuorumProofs(votes') \subseteq QuorumProofs(votes) \cup Statements(votes' \ votes)
  <2>1. CASE votes' = votes
    BY <1>2, <1>5, <2>1 DEF TablesOK
  <2>2. CASE votes' = StoreVote(votes, v)
    BY <1>2, <1>4, <1>5, <2>2, StoreVoteKeeps DEF TablesOK
  <2> QED BY <1>1, <2>1, <2>2
<1>7. Usable' => Usable
  BY <1>1, <1>2 DEF Usable, TypeOK
<1>8. LockOf(next) \in [value : Votes, round : Rounds] /\ LockOf(next).round = next.lockRound
  BY DEF LockOf, RoundStates
<1>9. TypeOK'
  <2>1. changed' \subseteq Proofs
    BY <1>1, <1>6, StatementTypes
  <2>2. signed' \subseteq SignedVotes({Self})
    BY <1>1, <1>2, <1>4 DEF TypeOK
  <2>3. lock' \in [value : Votes, round : Rounds] \cup {None}
    BY <1>1, <1>2, <1>8 DEF TypeOK
  <2>4. mute' \in BOOLEAN
    BY <1>1, <1>2 DEF TypeOK
  <2>5. \A w \in future' : w.round > rs'.round
    BY <1>1, <1>2 DEF TypeOK
  <2> QED BY <1>1, <1>2, <1>6, <2>1, <2>2, <2>3, <2>4, <2>5 DEF TypeOK, AllVotes
<1>10. TablesOK'
  <2>1. IsFiniteSet(signed')
    BY <1>1, <1>2, FS_AddElement DEF TablesOK
  <2>2. \A w, x \in signed' : SameKey(w, x) => w = x
    <3>1. \A w, x : SameKey(w, x) <=> SameKey(x, w)
      BY DEF SameKey
    <3> QED BY <1>1, <1>2, <3>1 DEF TablesOK
  <2> QED BY <1>1, <1>2, <1>6, <2>1, <2>2 DEF TablesOK, SameKey
<1>11. LocksBehind' /\ LockHasProof'
  <2>1. best # None => best.round \in Nat
    BY <1>2, RoundIsNat DEF TypeOK, Proofs
  <2>2. CASE lock' = lock
    BY <1>1, <1>2, <2>2 DEF LocksBehind, LockHasProof
  <2>3. CASE Usable /\ LockOf(next) # LockOf(rs) /\ lock' = LockOf(next)
    <3>1. best = proof /\ best # None /\ next.lockRound <= best.round
      BY <1>2, <2>3 DEF Justified, ProofInStep
    <3> QED BY <1>1, <1>3, <1>8, <2>1, <2>3, <3>1 DEF LocksBehind, LockHasProof
  <2> QED BY <1>1, <2>2, <2>3
<1>12. VotesInWindow'
  <2>1. rs.round < rs.round + RoundHistory
    BY <1>3, MemberAssumption
  <2> QED BY <1>1, <1>2, <1>3, <1>4, <1>6, <2>1 DEF VotesInWindow
<1>13. ProofInStep' /\ PolcRemembered'
  BY <1>1, <1>2, <1>7 DEF ProofInStep, PolcRemembered
<1>14. QuorumsQueued'
  BY <1>1, <1>6, <1>7 DEF MemberInv, QuorumsQueued, Newer
<1> QED BY <1>9, <1>10, <1>11, <1>12, <1>13, <1>14 DEF MemberInv
-----------------------------------------------------------------------------
(* The decisions.                                                          *)

(* The lock moves to an earlier round by an unlock, or to this round by a  *)
(* precommit.                                                              *)
LockMoves(next) ==
  \/ LockOf(next) = LockOf(rs)
  \/ rs.lockRound < next.lockRound /\ next.lockRound < rs.round
  \/ next.lockRound = rs.round /\ next.precommit # None

Decision(step, next) ==
  /\ step \in {"prevote", "precommit"} /\ next \in RoundStates
  /\ rs.precommit = None
  /\ next.round = rs.round /\ next.lockRound <= rs.round /\ next[step] \in Votes
  /\ Justified(next) /\ LockMoves(next)

LEMMA PrevoteDecision ==
  ASSUME MemberInv, MayPrevote, NEW block \in Votes, NEW p \in Proofs \cup {None},
         p # None => best # None /\ p.round <= best.round /\ p.round < rs.round
  PROVE  Decision("prevote", Prevoted(rs, block, p))
<1> DEFINE next == Prevoted(rs, block, p)
<1>1. TypeOK /\ LocksBehind
  BY DEF MemberInv
<1>2. rs \in RoundStates /\ rs.round \in Nat /\ rs.lockRound \in Nat /\ rs.prevote = None
  BY <1>1, RoundIsNat DEF TypeOK, RoundStates, MayPrevote
<1>3. next \in RoundStates
  BY <1>2, PrevotedType
<1>4. next = [rs EXCEPT !.prevote = PrevoteValue(rs, block, p),
                        !.locked = IF Unlocks(rs, p) THEN Nil ELSE @,
                        !.lockRound = IF Unlocks(rs, p) THEN p.round ELSE @]
  BY <1>2 DEF Prevoted
<1>5. PrevoteValue(rs, block, p) \in Votes
  BY <1>2 DEF PrevoteValue, RoundStates
<1> HIDE DEF next
<1>6. /\ next.round = rs.round /\ next.prevote \in Votes
      /\ Unlocks(rs, p) => next.lockRound = p.round
      /\ ~Unlocks(rs, p) => next.lockRound = rs.lockRound /\ next.locked = rs.locked
  BY <1>2, <1>4, <1>5 DEF RoundStates
<1>7. next.lockRound <= rs.round
  <2>1. p # None => p.round \in Nat
    BY RoundIsNat DEF Proofs
  <2> QED BY <1>1, <1>2, <1>6, <2>1 DEF Unlocks, LocksBehind
<1>8. Justified(next) /\ LockMoves(next)
  BY <1>6 DEF Justified, LockMoves, Unlocks, LockOf
<1> QED BY <1>3, <1>6, <1>7, <1>8 DEF Decision, MayPrevote, next

LEMMA PrecommitDecision ==
  ASSUME MemberInv, rs.precommit = None, NEW p \in Proofs \cup {None},
         p # None => p.round = rs.round /\ ~Newer(p)
  PROVE  Decision("precommit", Precommitted(rs, p))
<1> DEFINE next == Precommitted(rs, p)
<1>1. TypeOK /\ LocksBehind
  BY DEF MemberInv
<1>2. rs \in RoundStates /\ rs.round \in Nat /\ rs.lockRound \in Nat
  BY <1>1, RoundIsNat DEF TypeOK, RoundStates
<1>3. next \in RoundStates
  BY <1>2, PrecommittedType
<1>4. next = [rs EXCEPT !.precommit = PrecommitValue(p),
                        !.locked = IF p = None THEN @ ELSE p.value,
                        !.lockRound = IF p = None THEN @ ELSE rs.round]
  BY DEF Precommitted
<1>5. PrecommitValue(p) \in Votes
  BY DEF PrecommitValue, Votes, Proofs
<1> HIDE DEF next
<1>6. /\ next.round = rs.round /\ next.precommit \in Votes
      /\ p # None => next.lockRound = rs.round
      /\ p = None => next.lockRound = rs.lockRound /\ next.locked = rs.locked
  BY <1>2, <1>4, <1>5 DEF RoundStates
<1>7. next.lockRound <= rs.round
  BY <1>1, <1>2, <1>6 DEF LocksBehind
<1>8. Justified(next) /\ LockMoves(next)
  <2>1. CASE p = None
    BY <1>6, <2>1 DEF Justified, LockMoves, LockOf
  <2>2. CASE p # None
    <3>1. best # None => best.round \in Nat
      BY <1>1, RoundIsNat DEF TypeOK, Proofs
    <3>2. next.precommit # None
      BY <1>6, ValueAssumption DEF Votes
    <3> QED BY <1>2, <1>6, <2>2, <3>1, <3>2 DEF Justified, LockMoves, Newer
  <2> QED BY <2>1, <2>2
<1> QED BY <1>3, <1>6, <1>7, <1>8 DEF Decision, next

(* Every vote is such a decision.                                          *)
VoteStep ==
  \/ PrevoteProposal \/ PrevoteNil \/ Propose
  \/ PrecommitQuorum \/ PrecommitNil

LEMMA VotesAreDecisions ==
  ASSUME MemberInv, VoteStep
  PROVE  /\ changed = {}
         /\ \E step \in {"prevote", "precommit"}, next \in RoundStates :
              Decision(step, next) /\ JournalVote(step, next)
<1>1. TypeOK /\ TablesOK /\ PolcRemembered
  BY DEF MemberInv
<1>2. changed = {}
  BY DEF VoteStep, PrevoteProposal, PrevoteNil, Propose, PrecommitQuorum, PrecommitNil, Driving
<1>3. rs \in RoundStates /\ rs.locked \in Votes /\ local \in Votes /\ Nil \in Votes
      /\ rs.round \in Nat
  BY <1>1, RoundIsNat DEF TypeOK, RoundStates, Votes
<1>4. best \in Proofs \cup {None} /\ (best # None => best.round \in Nat)
  BY <1>1, RoundIsNat DEF TypeOK, Proofs
<1>5. SUFFICES \E step, next : Decision(step, next) /\ JournalVote(step, next)
  BY <1>2 DEF Decision
<1>6. CASE PrevoteProposal
  <2>1. /\ MayPrevote /\ proposal # None
        /\ \/ JournalVote("prevote", Prevoted(rs, proposal.block, proposal.polc))
           \/ JournalVote("prevote", Prevoted(rs, Nil, None))
    BY <1>6 DEF PrevoteProposal
  <2>2. /\ proposal.block \in Votes /\ proposal.polc \in Proofs \cup {None}
        /\ proposal.polc # None =>
             proposal.polc.round \in Nat /\ proposal.polc.round < proposal.round
    BY <1>1, <2>1, OfferedTypes, RoundIsNat DEF TypeOK, Votes, Proofs
  <2>3. proposal.polc # None =>
          best # None /\ proposal.polc.round <= best.round /\ proposal.polc.round < rs.round
    BY <1>1, <1>3, <1>4, <2>1, <2>2 DEF TablesOK, PolcRemembered
  <2>4. Decision("prevote", Prevoted(rs, proposal.block, proposal.polc))
    BY <2>1, <2>2, <2>3, PrevoteDecision
  <2>5. Decision("prevote", Prevoted(rs, Nil, None))
    BY <1>3, <2>1, PrevoteDecision
  <2> QED BY <2>1, <2>4, <2>5
<1>7. CASE PrevoteNil
  <2>1. MayPrevote /\ JournalVote("prevote", Prevoted(rs, Nil, None))
    BY <1>7 DEF PrevoteNil
  <2>2. Decision("prevote", Prevoted(rs, Nil, None))
    BY <1>3, <2>1, PrevoteDecision
  <2> QED BY <2>1, <2>2
<1>8. CASE Propose
  <2>1. PICK p \in Proofs \cup {None}, block \in Votes :
          /\ p # None => p = best /\ best.round < rs.round
          /\ JournalVote("prevote", Prevoted(rs, block, p))
    <3> DEFINE p == IF best # None /\ best.round < rs.round THEN best ELSE None
               block == IF rs.locked # Nil /\ ~Unlocks(rs, p) THEN rs.locked ELSE local
    <3>1. JournalVote("prevote", Prevoted(rs, block, p))
      BY <1>8 DEF Propose
    <3>2. p \in Proofs \cup {None} /\ block \in Votes /\ (p # None => p = best /\ best.round < rs.round)
      BY <1>3, <1>4
    <3> HIDE DEF p, block
    <3> QED BY <3>1, <3>2
  <2>2. MayPrevote
    BY <1>8 DEF Propose
  <2>3. p # None => best # None /\ p.round <= best.round /\ p.round < rs.round
    BY <1>3, <1>4, <2>1
  <2>4. Decision("prevote", Prevoted(rs, block, p))
    BY <2>2, <2>3, PrevoteDecision
  <2> QED BY <2>1, <2>4
<1>9. CASE PrecommitQuorum
  <2>1. PICK p \in CurrentQuorums : JournalVote("precommit", Precommitted(rs, p))
    BY <1>9 DEF PrecommitQuorum
  <2>2. p \in Proofs /\ p.round = rs.round /\ ~Newer(p)
    BY <1>1, StatementTypes DEF CurrentQuorums, TypeOK, AllVotes
  <2>3. rs.precommit = None
    BY <1>9 DEF PrecommitQuorum, PrecommitIsDue
  <2>4. Decision("precommit", Precommitted(rs, p))
    BY <2>2, <2>3, PrecommitDecision
  <2> QED BY <2>1, <2>4
<1>10. CASE PrecommitNil
  <2>1. rs.precommit = None /\ JournalVote("precommit", Precommitted(rs, None))
    BY <1>10 DEF PrecommitNil
  <2>2. Decision("precommit", Precommitted(rs, None))
    BY <2>1, PrecommitDecision
  <2> QED BY <2>1, <2>2
<1> QED BY <1>6, <1>7, <1>8, <1>9, <1>10 DEF VoteStep
-----------------------------------------------------------------------------
(* Messages.                                                               *)

LEMMA AcceptVoteKeeps ==
  ASSUME MemberInv, NEW v \in OfferedVotes, AcceptVote(v)
  PROVE  MemberInv'
<1>1. /\ v.round <= rs.round /\ rs.round - v.round < RoundHistory
      /\ votes' = StoreVote(votes, v)
      /\ changed' = changed \cup Statements(votes' \ votes)
      /\ UNCHANGED <<rs, best, future, proposal, futureProposal, due, mute,
                     journal, local, committed, restarts>>
  BY DEF AcceptVote
<1>2. TypeOK /\ TablesOK /\ LocksBehind /\ VotesInWindow /\ ProofInStep /\ LockHasProof
      /\ PolcRemembered
  BY DEF MemberInv
<1>3. votes \subseteq AllVotes /\ v \in AllVotes
  BY <1>2, OfferedTypes DEF TypeOK, AllVotes
<1>4. /\ votes' \subseteq AllVotes /\ IsFiniteSet(votes')
      /\ votes' \subseteq votes \cup {v}
      /\ \A w, x \in votes' : SameKey(w, x) => w = x
      /\ QuorumProofs(votes') \subseteq QuorumProofs(votes) \cup Statements(votes' \ votes)
  <2>1. \A w, x \in votes : SameKey(w, x) => w = x
    BY <1>2 DEF TypeOK
  <2> QED BY <1>1, <1>2, <1>3, <2>1, StoreVoteKeeps DEF TablesOK
<1>5. TypeOK'
  <2>1. changed' \subseteq Proofs
    BY <1>1, <1>2, <1>4, StatementTypes DEF TypeOK
  <2> QED BY <1>1, <1>2, <1>4, <2>1 DEF TypeOK, AllVotes, journal
<1>6. TablesOK'
  BY <1>1, <1>2, <1>4 DEF TablesOK, SameKey, journal
<1>7. VotesInWindow'
  <2>1. v.round \in Nat /\ rs.round \in Nat /\ RoundHistory \in Nat
    BY <1>2, <1>3, RoundIsNat, MemberAssumption DEF TypeOK, RoundStates, AllVotes, SignedVotes
  <2>2. v.round <= rs.round /\ rs.round < v.round + RoundHistory
    BY <1>1, <2>1
  <2> QED BY <1>1, <1>2, <1>4, <2>2 DEF VotesInWindow
<1>8. /\ LocksBehind' /\ ProofInStep' /\ LockHasProof' /\ PolcRemembered'
  BY <1>1, <1>2 DEF LocksBehind, ProofInStep, Usable, LockHasProof, PolcRemembered, journal
<1>9. QuorumsQueued'
  BY <1>1, <1>4 DEF MemberInv, QuorumsQueued, Newer, Usable, journal
<1> QED BY <1>5, <1>6, <1>7, <1>8, <1>9 DEF MemberInv

(* The reports that remain when v replaces an older one of its sender.     *)
Reports(v) == {w \in future : w.member # v.member} \cup {v}

LEMMA ReportsOK ==
  ASSUME MemberInv, NEW v \in OfferedVotes, v.round > rs.round
  PROVE  /\ Reports(v) \in SUBSET OfferedVotes /\ IsFiniteSet(Reports(v))
         /\ \A w \in Reports(v) : w.round > rs.round
         /\ \A w, x \in Reports(v) : w.member = x.member => w = x
<1>1. TypeOK /\ TablesOK
  BY DEF MemberInv
<1> DEFINE others == {w \in future : w.member # v.member}
<1>2. others \in SUBSET future /\ IsFiniteSet(future)
  BY <1>1 DEF TablesOK
<1>3. IsFiniteSet(others)
  BY <1>2, FS_Subset
<1>4. IsFiniteSet(others \cup {v})
  BY <1>3, FS_AddElement
<1> QED BY <1>1, <1>4 DEF TypeOK, TablesOK, Reports

LEMMA CatchUpIsRound ==
  ASSUME MemberInv, NEW v \in OfferedVotes, v.round > rs.round,
         Cardinality(Reports(v)) >= CommitteeThreshold
  PROVE  /\ CatchUpRound(Reports(v)) \in Rounds
         /\ Cardinality({w \in Reports(v) : w.round >= CatchUpRound(Reports(v))})
              >= CommitteeThreshold
<1>1. Reports(v) \subseteq SignedVotes(Peers) /\ IsFiniteSet(Reports(v))
  BY ReportsOK, OfferAssumption
<1> QED BY <1>1, CatchUpRoundReached

LEMMA AcceptFutureVoteKeeps ==
  ASSUME MemberInv, NEW v \in OfferedVotes, AcceptFutureVote(v)
  PROVE  MemberInv'
<1> DEFINE reports == Reports(v)
           catchUp == CatchUpRound(reports)
<1>1. /\ changed = {} /\ v.round > rs.round
      /\ UNCHANGED <<local, committed, restarts>>
      /\ \/ /\ Cardinality(reports) >= CommitteeThreshold
            /\ CanAdvance(rs, catchUp)
            /\ AdvanceRound(catchUp, reports)
            /\ UNCHANGED <<lock, signed, closed>>
         \/ /\ future' = reports
            /\ UNCHANGED <<rs, votes, best, proposal, futureProposal, changed,
                           due, mute, journal>>
  BY DEF AcceptFutureVote, RecordedBefore, Reports
<1>2. TypeOK /\ TablesOK
  BY DEF MemberInv
<1>3. /\ reports \in SUBSET OfferedVotes /\ IsFiniteSet(reports)
      /\ \A w \in reports : w.round > rs.round
      /\ \A w, x \in reports : w.member = x.member => w = x
  BY <1>1, ReportsOK
<1>4. CASE /\ Cardinality(reports) >= CommitteeThreshold
           /\ CanAdvance(rs, catchUp)
           /\ AdvanceRound(catchUp, reports)
           /\ UNCHANGED <<lock, signed, closed>>
  <2>1. catchUp \in Rounds
    BY <1>1, <1>4, CatchUpIsRound
  <2>2. catchUp > rs.round
    BY <1>4 DEF CanAdvance
  <2> HIDE DEF catchUp, reports
  <2> QED BY <1>1, <1>3, <1>4, <2>1, <2>2, AdvanceKeeps
<1>5. CASE /\ future' = reports
           /\ UNCHANGED <<rs, votes, best, proposal, futureProposal, changed,
                          due, mute, journal>>
  <2> HIDE DEF reports
  <2>1. TypeOK'
    BY <1>1, <1>2, <1>3, <1>5 DEF TypeOK, journal
  <2>2. TablesOK'
    BY <1>1, <1>2, <1>3, <1>5 DEF TablesOK, SameKey, journal
  <2>3. /\ LocksBehind' /\ VotesInWindow' /\ ProofInStep' /\ LockHasProof'
        /\ PolcRemembered' /\ QuorumsQueued'
    BY <1>5 DEF MemberInv, LocksBehind, VotesInWindow, ProofInStep, LockHasProof,
                PolcRemembered, QuorumsQueued, Usable, Newer, journal
  <2> QED BY <2>1, <2>2, <2>3 DEF MemberInv
<1> QED BY <1>1, <1>4, <1>5

(* What recording a proof leaves of the invariant, when the votes and the  *)
(* lock stay and at most q leaves the queue.                               *)
LEMMA RememberKeeps ==
  ASSUME MemberInv, NEW p \in Proofs \cup {None},
         RememberProof(p) \/ RememberFails(p),
         changed' \subseteq changed,
         \A q \in (changed \ changed') \cap QuorumProofs(votes) : q = p,
         UNCHANGED <<rs, votes, future, lock, signed, closed>>
  PROVE  /\ LocksBehind' /\ VotesInWindow' /\ ProofInStep' /\ LockHasProof'
         /\ QuorumsQueued'
         /\ BestAdvances
         /\ best' \in Proofs \cup {None} /\ proof' \in Proofs \cup {None} /\ mute' \in BOOLEAN
<1>1. TypeOK /\ LocksBehind /\ VotesInWindow /\ ProofInStep /\ LockHasProof
  BY DEF MemberInv
<1>2. /\ best' \in Proofs \cup {None} /\ proof' \in Proofs \cup {None} /\ mute' \in BOOLEAN
      /\ BestAdvances /\ ProofInStep' /\ LockHasProof'
      /\ Usable' => Usable /\ RememberProof(p)
  BY <1>1, RememberEffect
<1>3. LocksBehind' /\ VotesInWindow'
  BY <1>1 DEF LocksBehind, VotesInWindow
<1>4. QuorumsQueued'
  <2> SUFFICES ASSUME Usable', NEW q \in QuorumProofs(votes), q \notin changed'
               PROVE  ~Newer(q)'
    BY DEF QuorumsQueued
  <2>1. q \in Proofs
    BY <1>1, StatementTypes DEF TypeOK, AllVotes
  <2>2. CASE q \notin changed
    <3>1. ~Newer(q)
      BY <1>2, <2>2 DEF MemberInv, QuorumsQueued
    <3> QED BY <1>1, <1>2, <2>1, <3>1, NotNewerKept
  <2>3. CASE q \in changed
    <3>1. q = p /\ RememberProof(q)
      BY <1>2, <2>3
    <3>2. best' # None /\ best'.round >= q.round
      BY <1>1, <2>1, <3>1, RememberDone
    <3>3. best'.round \in Nat /\ q.round \in Nat
      BY <1>2, <2>1, <3>2, RoundIsNat DEF Proofs
    <3> QED BY <3>2, <3>3 DEF Newer
  <2> QED BY <2>2, <2>3
<1> QED BY <1>2, <1>3, <1>4

LEMMA AcceptProposalKeeps ==
  ASSUME MemberInv, NEW q \in OfferedProposals, AcceptProposal(q)
  PROVE  MemberInv'
<1>1. TypeOK /\ TablesOK /\ PolcRemembered
  BY DEF MemberInv
<1>2. q.polc \in Proofs \cup {None}
  BY OfferedTypes
<1>3. PICK p \in Proofs \cup {None} :
        /\ RememberProof(p) \/ RememberFails(p)
        /\ \/ proposal' = proposal
           \/ /\ proposal' = q /\ q.round = rs.round
              /\ p = q.polc /\ RememberProof(p)
        /\ \/ futureProposal' = futureProposal
           \/ futureProposal' = q /\ q.round > rs.round
  <2>1. CASE q.round = rs.round /\ TakeProposal(q) /\ UNCHANGED futureProposal
    BY <1>2, <2>1 DEF TakeProposal
  <2>2. CASE /\ q.round > rs.round
             /\ futureProposal' = q
             /\ UNCHANGED <<best, proof, mute, proposal>>
    BY <2>2, NothingToRemember
  <2> QED BY <2>1, <2>2 DEF AcceptProposal
<1>4. UNCHANGED <<rs, votes, future, changed, due, lock, signed, closed,
                  local, committed, restarts>>
  BY DEF AcceptProposal
<1>5. /\ LocksBehind' /\ VotesInWindow' /\ ProofInStep' /\ LockHasProof'
      /\ QuorumsQueued'
      /\ BestAdvances
      /\ best' \in Proofs \cup {None} /\ proof' \in Proofs \cup {None} /\ mute' \in BOOLEAN
  BY <1>3, <1>4, RememberKeeps
<1>6. TypeOK'
  BY <1>1, <1>3, <1>4, <1>5 DEF TypeOK
<1>7. TablesOK'
  BY <1>1, <1>3, <1>4 DEF TablesOK, SameKey
<1>8. PolcRemembered'
  <2>1. CASE proposal' = proposal
    <3>1. proposal # None /\ proposal.polc # None => proposal.polc.round \in Nat
      BY <1>1, OfferedTypes, RoundIsNat DEF TypeOK, Proofs
    <3>2. best # None => best.round \in Nat /\ best'.round \in Nat
      BY <1>1, <1>5, RoundIsNat DEF TypeOK, Proofs, BestAdvances
    <3> QED BY <1>1, <1>5, <2>1, <3>1, <3>2 DEF PolcRemembered, BestAdvances
  <2>2. CASE proposal' = q /\ p = q.polc /\ RememberProof(p)
    BY <1>1, <2>2, RememberDone DEF PolcRemembered
  <2> QED BY <1>3, <2>1, <2>2
<1> QED BY <1>5, <1>6, <1>7, <1>8 DEF MemberInv

LEMMA PersistPrevotesKeeps ==
  ASSUME MemberInv, PersistPrevotes
  PROVE  MemberInv'
<1>1. TypeOK /\ TablesOK /\ PolcRemembered
  BY DEF MemberInv
<1>2. UNCHANGED <<rs, votes, future, proposal, futureProposal, due, lock, signed,
                  closed, local, committed, restarts>>
  BY DEF PersistPrevotes
<1>3. PICK p \in changed :
        /\ changed' = changed \ {p}
        /\ IF p \in QuorumProofs(votes)
           THEN RememberProof(p) \/ RememberFails(p)
           ELSE UNCHANGED <<best, proof, mute>>
  BY DEF PersistPrevotes
<1>4. p \in Proofs
  BY <1>1 DEF TypeOK
<1>5. /\ LocksBehind' /\ VotesInWindow' /\ ProofInStep' /\ LockHasProof'
      /\ QuorumsQueued'
      /\ BestAdvances
      /\ best' \in Proofs \cup {None} /\ proof' \in Proofs \cup {None} /\ mute' \in BOOLEAN
  <2>1. CASE p \in QuorumProofs(votes)
    BY <1>2, <1>3, <1>4, <2>1, RememberKeeps
  <2>2. CASE p \notin QuorumProofs(votes)
    <3>1. RememberProof(None)
      BY <1>3, <2>2, NothingToRemember
    <3>2. (changed \ changed') \cap QuorumProofs(votes) = {}
      BY <1>3, <2>2
    <3> QED BY <1>2, <1>3, <3>1, <3>2, RememberKeeps
  <2> QED BY <2>1, <2>2
<1>6. TypeOK'
  BY <1>1, <1>2, <1>3, <1>5 DEF TypeOK
<1>7. TablesOK'
  BY <1>1, <1>2 DEF TablesOK, SameKey
<1>8. PolcRemembered'
  <2>1. proposal # None /\ proposal.polc # None => proposal.polc.round \in Nat
    BY <1>1, OfferedTypes, RoundIsNat DEF TypeOK, Proofs
  <2>2. best # None => best.round \in Nat /\ best'.round \in Nat
    BY <1>1, <1>5, RoundIsNat DEF TypeOK, Proofs, BestAdvances
  <2> QED BY <1>1, <1>2, <1>5, <2>1, <2>2 DEF PolcRemembered, BestAdvances
<1> QED BY <1>5, <1>6, <1>7, <1>8 DEF MemberInv
-----------------------------------------------------------------------------
(* Commitments, time and restarts.                                         *)

LEMMA RecordCommitmentEffect ==
  ASSUME TypeOK, RecordCommitment
  PROVE  /\ committed' \in BOOLEAN /\ mute' \in {mute, TRUE}
         /\ \/ UNCHANGED journal
            \/ /\ closed' = local /\ ~Usable'
               /\ lock' = None /\ proof' = None /\ signed' = {}
<1>1. local # None /\ committed \in BOOLEAN
  BY ValueAssumption DEF TypeOK
<1> QED BY <1>1 DEF RecordCommitment, CloseJournal, Usable

(* It is the last thing that the journal takes for this height.            *)
LEMMA RecordCommitmentKeeps ==
  ASSUME MemberInv, RecordCommitment,
         \/ rs' = rs
         \/ rs' = Committed(rs, local) /\ changed = {},
         UNCHANGED <<votes, best, future, proposal, futureProposal, changed, due,
                     local, restarts>>
  PROVE  MemberInv'
<1>1. TypeOK /\ TablesOK /\ LocksBehind /\ VotesInWindow /\ ProofInStep /\ LockHasProof
      /\ PolcRemembered
  BY DEF MemberInv
<1>2. /\ committed' \in BOOLEAN /\ mute' \in {mute, TRUE}
      /\ \/ UNCHANGED journal
         \/ /\ closed' = local /\ ~Usable'
            /\ lock' = None /\ proof' = None /\ signed' = {}
  BY <1>1, RecordCommitmentEffect
<1>3. rs' \in RoundStates /\ rs'.round = rs.round /\ rs'.lockRound = rs.lockRound
  BY <1>1 DEF TypeOK, Committed, RoundStates, Votes
<1>4. Usable' => Usable /\ UNCHANGED journal
  BY <1>1, <1>2 DEF Usable, TypeOK, journal
<1>5. TypeOK'
  <2>1. mute' \in BOOLEAN
    BY <1>1, <1>2 DEF TypeOK
  <2> QED BY <1>1, <1>2, <1>3, <2>1 DEF TypeOK, journal
<1>6. TablesOK'
  <2>1. IsFiniteSet(signed') /\ \A v, w \in signed' : SameKey(v, w) => v = w
    BY <1>1, <1>2, FS_EmptySet DEF TablesOK, journal
  <2> QED BY <1>1, <1>3, <2>1 DEF TablesOK, SameKey
<1>7. LocksBehind' /\ VotesInWindow' /\ LockHasProof' /\ PolcRemembered'
  BY <1>1, <1>2, <1>3 DEF LocksBehind, VotesInWindow, LockHasProof, PolcRemembered, journal
<1>8. ProofInStep' /\ QuorumsQueued'
  BY <1>1, <1>4 DEF MemberInv, ProofInStep, QuorumsQueued, Newer, journal
<1> QED BY <1>5, <1>6, <1>7, <1>8 DEF MemberInv

LEMMA RoundTimeoutKeeps ==
  ASSUME MemberInv, RoundTimeout
  PROVE  MemberInv'
<1>1. TypeOK /\ TablesOK
  BY DEF MemberInv
<1>2. rs.round \in Nat /\ rs.round < MaxRound
  BY <1>1, RoundIsNat DEF TypeOK, RoundStates, RoundTimeout
<1>3. rs.round + 1 \in Rounds /\ rs.round + 1 > rs.round
  BY <1>2, RoundAssumption DEF Rounds
<1>4. /\ changed = {} /\ AdvanceRound(rs.round + 1, future)
      /\ UNCHANGED <<lock, signed, closed, local, committed, restarts>>
  BY DEF RoundTimeout, Driving
<1>5. /\ future \in SUBSET OfferedVotes /\ IsFiniteSet(future)
      /\ \A v \in future : v.round > rs.round
      /\ \A v, w \in future : v.member = w.member => v = w
  BY <1>1 DEF TypeOK, TablesOK
<1> QED BY <1>3, <1>4, <1>5, AdvanceKeeps

LEMMA OtherKeeps ==
  ASSUME MemberInv, Tick \/ Reorganize \/ UNCHANGED vars
  PROVE  MemberInv'
<1>1. TypeOK /\ TablesOK
  BY DEF MemberInv
<1>2. UNCHANGED <<rs, votes, best, future, proposal, futureProposal, changed, mute,
                  journal, committed, restarts>>
  BY DEF Tick, Reorganize, vars, memory
<1>3. due' \in 0..3 /\ local' \in Values
  BY <1>1 DEF Tick, Reorganize, vars, memory, TypeOK
<1>4. TypeOK'
  BY <1>1, <1>2, <1>3 DEF TypeOK, journal
<1>5. TablesOK'
  BY <1>1, <1>2 DEF TablesOK, SameKey, journal
<1>6. /\ LocksBehind' /\ VotesInWindow' /\ ProofInStep' /\ LockHasProof'
      /\ PolcRemembered' /\ QuorumsQueued'
  BY <1>2 DEF MemberInv, LocksBehind, VotesInWindow, ProofInStep, LockHasProof,
              PolcRemembered, QuorumsQueued, Usable, Newer, journal
<1> QED BY <1>4, <1>5, <1>6 DEF MemberInv

(* One member's votes are no quorum, so a restart forgets none.            *)
LEMMA OwnVotesAreNoQuorum ==
  ASSUME TypeOK, TablesOK, NEW round
  PROVE  QuorumProofs(OwnVotes(round)) = {}
<1> SUFFICES ASSUME NEW p \in QuorumProofs(OwnVotes(round)) PROVE FALSE
  OBVIOUS
<1>1. OwnVotes(round) \subseteq signed /\ signed \subseteq SignedVotes({Self})
  BY DEF TypeOK, OwnVotes
<1>2. OwnVotes(round) \subseteq AllVotes
  BY <1>1, OfferedTypes
<1>3. p \in Proofs
  BY <1>2, StatementTypes
<1> DEFINE A == VotesFor(OwnVotes(round), p)
<1>4. Cardinality(A) >= CommitteeThreshold
  BY <1>2, <1>3, QuorumDef
<1>5. \A v, w \in A : v = w
  <2> SUFFICES ASSUME NEW v \in A, NEW w \in A PROVE v = w
    OBVIOUS
  <2>1. v \in signed /\ w \in signed /\ v.round = w.round /\ v.step = w.step
    BY <1>1 DEF VotesFor
  <2>2. v.member = Self /\ w.member = Self
    BY <1>1, <2>1 DEF SignedVotes
  <2> QED BY <2>1, <2>2 DEF TablesOK, SameKey
<1> HIDE DEF A
<1>6. CASE A = {}
  BY <1>4, <1>6, FS_EmptySet, ThresholdType
<1>7. CASE A # {}
  <2>1. PICK v \in A : TRUE
    BY <1>7
  <2>2. A = {v}
    BY <1>5, <2>1
  <2>3. Cardinality(A) = 1
    BY <2>2, FS_Singleton
  <2> QED BY <1>4, <2>3, ThresholdType
<1> QED BY <1>6, <1>7

LEMMA RestartKeeps ==
  ASSUME MemberInv, Restart
  PROVE  MemberInv'
<1>1. TypeOK /\ TablesOK /\ LockHasProof
  BY DEF MemberInv
<1>2. /\ restarts < MaxRestarts /\ restarts' = restarts + 1
      /\ rs' = Restored(JournalRound, JournalLock, SignedValue(JournalRound, "prevote"),
                        SignedValue(JournalRound, "precommit"))
      /\ votes' = OwnVotes(JournalRound)
      /\ best' = proof /\ future' = {} /\ changed' = {}
      /\ proposal' = None /\ futureProposal' = None
      /\ due' = 0 /\ mute' = FALSE
      /\ UNCHANGED <<journal, local, committed>>
  BY DEF Restart
<1>3. /\ JournalLock \in [value : Votes, round : Rounds]
      /\ JournalRound \in Rounds
      /\ JournalLock.round <= JournalRound
  BY <1>1, JournalRoundType
<1> DEFINE r == JournalRound
           l == JournalLock
<1>4. ASSUME NEW step PROVE SignedValue(r, step) \in Votes \cup {None}
  <2> DEFINE own == {v \in OwnVotes(r) : v.step = step}
  <2>1. CASE own = {}
    BY <2>1 DEF SignedValue
  <2>2. CASE own # {}
    <3>1. (CHOOSE v \in own : TRUE) \in signed
      BY <2>2 DEF OwnVotes
    <3>2. (CHOOSE v \in own : TRUE).value \in Votes
      BY <1>1, <3>1 DEF TypeOK, SignedVotes
    <3> QED BY <2>2, <3>2 DEF SignedValue
  <2> QED BY <2>1, <2>2
<1>5. /\ rs' \in RoundStates /\ rs'.round = r /\ rs'.lockRound = l.round
  BY <1>2, <1>3, <1>4 DEF Restored, Fresh, RoundStates, Votes
<1> HIDE DEF r, l
<1>6. votes' \in SUBSET signed /\ \A v \in votes' : v.round = r
  BY <1>2 DEF OwnVotes, r
<1>7. IsFiniteSet(votes')
  BY <1>1, <1>6, FS_Subset DEF TablesOK
<1>8. TypeOK'
  <2>1. votes' \subseteq AllVotes
    BY <1>1, <1>6, OfferedTypes DEF TypeOK
  <2>2. \A v, w \in votes' : SameKey(v, w) => v = w
    BY <1>1, <1>6 DEF TablesOK
  <2>3. restarts' \in 0..MaxRestarts
    BY <1>1, <1>2, MemberAssumption DEF TypeOK
  <2>4. /\ future' \subseteq OfferedVotes /\ \A v \in future' : v.round > rs'.round
        /\ changed' \subseteq Proofs /\ due' \in 0..3
    BY <1>2
  <2> QED BY <1>1, <1>2, <1>5, <2>1, <2>2, <2>3, <2>4 DEF TypeOK, AllVotes, journal
<1>9. TablesOK'
  BY <1>1, <1>2, <1>7, FS_EmptySet DEF TablesOK, SameKey, journal
<1>10. LocksBehind'
  BY <1>2, <1>3, <1>5 DEF LocksBehind, JournalLock, journal, r, l
<1>11. VotesInWindow'
  <2>1. r \in Nat /\ r < r + RoundHistory
    BY <1>3, RoundIsNat, MemberAssumption DEF r
  <2> QED BY <1>5, <1>6, <2>1 DEF VotesInWindow
<1>12. ProofInStep' /\ LockHasProof' /\ PolcRemembered'
  BY <1>1, <1>2 DEF ProofInStep, LockHasProof, PolcRemembered, journal
<1>13. QuorumsQueued'
  BY <1>1, <1>2, OwnVotesAreNoQuorum DEF QuorumsQueued
<1> QED BY <1>8, <1>9, <1>10, <1>11, <1>12, <1>13 DEF MemberInv
-----------------------------------------------------------------------------
(* Every step, by the actions of Next.                                     *)

LEMMA NextCases ==
  ASSUME [Next]_vars
  PROVE  \/ \E v \in OfferedVotes : AcceptVote(v)
         \/ \E v \in OfferedVotes : AcceptFutureVote(v)
         \/ \E q \in OfferedProposals : AcceptProposal(q)
         \/ \E value \in OfferedCommitments : AcceptCommitment(value)
         \/ PersistPrevotes
         \/ VoteStep
         \/ Commit
         \/ RoundTimeout
         \/ Tick \/ Reorganize \/ UNCHANGED vars
         \/ Restart
BY DEF Next, Drive, VoteStep

LEMMA InvStep == MemberInv /\ [Next]_vars => MemberInv'
<1> SUFFICES ASSUME MemberInv, [Next]_vars PROVE MemberInv'
  OBVIOUS
<1>1. CASE \E v \in OfferedVotes : AcceptVote(v)
  BY <1>1, AcceptVoteKeeps
<1>2. CASE \E v \in OfferedVotes : AcceptFutureVote(v)
  BY <1>2, AcceptFutureVoteKeeps
<1>3. CASE \E q \in OfferedProposals : AcceptProposal(q)
  BY <1>3, AcceptProposalKeeps
<1>4. CASE \E value \in OfferedCommitments : AcceptCommitment(value)
  <2>1. /\ RecordCommitment
        /\ UNCHANGED <<rs, votes, best, future, proposal, futureProposal, changed, due,
                       local, restarts>>
    BY <1>4 DEF AcceptCommitment
  <2> QED BY <2>1, RecordCommitmentKeeps
<1>5. CASE PersistPrevotes
  BY <1>5, PersistPrevotesKeeps
<1>6. CASE VoteStep
  <2>1. PICK step \in {"prevote", "precommit"}, next \in RoundStates :
          Decision(step, next) /\ JournalVote(step, next)
    BY <1>6, VotesAreDecisions
  <2>2. changed = {}
    BY <1>6, VotesAreDecisions
  <2> QED BY <2>1, <2>2, VoteKeeps DEF Decision
<1>7. CASE Commit
  <2>1. /\ RecordCommitment /\ rs' = Committed(rs, local) /\ changed = {}
        /\ UNCHANGED <<votes, best, future, proposal, futureProposal, changed, due,
                       local, restarts>>
    BY <1>7 DEF Commit, Driving
  <2> QED BY <2>1, RecordCommitmentKeeps
<1>8. CASE RoundTimeout
  BY <1>8, RoundTimeoutKeeps
<1>9. CASE Tick \/ Reorganize \/ UNCHANGED vars
  BY <1>9, OtherKeeps
<1>10. CASE Restart
  BY <1>10, RestartKeeps
<1> QED BY <1>1, <1>2, <1>3, <1>4, <1>5, <1>6, <1>7, <1>8, <1>9, <1>10, NextCases

LEMMA InvHolds == Spec => []MemberInv
BY InvInit, InvStep, PTL DEF Spec
-----------------------------------------------------------------------------
(* What the invariant gives.                                               *)

(* Variables keep their types (Manager::Height).                           *)
THEOREM TypeCorrect == Spec => []TypeOK
<1>1. MemberInv => TypeOK
  BY DEF MemberInv
<1> QED BY <1>1, InvHolds, PTL

(* Votes are kept of the last RoundHistory rounds only (StoreVote and      *)
(* AdvanceRound, pqfinality.cpp).                                          *)
THEOREM VotesInWindowHolds == Spec => []VotesInWindow
<1>1. MemberInv => VotesInWindow
  BY DEF MemberInv
<1> QED BY <1>1, InvHolds, PTL

(* A journalled lock always has its proof in the journal, whatever fails,  *)
(* so that CheckContext never refuses a restart for want of it.            *)
THEOREM LockHasProofHolds == Spec => []LockHasProof
<1>1. MemberInv => LockHasProof
  BY DEF MemberInv
<1> QED BY <1>1, InvHolds, PTL

(* The newest prevote quorum among the votes is recorded before anything   *)
(* is decided (persistPrevotes, pqfinality.cpp).                           *)
THEOREM QuorumsRememberedHolds == Spec => []QuorumsRemembered
<1>1. MemberInv => QuorumsRemembered
  BY DEF MemberInv, QuorumsQueued, QuorumsRemembered
<1> QED BY <1>1, InvHolds, PTL
-----------------------------------------------------------------------------
(* Steps that neither vote nor restart.                                    *)

(* An advance, with what it does to the proofs.                            *)
Advances ==
  /\ changed = {}
  /\ \E round \in Rounds : round > rs.round /\ rs' = Advanced(rs, round)
  /\ BestAdvances
  /\ Usable' => Usable
  /\ UNCHANGED <<lock, signed, closed>>

LEMMA AdvanceEffect ==
  ASSUME MemberInv, changed = {}, NEW round \in Rounds, round > rs.round, NEW reports,
         AdvanceRound(round, reports), UNCHANGED <<lock, signed, closed>>
  PROVE  Advances
<1>1. TypeOK /\ ProofInStep /\ LockHasProof
  BY DEF MemberInv
<1>2. rs' = Advanced(rs, round)
  BY DEF AdvanceRound
<1>3. PICK p \in Proofs \cup {None} : RememberProof(p) \/ RememberFails(p)
  BY <1>1, AdvanceTakes
<1>4. BestAdvances /\ (Usable' => Usable)
  BY <1>1, <1>3, RememberEffect
<1> QED BY <1>2, <1>4 DEF Advances

Stays ==
  /\ rs' = rs \/ rs' = Committed(rs, local)
  /\ votes \subseteq votes'
  /\ Usable' => Usable /\ lock' = lock
  /\ lock' \in {lock, None}

LEMMA QuietStep ==
  ASSUME MemberInv, [Next]_vars
  PROVE  VoteStep \/ Restart \/ Advances \/ Stays
<1>1. TypeOK /\ ProofInStep /\ LockHasProof
  BY DEF MemberInv
<1>2. ASSUME NEW p \in Proofs \cup {None}, RememberProof(p) \/ RememberFails(p), UNCHANGED closed
      PROVE  Usable' => Usable
  BY <1>1, <1>2, RememberEffect
<1>3. ASSUME NEW v \in OfferedVotes, AcceptVote(v) PROVE Stays
  BY <1>3 DEF AcceptVote, StoreVote, Stays, Usable, journal
<1>4. ASSUME NEW v \in OfferedVotes, AcceptFutureVote(v) PROVE Advances \/ Stays
  <2> DEFINE catchUp == CatchUpRound(Reports(v))
  <2>1. /\ changed = {} /\ v.round > rs.round
        /\ \/ /\ Cardinality(Reports(v)) >= CommitteeThreshold
              /\ CanAdvance(rs, catchUp)
              /\ AdvanceRound(catchUp, Reports(v))
              /\ UNCHANGED <<lock, signed, closed>>
           \/ UNCHANGED <<rs, votes, mute, journal>>
    BY <1>4 DEF AcceptFutureVote, RecordedBefore, Reports
  <2>2. CASE /\ Cardinality(Reports(v)) >= CommitteeThreshold
             /\ CanAdvance(rs, catchUp)
             /\ AdvanceRound(catchUp, Reports(v))
             /\ UNCHANGED <<lock, signed, closed>>
    <3>1. catchUp \in Rounds /\ catchUp > rs.round
      BY <2>1, <2>2, CatchUpIsRound DEF CanAdvance
    <3> HIDE DEF catchUp
    <3> QED BY <2>1, <2>2, <3>1, AdvanceEffect
  <2>3. CASE UNCHANGED <<rs, votes, mute, journal>>
    BY <2>3 DEF Stays, Usable, journal
  <2> QED BY <2>1, <2>2, <2>3
<1>5. ASSUME NEW q \in OfferedProposals, AcceptProposal(q) PROVE Stays
  <2>1. UNCHANGED <<rs, votes, lock, closed>>
    BY <1>5 DEF AcceptProposal
  <2>2. (\E p \in Proofs \cup {None} : RememberProof(p) \/ RememberFails(p))
    BY <1>5, OfferedTypes, NothingToRemember DEF AcceptProposal, TakeProposal
  <2> QED BY <1>2, <2>1, <2>2 DEF Stays
<1>6. ASSUME NEW value \in OfferedCommitments, AcceptCommitment(value) PROVE Stays
  <2>1. RecordCommitment /\ UNCHANGED <<rs, votes>>
    BY <1>6 DEF AcceptCommitment
  <2> QED BY <1>1, <2>1, RecordCommitmentEffect DEF Stays, Usable, TypeOK, journal
<1>7. CASE PersistPrevotes
  <2>1. UNCHANGED <<rs, votes, lock, closed>>
    BY <1>7 DEF PersistPrevotes
  <2>2. PICK p \in changed :
          RememberProof(p) \/ RememberFails(p) \/ UNCHANGED <<best, proof, mute>>
    BY <1>7 DEF PersistPrevotes
  <2>3. p \in Proofs
    BY <1>1 DEF TypeOK
  <2> QED BY <1>2, <2>1, <2>2, <2>3, NothingToRemember DEF Stays
<1>8. CASE Commit
  <2>1. RecordCommitment /\ rs' = Committed(rs, local) /\ UNCHANGED votes
    BY <1>8 DEF Commit
  <2> QED BY <1>1, <2>1, RecordCommitmentEffect DEF Stays, Usable, TypeOK, journal
<1>9. CASE RoundTimeout
  <2>1. /\ changed = {} /\ AdvanceRound(rs.round + 1, future)
        /\ UNCHANGED <<lock, signed, closed>>
    BY <1>9 DEF RoundTimeout, Driving
  <2>2. rs.round + 1 \in Rounds /\ rs.round + 1 > rs.round
    BY <1>1, <1>9, RoundAssumption DEF RoundTimeout, TypeOK, RoundStates, Rounds
  <2> QED BY <2>1, <2>2, AdvanceEffect
<1>10. CASE Tick \/ Reorganize \/ UNCHANGED vars
  BY <1>10 DEF Tick, Reorganize, vars, memory, journal, Stays, Usable
<1> QED BY <1>3, <1>4, <1>5, <1>6, <1>7, <1>8, <1>9, <1>10, NextCases
-----------------------------------------------------------------------------
(* The lock.                                                               *)

LEMMA VoteKeepsLock ==
  ASSUME MemberInv, VoteStep
  PROVE  /\ ~Reentered => ~Reentered'
         /\ LockInStep /\ ~Reentered => LockInStep'
<1>1. TypeOK /\ LocksBehind
  BY DEF MemberInv
<1>2. changed = {} /\ \E step \in {"prevote", "precommit"}, next \in RoundStates :
                        Decision(step, next) /\ JournalVote(step, next)
  BY VotesAreDecisions
<1>3. PICK step \in {"prevote", "precommit"}, next \in RoundStates :
        Decision(step, next) /\ JournalVote(step, next)
  BY <1>2
<1>4. /\ rs' = next /\ next.round = rs.round /\ rs.precommit = None
      /\ LockMoves(next) /\ next.lockRound <= rs.round
      /\ closed' = closed
  BY <1>3 DEF Decision, JournalVote
<1>5. \/ lock' = lock
      \/ LockOf(next) # LockOf(rs) /\ lock' = LockOf(next)
  BY <1>2, <1>3, JournalVoteEffect
<1>6. rs \in RoundStates /\ rs.round \in Nat /\ rs.lockRound \in Nat /\ next.lockRound \in Nat
  BY <1>1, RoundIsNat DEF TypeOK, RoundStates
<1>7. LockOf(next).round = next.lockRound /\ LockOf(rs).round = rs.lockRound
  BY DEF LockOf
<1>8. lock # None => lock.round \in Nat /\ lock.round <= rs.round
  BY <1>1, RoundIsNat DEF TypeOK, LocksBehind
<1>9. ~Reentered => ~Reentered'
  BY <1>4, <1>5, <1>6, <1>7, <1>8 DEF Reentered, LockMoves
<1>10. ASSUME LockInStep, ~Reentered, Usable' PROVE JournalLock' = LockOf(next)
  <2>1. Usable /\ mute' = FALSE
    BY <1>1, <1>2, <1>3, <1>10, JournalVoteEffect DEF Usable, TypeOK
  <2>2. JournalLock = LockOf(rs)
    BY <1>10, <2>1 DEF LockInStep
  <2>3. lock # None => lock = LockOf(rs) /\ lock.round < rs.round
    BY <1>4, <1>6, <1>8, <1>10, <2>2 DEF JournalLock, Reentered
  <2>4. LockRecordable(LockOf(next))
    <3>1. lock # None => LockOf(next).round > lock.round \/ LockOf(next) = lock
      BY <1>4, <1>6, <1>7, <2>3 DEF LockMoves
    <3> QED BY <2>1, <2>2, <3>1 DEF LockRecordable
  <2>5. RecordLock(LockOf(next))
    BY <1>3, <2>1, <2>4 DEF JournalVote
  <2>6. CASE LockOf(next) = LockOf(rs)
    BY <2>2, <2>5, <2>6 DEF RecordLock, JournalLock
  <2>7. CASE LockOf(next) # LockOf(rs)
    <3>1. lock' = LockOf(next)
      BY <2>5, <2>7 DEF RecordLock
    <3>2. lock' # None
      <4>1. LockOf(next) = [value |-> next.locked, round |-> next.lockRound]
        BY DEF LockOf
      <4>2. lock' \in Proofs
        BY <3>1, <4>1 DEF RoundStates, Proofs
      <4> QED BY <4>2, ProofAssumption
    <3> QED BY <3>1, <3>2 DEF JournalLock
  <2> QED BY <2>6, <2>7
<1> QED BY <1>4, <1>9, <1>10 DEF LockInStep

LEMMA QuietKeepsLock ==
  ASSUME MemberInv, Advances \/ Stays
  PROVE  /\ ~Reentered => ~Reentered'
         /\ LockInStep => LockInStep'
<1>1. TypeOK /\ LocksBehind
  BY DEF MemberInv
<1>2. rs \in RoundStates /\ rs.round \in Nat
  BY <1>1, RoundIsNat DEF TypeOK, RoundStates
<1>3. lock # None => lock.round \in Nat /\ lock.round <= rs.round
  BY <1>1, RoundIsNat DEF TypeOK, LocksBehind
<1>4. CASE Advances
  <2>1. PICK round \in Rounds : round > rs.round /\ rs' = Advanced(rs, round)
    BY <1>4 DEF Advances
  <2>2. rs'.round = round /\ round \in Nat /\ LockOf(rs') = LockOf(rs)
    BY <1>2, <2>1, RoundIsNat DEF Advanced, LockOf, RoundStates
  <2>3. lock' = lock /\ (Usable' => Usable)
    BY <1>4 DEF Advances
  <2> QED BY <1>2, <1>3, <2>1, <2>2, <2>3 DEF Reentered, LockInStep, JournalLock
<1>5. CASE Stays
  <2>1. rs'.round = rs.round /\ rs'.precommit = rs.precommit /\ LockOf(rs') = LockOf(rs)
    BY <1>2, <1>5 DEF Stays, Committed, LockOf, RoundStates
  <2> QED BY <1>5, <2>1 DEF Stays, Reentered, LockInStep, JournalLock
<1> QED BY <1>4, <1>5

LEMMA RestartKeepsLock ==
  ASSUME MemberInv, Restart
  PROVE  LockInStep' /\ restarts' # restarts
<1>1. TypeOK
  BY DEF MemberInv
<1>2. JournalLock \in [value : Votes, round : Rounds]
  BY <1>1, JournalRoundType
<1>3. restarts' = restarts + 1 /\ restarts \in Nat
  BY <1>1, MemberAssumption DEF Restart, TypeOK
<1>4. JournalLock' = JournalLock
  BY DEF Restart, journal, JournalLock
<1>5. rs'.locked = JournalLock.value /\ rs'.lockRound = JournalLock.round
  BY DEF Restart, Restored, Fresh
<1>6. LockOf(rs') = JournalLock
  BY <1>2, <1>5 DEF LockOf
<1> QED BY <1>3, <1>4, <1>6 DEF LockInStep

(* Whatever the signer, the disk and the peers do, memory and journal part *)
(* about the lock in a re-entered round only, and only a restart re-enters *)
(* one (JournalVote, pqfinality.cpp).                                      *)
THEOREM LockKeptHolds == Spec => LockKept
<1>1. MemberInv /\ [Next]_vars =>
        [/\ LockInStep /\ ~Reentered => LockInStep'
         /\ restarts' = restarts /\ ~Reentered => ~Reentered']_vars
  BY QuietStep, VoteKeepsLock, QuietKeepsLock, RestartKeepsLock
<1> QED BY <1>1, InvHolds, PTL DEF Spec, LockKept

(* A member that has not restarted never meets a lock mismatch             *)
(* (pq-finality-journal-lock-mismatch) while it can write.                 *)
THEOREM LockInStepUntilRestart == Spec => [](restarts = 0 => LockInStep)
<1> DEFINE Inv == restarts = 0 => LockInStep /\ ~Reentered
<1>1. Init => Inv
  BY DEF Init, LockInStep, JournalLock, Reentered, LockOf, Fresh
<1>2. MemberInv /\ Inv /\ [Next]_vars => Inv'
  <2> SUFFICES ASSUME MemberInv, Inv, [Next]_vars, restarts' = 0
               PROVE  LockInStep' /\ ~Reentered'
    OBVIOUS
  <2>1. TypeOK
    BY DEF MemberInv
  <2>2. CASE Restart
    BY <2>1, <2>2, MemberAssumption DEF Restart, TypeOK
  <2>3. CASE ~Restart
    <3>1. restarts' = restarts
      BY <2>3 DEF Next, Drive, AcceptVote, AcceptFutureVote, AcceptProposal, AcceptCommitment,
                  PersistPrevotes, PrevoteProposal, PrevoteNil, Propose, PrecommitQuorum,
                  PrecommitNil, JournalVote, Commit, RoundTimeout, Tick, Reorganize, vars
    <3> QED BY <2>3, <3>1, QuietStep, VoteKeepsLock, QuietKeepsLock
  <2> QED BY <2>2, <2>3
<1>3. Inv => (restarts = 0 => LockInStep)
  OBVIOUS
<1> HIDE DEF Inv
<1> QED BY <1>1, <1>2, <1>3, InvHolds, PTL DEF Spec
-----------------------------------------------------------------------------
(* Quorums and rounds.                                                     *)

(* No quorum is lost with the votes of a round that is left behind: it, or *)
(* a later one, is in the journal (AdvanceRound, pqfinality.cpp).          *)
THEOREM NoQuorumDroppedHolds == Spec => NoQuorumDropped
<1>1. ASSUME MemberInv, MemberInv', [Next]_vars, restarts' = restarts, Usable',
             NEW p \in QuorumProofs(votes) \ QuorumProofs(votes')
      PROVE  proof' # None /\ proof'.round >= p.round
  <2>1. TypeOK /\ TypeOK' /\ TablesOK' /\ ProofInStep'
    BY <1>1 DEF MemberInv
  <2>2. p \in Proofs
    BY <2>1, StatementTypes DEF TypeOK, AllVotes
  <2>3. ~(votes \subseteq votes')
    BY <1>1, <2>1, QuorumGrows DEF TypeOK, TablesOK, AllVotes
  <2>4. Advances
    <3>1. ~Restart
      BY <1>1, RestartKeepsLock
    <3>2. ~Stays
      BY <2>3 DEF Stays
    <3>3. ~VoteStep
      <4>1. SUFFICES ASSUME VoteStep PROVE FALSE
        OBVIOUS
      <4>2. PICK step, next : changed = {} /\ JournalVote(step, next)
        BY <1>1, <4>1, VotesAreDecisions
      <4>3. votes' \in {votes, StoreVote(votes, OwnVote(step, next))}
        BY <4>2, JournalVoteEffect
      <4> QED BY <2>3, <4>3 DEF StoreVote
    <3> QED BY <1>1, <3>1, <3>2, <3>3, QuietStep
  <2>5. ~Newer(p)
    BY <1>1, <2>4 DEF Advances, MemberInv, QuorumsQueued
  <2>6. ~Newer(p)'
    BY <2>1, <2>2, <2>4, <2>5, NotNewerKept DEF Advances, TypeOK
  <2>7. best' = proof' /\ (best' # None => best'.round \in Nat) /\ p # None /\ p.round \in Nat
    BY <1>1, <2>1, <2>2, RoundIsNat, ProofAssumption DEF ProofInStep, TypeOK, Proofs
  <2> QED BY <2>6, <2>7 DEF Newer
<1>2. MemberInv /\ MemberInv' /\ [Next]_vars =>
        [restarts' = restarts /\ Usable' =>
           \A p \in QuorumProofs(votes) \ QuorumProofs(votes') :
             proof' # None /\ proof'.round >= p.round]_vars
  BY <1>1
<1> QED BY <1>2, InvHolds, PTL DEF Spec, NoQuorumDropped

(* Only an advance on reports skips a round.                               *)
LEMMA SkipsOnReports ==
  ASSUME MemberInv, [Next]_vars, restarts' = restarts, rs'.round > rs.round + 1
  PROVE  \E v \in OfferedVotes :
           /\ v.round > rs.round
           /\ Cardinality(Reports(v)) >= CommitteeThreshold
           /\ rs'.round = CatchUpRound(Reports(v))
<1>1. TypeOK
  BY DEF MemberInv
<1>2. rs \in RoundStates /\ rs.round \in Nat
  BY <1>1, RoundIsNat DEF TypeOK, RoundStates
<1>3. ~Restart
  BY RestartKeepsLock
<1>4. ~VoteStep
  <2>1. SUFFICES ASSUME VoteStep PROVE FALSE
    OBVIOUS
  <2>2. PICK step \in {"prevote", "precommit"}, next \in RoundStates :
          Decision(step, next) /\ JournalVote(step, next)
    BY <2>1, VotesAreDecisions
  <2>3. rs'.round = rs.round
    BY <2>2 DEF Decision, JournalVote
  <2>4. ~(rs.round > rs.round + 1)
    BY <1>2
  <2> QED BY <2>3, <2>4
<1>5. rs' # rs /\ rs' # Committed(rs, local) /\ rs' # Advanced(rs, rs.round + 1)
  <2>1. Committed(rs, local).round = rs.round /\ Advanced(rs, rs.round + 1).round = rs.round + 1
    BY <1>2 DEF Committed, Advanced, RoundStates
  <2>2. ~(rs.round > rs.round + 1) /\ ~(rs.round + 1 > rs.round + 1)
    BY <1>2
  <2> QED BY <2>1, <2>2
<1>6. ~RoundTimeout
  BY <1>5 DEF RoundTimeout, AdvanceRound
<1>7. ~Commit
  BY <1>5 DEF Commit
<1>8. PICK v \in OfferedVotes : AcceptFutureVote(v)
  BY <1>3, <1>4, <1>5, <1>6, <1>7, NextCases
     DEF AcceptVote, AcceptProposal, AcceptCommitment, PersistPrevotes, Tick, Reorganize,
         vars, memory
<1> DEFINE catchUp == CatchUpRound(Reports(v))
<1>9. /\ v.round > rs.round
      /\ Cardinality(Reports(v)) >= CommitteeThreshold
      /\ rs' = Advanced(rs, catchUp)
  BY <1>5, <1>8 DEF AcceptFutureVote, AdvanceRound, Reports
<1>10. Advanced(rs, catchUp).round = catchUp
  BY <1>2 DEF Advanced, RoundStates
<1> QED BY <1>9, <1>10

(* The senders of a quorum of reports are a quorum, and all but the last   *)
(* of them were stored.                                                    *)
LEMMA ReportersAreQuorum ==
  ASSUME MemberInv, NEW v \in OfferedVotes, NEW round,
         Cardinality({w \in Reports(v) : w.round >= round}) >= CommitteeThreshold
  PROVE  Cardinality({w.member : w \in {x \in future : x.round >= round}})
           >= CommitteeThreshold - 1
<1> DEFINE A == {w \in future : w.member # v.member /\ w.round >= round}
           B == {w \in Reports(v) : w.round >= round}
           M == {w.member : w \in {x \in future : x.round >= round}}
<1>1. TypeOK /\ TablesOK
  BY DEF MemberInv
<1>2. A \in SUBSET future /\ B \in SUBSET (A \cup {v})
  BY DEF Reports
<1>3. IsFiniteSet(A)
  BY <1>1, <1>2, FS_Subset DEF TablesOK
<1>4. /\ IsFiniteSet(A \cup {v})
      /\ Cardinality(A \cup {v}) \in {Cardinality(A), Cardinality(A) + 1}
  BY <1>3, FS_AddElement
<1>5. IsFiniteSet(B) /\ Cardinality(B) <= Cardinality(A \cup {v})
  BY <1>2, <1>4, FS_Subset
<1>6. M \in SUBSET Peers
  BY <1>1, OfferAssumption DEF TypeOK, SignedVotes
<1>7. IsFiniteSet(M)
  BY <1>6, MemberAssumption, FS_Subset
<1>8. ~(Cardinality(M) < Cardinality(A))
  <2> SUFFICES ASSUME Cardinality(M) < Cardinality(A) PROVE FALSE
    OBVIOUS
  <2> DEFINE sender == [w \in A |-> w.member]
  <2>1. sender \in [A -> M]
    OBVIOUS
  <2> HIDE DEF M
  <2>2. \A w, x \in A : sender[w] = sender[x] => w = x
    BY <1>1 DEF TablesOK
  <2> HIDE DEF A, sender
  <2>3. \E w, x \in A : w # x /\ sender[w] = sender[x]
    BY <1>3, <1>7, <2>1, FS_PigeonHole
  <2> QED BY <2>2, <2>3
<1>9. Cardinality(A) \in Nat /\ Cardinality(B) \in Nat /\ Cardinality(M) \in Nat
  BY <1>3, <1>5, <1>7, FS_CardinalityType
<1>10. Cardinality(B) >= CommitteeThreshold
  OBVIOUS
<1> HIDE DEF A, B, M
<1>11. Cardinality(M) >= CommitteeThreshold - 1
  BY <1>4, <1>5, <1>8, <1>9, <1>10, ThresholdType
<1> QED BY <1>11 DEF M

(* A member skips a round only when a quorum of the committee, the sender  *)
(* of the last report included, has reported from where it goes or later   *)
(* (AcceptFutureVote, pqfinality.cpp).                                     *)
THEOREM SkipsOnQuorumHolds == Spec => SkipsOnQuorum
<1>1. ASSUME MemberInv, [Next]_vars, restarts' = restarts, rs'.round > rs.round + 1
      PROVE  Cardinality({v.member : v \in {w \in future : w.round >= rs'.round}})
               >= CommitteeThreshold - 1
  <2>1. PICK v \in OfferedVotes :
          /\ v.round > rs.round
          /\ Cardinality(Reports(v)) >= CommitteeThreshold
          /\ rs'.round = CatchUpRound(Reports(v))
    BY <1>1, SkipsOnReports
  <2>2. Cardinality({w \in Reports(v) : w.round >= rs'.round}) >= CommitteeThreshold
    BY <1>1, <2>1, CatchUpIsRound
  <2> QED BY <1>1, <2>2, ReportersAreQuorum
<1>2. MemberInv /\ [Next]_vars =>
        [restarts' = restarts /\ rs'.round > rs.round + 1 =>
           Cardinality({v.member : v \in {w \in future : w.round >= rs'.round}})
             >= CommitteeThreshold - 1]_vars
  BY <1>1
<1> QED BY <1>2, InvHolds, PTL DEF Spec, SkipsOnQuorum
=============================================================================
