-------------------------- MODULE PQFinalityProofs --------------------------
(***************************************************************************)
(* Agreement of PQFinality, for every committee, set of blocks and number  *)
(* of rounds, with restarts and failing writes.                            *)
(***************************************************************************)
EXTENDS PQFinality, PQQuorumProofs

-----------------------------------------------------------------------------
(* Quorums, as the protocol counts them.                                   *)

LEMMA EnoughShareCorrect ==
  ASSUME NEW A \in SUBSET Members, NEW B \in SUBSET Members, Enough(A), Enough(B)
  PROVE  \E m \in Correct : m \in A /\ m \in B
<1>1. A \in QuorumsOf(Members) /\ B \in QuorumsOf(Members)
  BY DEF Enough, CommitteeThreshold, QuorumsOf
<1>2. A \cap B \cap Correct # {}
  BY <1>1, MemberAssumption, QuorumsShareCorrectMember
<1> QED BY <1>2

LEMMA EnoughGrows ==
  ASSUME NEW B \in SUBSET Members, NEW A \in SUBSET B, Enough(A)
  PROVE  Enough(B)
<1>1. IsFiniteSet(B)
  BY MemberAssumption, FS_Subset
<1>2. IsFiniteSet(A) /\ Cardinality(A) <= Cardinality(B)
  BY <1>1, FS_Subset
<1>3. Cardinality(A) \in Nat /\ Cardinality(B) \in Nat
  BY <1>1, <1>2, FS_CardinalityType
<1>4. Threshold(Cardinality(Members)) \in Int
  BY MemberAssumption DEF Threshold, MIN_MEMBERS, MAX_MEMBERS
<1> QED BY <1>2, <1>3, <1>4 DEF Enough, CommitteeThreshold

(* The round a restart resumes in is one of those that it knows of.        *)
LEMMA HighestOfRounds ==
  ASSUME NEW S \in SUBSET Rounds, S # {}
  PROVE  /\ HighestOf(S) \in S
         /\ \A r \in S : r <= HighestOf(S)
BY LatestRound DEF HighestOf
-----------------------------------------------------------------------------
(* The cases of the signing gate: what a decision of m leaves in the       *)
(* journal.                                                                *)

PrevoteRecorded(m, next) ==
  /\ lock[m] = LockOf(state[m])
  /\ RecordLockAccepts(lock[m], LockOf(next))
  /\ prevotes[m][next.round] \in {None, next.prevote}
  /\ lock' = [lock EXCEPT ![m] = LockOf(next)]
  /\ prevotes' = [prevotes EXCEPT ![m][next.round] = next.prevote]
  /\ UNCHANGED precommits

PrecommitRecorded(m, next) ==
  /\ lock[m] = LockOf(state[m])
  /\ RecordLockAccepts(lock[m], LockOf(next))
  /\ precommits[m][next.round] \in {None, next.precommit}
  /\ lock' = [lock EXCEPT ![m] = LockOf(next)]
  /\ precommits' = [precommits EXCEPT ![m][next.round] = next.precommit]
  /\ UNCHANGED prevotes

LockRecorded(m, next) ==
  /\ lock[m] = LockOf(state[m])
  /\ RecordLockAccepts(lock[m], LockOf(next))
  /\ lock' = [lock EXCEPT ![m] = LockOf(next)]
  /\ UNCHANGED <<prevotes, precommits>>

NothingRecorded == UNCHANGED <<lock, prevotes, precommits>>

LEMMA JournalPrevoteCases ==
  ASSUME NEW m, NEW next, JournalPrevote(m, next)
  PROVE  /\ state' = [state EXCEPT ![m] = next]
         /\ UNCHANGED finalized
         /\ \/ NothingRecorded
            \/ LockRecorded(m, next)
            \/ PrevoteRecorded(m, next)
BY DEF JournalPrevote, JournalVote, LockRecordable, VoteRecordable,
       NothingRecorded, LockRecorded, PrevoteRecorded

LEMMA JournalPrecommitCases ==
  ASSUME NEW m, NEW next, JournalPrecommit(m, next)
  PROVE  /\ state' = [state EXCEPT ![m] = next]
         /\ UNCHANGED finalized
         /\ \/ NothingRecorded
            \/ LockRecorded(m, next)
            \/ PrecommitRecorded(m, next)
BY DEF JournalPrecommit, JournalVote, LockRecordable, VoteRecordable,
       NothingRecorded, LockRecorded, PrecommitRecorded
-----------------------------------------------------------------------------
(* The steps of Next, by what they do to a member that is still voting.    *)

PrevoteStep(m) ==
  \E v \in Votes, p \in KnownProofs \cup {None} :
    /\ state[m].prevote = None
    /\ CanPrevote(state[m], v, p)
    /\ JournalPrevote(m, Prevoted(state[m], v, p))

PrecommitStep(m) ==
  \E p \in KnownProofs \cup {None}, b \in Votes :
    /\ state[m].precommit = None
    /\ CanPrecommit(state[m], p, b)
    /\ JournalPrecommit(m, Precommitted(state[m], p))

AdvanceStep(m) == \E r \in Rounds : AdvanceRound(m, r)

DeferStep(m) ==
  \E b \in Values :
    /\ state' = [state EXCEPT ![m] = Committed(@, b)]
    /\ UNCHANGED <<lock, prevotes, precommits, finalized>>

FinalizeStep(m) ==
  \E r \in Rounds, v \in Values : CommitCertificate(r, v) /\ RecordFinalized(m, v)

RestartStep(m) ==
  \E r \in Rounds :
    LET q == RestoredRound(m, r) IN
    /\ m \in Unreliable
    /\ state' = [state EXCEPT ![m] =
         Restored(q, lock[m], prevotes[m][q], precommits[m][q])]
    /\ UNCHANGED <<lock, prevotes, precommits, finalized>>

LEMMA StepCases ==
  ASSUME TypeOK, Next
  PROVE  \E m \in Correct :
           /\ Voting(m)
           /\ \/ PrevoteStep(m)
              \/ PrecommitStep(m)
              \/ AdvanceStep(m)
              \/ DeferStep(m)
              \/ FinalizeStep(m)
              \/ RestartStep(m)
<1>1. PICK m \in Correct :
        \/ \E b \in Values : PrevoteProposal(m, b)
        \/ PrevoteNil(m)
        \/ \E b \in Values : PrecommitQuorum(m, b)
        \/ PrecommitNil(m)
        \/ \E r \in Rounds : AdvanceRound(m, r)
        \/ \E b \in Values : Commit(m, b)
        \/ \E r \in Rounds, b \in Values : AcceptCommitment(m, r, b)
        \/ Restart(m)
  BY DEF Next
<1>2. Nil \in Votes /\ Values \subseteq Votes /\ KnownProofs \subseteq Proofs
  BY DEF Votes, KnownProofs
<1>3. CASE \E b \in Values : PrevoteProposal(m, b)
  BY <1>2, <1>3 DEF PrevoteProposal, PrevoteStep
<1>4. CASE PrevoteNil(m)
  BY <1>2, <1>4 DEF PrevoteNil, PrevoteStep
<1>5. CASE \E b \in Values : PrecommitQuorum(m, b)
  BY <1>2, <1>5 DEF PrecommitQuorum, PrecommitStep
<1>6. CASE PrecommitNil(m)
  BY <1>2, <1>6 DEF PrecommitNil, PrecommitStep
<1>7. CASE \E r \in Rounds : AdvanceRound(m, r)
  BY <1>7 DEF AdvanceRound, AdvanceStep
<1>8. CASE \E b \in Values : Commit(m, b)
  <2>1. state[m].round \in Rounds
    BY DEF TypeOK, RoundStates
  <2> QED BY <1>8, <2>1 DEF Commit, DeferStep, FinalizeStep
<1>9. CASE \E r \in Rounds, b \in Values : AcceptCommitment(m, r, b)
  BY <1>9 DEF AcceptCommitment, FinalizeStep
<1>10. CASE Restart(m)
  <2>1. {p.round : p \in KnownProofs} \cup {0} \subseteq Rounds
    BY <1>2, RoundAssumption DEF Proofs, Rounds
  <2> QED BY <1>10, <2>1 DEF Restart, RestartStep
<1> QED BY <1>1, <1>3, <1>4, <1>5, <1>6, <1>7, <1>8, <1>9, <1>10

-----------------------------------------------------------------------------
(* Type correctness.                                                       *)

LEMMA RestoredRoundType ==
  ASSUME TypeOK, NEW m \in Correct, NEW r \in Rounds
  PROVE  /\ RestoredRound(m, r) \in Rounds
         /\ \A q \in JournalRounds(m) \cup {r} : q <= RestoredRound(m, r)
<1>1. JournalRounds(m) \cup {r} \in SUBSET Rounds
  BY DEF TypeOK, JournalRounds, Locks
<1> QED BY <1>1, HighestOfRounds DEF RestoredRound

LEMMA DecisionTypes ==
  ASSUME TypeOK, NEW m \in Correct, NEW n \in RoundStates
  PROVE  /\ LockOf(n) \in Locks
         /\ n.round \in Rounds
         /\ [state EXCEPT ![m] = n] \in [Correct -> RoundStates]
         /\ [lock EXCEPT ![m] = LockOf(n)] \in [Correct -> Locks]
         /\ [prevotes EXCEPT ![m][n.round] = n.prevote]
              \in [Correct -> [Rounds -> Votes \cup {None}]]
         /\ [precommits EXCEPT ![m][n.round] = n.precommit]
              \in [Correct -> [Rounds -> Votes \cup {None}]]
<1>1. LockOf(n) \in Locks /\ n.round \in Rounds
  BY DEF RoundStates, LockOf, Locks
<1>2. n.prevote \in Votes \cup {None} /\ n.precommit \in Votes \cup {None}
  BY DEF RoundStates
<1> QED BY <1>1, <1>2 DEF TypeOK

LEMMA TypeInit == Init => TypeOK
BY RoundAssumption
   DEF Init, TypeOK, Fresh, NoLock, NoVotes, RoundStates, Locks, Rounds, Votes

LEMMA TypeStep == TypeOK /\ [Next]_vars => TypeOK'
<1>1. ASSUME TypeOK, UNCHANGED vars PROVE TypeOK'
  BY <1>1 DEF vars, TypeOK
<1>2. ASSUME TypeOK, Next PROVE TypeOK'
  <2> USE <1>2
  <2>1. PICK m \in Correct :
           /\ Voting(m)
           /\ \/ PrevoteStep(m)
              \/ PrecommitStep(m)
              \/ AdvanceStep(m)
              \/ DeferStep(m)
              \/ FinalizeStep(m)
              \/ RestartStep(m)
    BY StepCases
  <2>2. state[m] \in RoundStates /\ lock[m] \in Locks
    BY DEF TypeOK
  <2>3. KnownProofs \cup {None} \subseteq Proofs \cup {None}
    BY DEF KnownProofs
  <2>4. CASE PrevoteStep(m)
    <3>1. PICK v \in Votes, p \in Proofs \cup {None} :
             JournalPrevote(m, Prevoted(state[m], v, p))
      BY <2>3, <2>4 DEF PrevoteStep
    <3> DEFINE n == Prevoted(state[m], v, p)
    <3>2. n \in RoundStates
      BY <2>2, PrevotedType
    <3> HIDE DEF n
    <3>3. JournalPrevote(m, n)
      BY <3>1 DEF n
    <3>4. /\ state' = [state EXCEPT ![m] = n] /\ UNCHANGED finalized
          /\ NothingRecorded \/ LockRecorded(m, n) \/ PrevoteRecorded(m, n)
      BY <3>3, JournalPrevoteCases
    <3>5. state' \in [Correct -> RoundStates] /\ finalized' \in [Correct -> Votes]
      BY <3>2, <3>4, DecisionTypes DEF TypeOK
    <3>6. lock' \in [Correct -> Locks]
      <4>1. [lock EXCEPT ![m] = LockOf(n)] \in [Correct -> Locks]
        BY <3>2, DecisionTypes
      <4>2. lock' = lock \/ lock' = [lock EXCEPT ![m] = LockOf(n)]
        BY <3>4 DEF NothingRecorded, LockRecorded, PrevoteRecorded
      <4> QED BY <4>1, <4>2 DEF TypeOK
    <3>7. /\ prevotes' \in [Correct -> [Rounds -> Votes \cup {None}]]
          /\ precommits' \in [Correct -> [Rounds -> Votes \cup {None}]]
      <4>1. CASE NothingRecorded \/ LockRecorded(m, n)
        BY <4>1 DEF TypeOK, NothingRecorded, LockRecorded
      <4>2. CASE PrevoteRecorded(m, n)
        <5>1. prevotes' = [prevotes EXCEPT ![m][n.round] = n.prevote] /\ precommits' = precommits
          BY <4>2 DEF PrevoteRecorded
        <5> QED BY <3>2, <5>1, DecisionTypes DEF TypeOK
      <4> QED BY <3>4, <4>1, <4>2
    <3> QED BY <3>5, <3>6, <3>7 DEF TypeOK
  <2>5. CASE PrecommitStep(m)
    <3>1. PICK p \in Proofs \cup {None} : JournalPrecommit(m, Precommitted(state[m], p))
      BY <2>3, <2>5 DEF PrecommitStep
    <3> DEFINE n == Precommitted(state[m], p)
    <3>2. n \in RoundStates
      BY <2>2, PrecommittedType
    <3> HIDE DEF n
    <3>3. JournalPrecommit(m, n)
      BY <3>1 DEF n
    <3>4. /\ state' = [state EXCEPT ![m] = n] /\ UNCHANGED finalized
          /\ NothingRecorded \/ LockRecorded(m, n) \/ PrecommitRecorded(m, n)
      BY <3>3, JournalPrecommitCases
    <3>5. state' \in [Correct -> RoundStates] /\ finalized' \in [Correct -> Votes]
      BY <3>2, <3>4, DecisionTypes DEF TypeOK
    <3>6. lock' \in [Correct -> Locks]
      <4>1. [lock EXCEPT ![m] = LockOf(n)] \in [Correct -> Locks]
        BY <3>2, DecisionTypes
      <4>2. lock' = lock \/ lock' = [lock EXCEPT ![m] = LockOf(n)]
        BY <3>4 DEF NothingRecorded, LockRecorded, PrecommitRecorded
      <4> QED BY <4>1, <4>2 DEF TypeOK
    <3>7. /\ prevotes' \in [Correct -> [Rounds -> Votes \cup {None}]]
          /\ precommits' \in [Correct -> [Rounds -> Votes \cup {None}]]
      <4>1. CASE NothingRecorded \/ LockRecorded(m, n)
        BY <4>1 DEF TypeOK, NothingRecorded, LockRecorded
      <4>2. CASE PrecommitRecorded(m, n)
        <5>1. precommits' = [precommits EXCEPT ![m][n.round] = n.precommit] /\ prevotes' = prevotes
          BY <4>2 DEF PrecommitRecorded
        <5> QED BY <3>2, <5>1, DecisionTypes DEF TypeOK
      <4> QED BY <3>4, <4>1, <4>2
    <3> QED BY <3>5, <3>6, <3>7 DEF TypeOK
  <2>6. CASE AdvanceStep(m)
    <3>1. PICK r \in Rounds : AdvanceRound(m, r)
      BY <2>6 DEF AdvanceStep
    <3>2. Advanced(state[m], r) \in RoundStates
      BY <2>2 DEF Advanced, RoundStates
    <3> QED BY <3>1, <3>2 DEF TypeOK, AdvanceRound
  <2>7. CASE DeferStep(m)
    <3>1. PICK b \in Values : state' = [state EXCEPT ![m] = Committed(@, b)]
      BY <2>7 DEF DeferStep
    <3>2. Committed(state[m], b) \in RoundStates
      BY <2>2 DEF Committed, RoundStates, Votes
    <3> QED BY <2>7, <3>1, <3>2 DEF TypeOK, DeferStep
  <2>8. CASE FinalizeStep(m)
    <3>1. Fresh \in RoundStates /\ NoLock \in Locks
      BY RoundAssumption DEF Fresh, NoLock, RoundStates, Locks, Votes, Rounds
    <3> QED BY <2>8, <3>1 DEF TypeOK, FinalizeStep, RecordFinalized, Votes
  <2>9. CASE RestartStep(m)
    <3>1. PICK r \in Rounds :
            LET q == RestoredRound(m, r) IN
            state' = [state EXCEPT ![m] =
              Restored(q, lock[m], prevotes[m][q], precommits[m][q])]
      BY <2>9 DEF RestartStep
    <3> DEFINE q == RestoredRound(m, r)
               n == Restored(q, lock[m], prevotes[m][q], precommits[m][q])
    <3>2. q \in Rounds
      BY RestoredRoundType
    <3>3. n \in RoundStates
      BY <2>2, <3>2 DEF Restored, RoundStates, Locks, TypeOK, Votes
    <3>4. state' = [state EXCEPT ![m] = n] /\ UNCHANGED <<lock, prevotes, precommits, finalized>>
      BY <2>9, <3>1 DEF RestartStep
    <3> HIDE DEF n
    <3> QED BY <3>3, <3>4 DEF TypeOK
  <2> QED BY <2>1, <2>4, <2>5, <2>6, <2>7, <2>8, <2>9
<1> QED BY <1>1, <1>2

(* Every reachable state of the protocol has the types TypeOK states.      *)
THEOREM TypeCorrect == Spec => []TypeOK
BY TypeInit, TypeStep, PTL DEF Spec
-----------------------------------------------------------------------------
(* What never changes back: a journalled vote, and having done with a      *)
(* round.  Certificates, and the exclusion of a block, follow.             *)

VotesKept ==
  \A m \in Correct, r \in Rounds :
    /\ prevotes[m][r] # None => prevotes'[m][r] = prevotes[m][r]
    /\ precommits[m][r] # None => precommits'[m][r] = precommits[m][r]
    /\ DoneWith(m, r) => DoneWith(m, r)'
    /\ precommits'[m][r] # precommits[m][r] => ~ DoneWith(m, r)

LEMMA PolcKept ==
  ASSUME VotesKept, NEW r \in Rounds, NEW v \in Votes, Polc(r, v)
  PROVE  Polc(r, v)'
<1>1. v # None
  BY ValueAssumption DEF Votes
<1>2. Prevoters(r, v) \in SUBSET Prevoters(r, v)'
  BY <1>1 DEF Prevoters, VotesKept
<1>3. Prevoters(r, v)' \in SUBSET Members
  BY DEF Prevoters
<1> DEFINE A == Prevoters(r, v)
           B == {m \in Members : m \in Correct => prevotes'[m][r] = v}
<1>4. Enough(A) /\ A \in SUBSET B /\ B \in SUBSET Members
  BY <1>2, <1>3 DEF Polc, Prevoters
<1>5. Enough(B)
  <2> HIDE DEF A, B
  <2> QED BY <1>4, EnoughGrows
<1> QED BY <1>5 DEF Polc, Enough, CommitteeThreshold, Prevoters

LEMMA BlockedKept ==
  ASSUME VotesKept, NEW r \in Rounds, NEW v \in Values, Blocked(r, v)
  PROVE  Blocked(r, v)'
<1> DEFINE A == {m \in Members : m \in Correct => precommits[m][r] = v \/ ~ DoneWith(m, r)}
           B == {m \in Members : m \in Correct => precommits'[m][r] = v \/ ~ DoneWith(m, r)'}
<1>1. B \in SUBSET A /\ A \in SUBSET Members
  BY DEF VotesKept
<1>2. ~ Enough(A)
  BY DEF Blocked
<1>3. ~ Enough(B)
  <2> HIDE DEF A, B
  <2> QED BY <1>1, <1>2, EnoughGrows
<1> QED BY <1>3 DEF Blocked, Enough, CommitteeThreshold

LEMMA OverruledKept ==
  ASSUME VotesKept, NEW v, NEW r \in Rounds, NEW q \in Rounds, Overruled(v, r, q)
  PROVE  Overruled(v, r, q)'
<1>1. PICK p \in KnownProofs : r < p.round /\ p.round <= q /\ p.value # v
  BY DEF Overruled
<1>2. p \in Proofs /\ Polc(p.round, p.value)
  BY DEF KnownProofs
<1>3. p.round \in Rounds /\ p.value \in Votes
  BY <1>2 DEF Proofs
<1>4. Polc(p.round, p.value)'
  BY <1>2, <1>3, PolcKept
<1>5. p \in KnownProofs'
  BY <1>2, <1>4 DEF KnownProofs
<1> QED BY <1>1, <1>5 DEF Overruled

-----------------------------------------------------------------------------
(* What a step owes the invariant: after it, every member's votes and lock *)
(* are accounted for by certificates that existed before it.               *)

StepJustified ==
  /\ VotesKept
  /\ \A m \in Correct, r \in Rounds :
       precommits'[m][r] \in Values => Polc(r, precommits'[m][r])
  /\ \A m \in Correct, r \in Rounds :
       Voting(m)' /\ precommits'[m][r] \in Values =>
         /\ r <= lock'[m].round
         /\ \/ lock'[m].value = precommits'[m][r]
            \/ Overruled(precommits'[m][r], r, lock'[m].round)
  /\ \A m \in Correct, r1, r2 \in Rounds :
       /\ r1 < r2
       /\ precommits'[m][r1] \in Values
       /\ prevotes'[m][r2] \notin {None, precommits'[m][r1]}
       => Overruled(precommits'[m][r1], r1, r2)

LEMMA OverruledBlocks ==
  ASSUME ProofBlocksEarlierRounds,
         NEW v \in Values, NEW r \in Rounds, NEW q \in Rounds, Overruled(v, r, q)
  PROVE  Blocked(r, v)
<1>1. PICK p \in KnownProofs : r < p.round /\ p.round <= q /\ p.value # v
  BY DEF Overruled
<1>2. p.round \in Rounds /\ p.value \in Votes /\ Polc(p.round, p.value)
  BY DEF KnownProofs, Proofs
<1> QED BY <1>1, <1>2 DEF ProofBlocksEarlierRounds

(* A certificate that is new must contain a member that has left the       *)
(* blocked round behind; had it precommitted the block there, an older     *)
(* certificate already blocks it.                                          *)
LEMMA ProofsStillBlock ==
  ASSUME IInv, StepJustified
  PROVE  ProofBlocksEarlierRounds'
<1> SUFFICES ASSUME NEW r1 \in Rounds, NEW r2 \in Rounds,
                    NEW v \in Values, NEW w \in Votes,
                    r1 < r2, Polc(r2, w)', v # w, ~ Blocked(r1, v)'
             PROVE  FALSE
  BY DEF ProofBlocksEarlierRounds
<1> DEFINE P == {m \in Members : m \in Correct => prevotes'[m][r2] = w}
           B == {m \in Members :
                   m \in Correct => precommits'[m][r1] = v \/ ~ DoneWith(m, r1)'}
<1>1. Enough(P) /\ Enough(B) /\ P \in SUBSET Members /\ B \in SUBSET Members
  BY DEF Polc, Prevoters, Blocked, Enough, CommitteeThreshold
<1>2. PICK c \in Correct : c \in P /\ c \in B
  <2> HIDE DEF P, B
  <2> QED BY <1>1, EnoughShareCorrect
<1>3. prevotes'[c][r2] = w /\ w # None
  BY <1>2, ValueAssumption DEF Votes
<1>4. DoneWith(c, r1)'
  BY <1>3 DEF DoneWith, JournalRounds
<1>5. precommits'[c][r1] = v
  BY <1>2, <1>4
<1>6. Overruled(v, r1, r2)
  BY <1>3, <1>5 DEF StepJustified
<1>7. Blocked(r1, v)
  BY <1>6, OverruledBlocks DEF IInv
<1>8. Blocked(r1, v)'
  BY <1>7, BlockedKept DEF StepJustified
<1> QED BY <1>8

LEMMA JustifiedKeepsIInv ==
  ASSUME IInv, TypeOK', StepJustified, MemoryCoversJournal'
  PROVE  IInv'
<1>1. PrecommitsCertified'
  <2> SUFFICES ASSUME NEW m \in Correct, NEW r \in Rounds,
                      NEW v \in Values, precommits'[m][r] = v
               PROVE  Polc(r, v)'
    BY DEF PrecommitsCertified
  <2>1. Polc(r, v) /\ v \in Votes
    BY DEF StepJustified, Votes
  <2> QED BY <2>1, PolcKept DEF StepJustified
<1>2. LockExplained'
  <2> SUFFICES ASSUME NEW m \in Correct, NEW r \in Rounds, NEW v \in Values,
                      Voting(m)', precommits'[m][r] = v,
                      NEW q \in Rounds, q = lock'[m].round
               PROVE  /\ r <= q
                      /\ lock'[m].value = v \/ Overruled(v, r, q)'
    <3>1. \A m \in Correct : lock'[m].round \in Rounds
      BY DEF TypeOK, Locks
    <3> QED BY <3>1 DEF LockExplained, Explains
  <2>1. r <= q /\ (lock'[m].value = v \/ Overruled(v, r, q))
    BY DEF StepJustified
  <2> QED BY <2>1, OverruledKept DEF StepJustified
<1>3. LockRespected'
  <2> SUFFICES ASSUME NEW m \in Correct, NEW r1 \in Rounds, NEW r2 \in Rounds,
                      NEW v \in Values, r1 < r2, precommits'[m][r1] = v,
                      prevotes'[m][r2] \notin {None, v}
               PROVE  Overruled(v, r1, r2)'
    BY DEF LockRespected
  <2>1. Overruled(v, r1, r2)
    BY DEF StepJustified
  <2> QED BY <2>1, OverruledKept DEF StepJustified
<1>4. ProofBlocksEarlierRounds'
  BY ProofsStillBlock
<1> QED BY <1>1, <1>2, <1>3, <1>4 DEF IInv
-----------------------------------------------------------------------------
(* Each kind of step is justified.                                         *)

LEMMA SilentJustified ==
  ASSUME IInv, UNCHANGED <<lock, prevotes, precommits, finalized>>
  PROVE  StepJustified
<1>1. VotesKept
  BY DEF VotesKept, DoneWith, JournalRounds
<1>2. \A m \in Correct : Voting(m)' => Voting(m)
  BY DEF Voting
<1> QED BY <1>1, <1>2 DEF StepJustified, IInv, PrecommitsCertified, LockExplained,
             Explains, LockRespected

(* What a decision to prevote means for the lock and the precommits it     *)
(* starts from.                                                            *)
LEMMA PrevoteDecision ==
  ASSUME IInv, NEW m \in Correct, Voting(m), lock[m] = LockOf(state[m]),
         NEW v \in Votes, NEW p \in KnownProofs \cup {None},
         state[m].prevote = None, CanPrevote(state[m], v, p),
         NEW n, n = Prevoted(state[m], v, p)
  PROVE  /\ n.round = state[m].round /\ n.precommit = state[m].precommit
         /\ n.prevote \in Votes
         /\ lock[m].round <= n.lockRound /\ n.lockRound <= n.round
         /\ Explains(LockOf(n), m)
         /\ \A r \in Rounds :
              /\ r < n.round
              /\ precommits[m][r] \in Values
              /\ n.prevote # precommits[m][r]
              => Overruled(precommits[m][r], r, n.round)
<1> DEFINE s == state[m]
<1>1. s \in RoundStates /\ s.prevote = None
  BY DEF IInv, TypeOK
<1>2. s.lockRound \in Nat /\ s.round \in Nat /\ s.lockRound <= s.round
  <2>1. lock[m].round \in JournalRounds(m) /\ lock[m].round = s.lockRound
    BY DEF JournalRounds, LockOf
  <2> QED BY <1>1, <2>1 DEF IInv, MemoryCoversJournal, RoundStates, Rounds
<1>3. Explains(LockOf(s), m)
  BY DEF IInv, LockExplained
<1>4. CASE ~ Unlocks(s, p)
  <2>1. n = [s EXCEPT !.prevote = PrevoteValue(s, v, p)]
    BY <1>1, <1>4 DEF Prevoted, RoundStates
  <2>2. PrevoteValue(s, v, p) = IF s.locked = Nil THEN v ELSE s.locked
    BY <1>4 DEF PrevoteValue
  <2>3. LockOf(n) = LockOf(s)
    BY <1>1, <2>1 DEF LockOf, RoundStates
  <2>4. n.round = s.round /\ n.precommit = s.precommit /\ n.lockRound = s.lockRound
        /\ n.prevote = IF s.locked = Nil THEN v ELSE s.locked
    BY <1>1, <2>1, <2>2 DEF RoundStates
  <2>5. n.prevote \in Votes
    BY <1>1, <2>4 DEF RoundStates
  <2>6. ASSUME NEW r \in Rounds, precommits[m][r] \in Values, n.prevote # precommits[m][r]
        PROVE  Overruled(precommits[m][r], r, n.round)
    <3>1. s.locked # precommits[m][r]
      BY <2>4, <2>6, ValueAssumption
    <3>2. Overruled(precommits[m][r], r, s.lockRound)
      BY <1>3, <2>6, <3>1 DEF Explains, LockOf
    <3> QED BY <1>2, <2>4, <3>2 DEF Overruled, KnownProofs, Proofs, Rounds
  <2> QED BY <1>2, <1>3, <2>3, <2>4, <2>5, <2>6 DEF LockOf
<1>5. CASE Unlocks(s, p)
  <2>1. p \in KnownProofs /\ p.round \in Nat /\ p.round < s.round
    BY <1>5 DEF Unlocks, CanPrevote, KnownProofs, Proofs, Rounds
  <2>2. p.value # s.locked /\ p.round > s.lockRound
    BY <1>5 DEF Unlocks
  <2>3. n = [s EXCEPT !.prevote = v, !.locked = Nil, !.lockRound = p.round]
    BY <1>1, <1>5 DEF Prevoted, PrevoteValue, RoundStates
  <2>4. n.round = s.round /\ n.precommit = s.precommit /\ n.prevote = v
        /\ n.lockRound = p.round
    BY <1>1, <2>3 DEF RoundStates
  <2>5. ASSUME NEW r \in Rounds, precommits[m][r] \in Values
        PROVE  r <= p.round /\ Overruled(precommits[m][r], r, p.round)
    <3>1. r <= s.lockRound /\ (s.locked = precommits[m][r]
                               \/ Overruled(precommits[m][r], r, s.lockRound))
      BY <1>3, <2>5 DEF Explains, LockOf
    <3>2. r \in Nat
      BY DEF Rounds
    <3>3. CASE s.locked = precommits[m][r]
      BY <1>2, <2>1, <2>2, <3>1, <3>2, <3>3 DEF Overruled
    <3>4. CASE Overruled(precommits[m][r], r, s.lockRound)
      BY <1>2, <2>1, <2>2, <3>1, <3>2, <3>4 DEF Overruled, KnownProofs, Proofs, Rounds
    <3> QED BY <3>1, <3>3, <3>4
  <2>6. Explains(LockOf(n), m)
    BY <2>4, <2>5 DEF Explains, LockOf
  <2>7. ASSUME NEW r \in Rounds, precommits[m][r] \in Values
        PROVE  Overruled(precommits[m][r], r, n.round)
    BY <1>2, <2>1, <2>4, <2>5, <2>7 DEF Overruled, KnownProofs, Proofs, Rounds
  <2> QED BY <1>2, <2>1, <2>2, <2>4, <2>6, <2>7 DEF LockOf
<1> QED BY <1>4, <1>5

LEMMA PrecommitDecision ==
  ASSUME IInv, NEW m \in Correct, Voting(m), lock[m] = LockOf(state[m]),
         NEW b \in Votes, NEW p \in KnownProofs \cup {None},
         state[m].precommit = None, CanPrecommit(state[m], p, b),
         NEW n, n = Precommitted(state[m], p)
  PROVE  /\ n.round = state[m].round /\ n.prevote = state[m].prevote
         /\ n.precommit \in Votes
         /\ lock[m].round <= n.lockRound /\ n.lockRound <= n.round
         /\ Explains(LockOf(n), m)
         /\ n.precommit \in Values =>
              /\ n.locked = n.precommit
              /\ n.lockRound = n.round
              /\ Polc(n.round, n.precommit)
<1> DEFINE s == state[m]
<1>1. s \in RoundStates /\ s.precommit = None
  BY DEF IInv, TypeOK
<1>2. s.lockRound \in Nat /\ s.round \in Nat /\ s.lockRound <= s.round
  <2>1. lock[m].round \in JournalRounds(m) /\ lock[m].round = s.lockRound
    BY DEF JournalRounds, LockOf
  <2> QED BY <1>1, <2>1 DEF IInv, MemoryCoversJournal, RoundStates, Rounds
<1>3. Explains(LockOf(s), m)
  BY DEF IInv, LockExplained
<1>4. CASE p = None
  <2>1. n = [s EXCEPT !.precommit = Nil]
    BY <1>1, <1>4 DEF Precommitted, PrecommitValue, RoundStates
  <2>2. /\ n.round = s.round /\ n.prevote = s.prevote /\ n.precommit = Nil
        /\ n.lockRound = s.lockRound /\ LockOf(n) = LockOf(s)
    BY <1>1, <2>1 DEF LockOf, RoundStates
  <2> QED BY <1>2, <1>3, <2>2, ValueAssumption DEF LockOf, Votes
<1>5. CASE p # None
  <2>1. p \in KnownProofs /\ p.round = s.round /\ p.value \in Votes /\ Polc(p.round, p.value)
    BY <1>5 DEF CanPrecommit, KnownProofs, Proofs
  <2>2. n = [s EXCEPT !.precommit = p.value, !.locked = p.value, !.lockRound = s.round]
    BY <1>1, <1>5 DEF Precommitted, PrecommitValue, RoundStates
  <2>3. /\ n.round = s.round /\ n.prevote = s.prevote /\ n.precommit = p.value
        /\ n.lockRound = s.round /\ n.locked = p.value
    BY <1>1, <2>2 DEF RoundStates
  <2>4. ASSUME NEW r \in Rounds, precommits[m][r] \in Values
        PROVE  /\ r <= s.round
               /\ p.value = precommits[m][r] \/ Overruled(precommits[m][r], r, s.round)
    <3>1. r <= s.lockRound /\ (s.locked = precommits[m][r]
                               \/ Overruled(precommits[m][r], r, s.lockRound))
      BY <1>3, <2>4 DEF Explains, LockOf
    <3>2. r \in Nat
      BY DEF Rounds
    <3>3. precommits[m][s.round] = None
      BY <1>1 DEF IInv, MemoryCoversJournal
    <3>4. r < s.round
      BY <1>2, <2>4, <3>1, <3>2, <3>3, ValueAssumption
    <3> QED BY <1>2, <2>1, <3>1, <3>2, <3>4 DEF Overruled, KnownProofs, Proofs, Rounds
  <2>5. Explains(LockOf(n), m)
    BY <2>3, <2>4 DEF Explains, LockOf
  <2> QED BY <1>2, <2>1, <2>3, <2>5 DEF LockOf
<1> QED BY <1>4, <1>5

(* The journal rounds of a member after its lock has moved and it may have *)
(* voted in its current round.                                             *)
LEMMA RoundsAfter ==
  ASSUME IInv, TypeOK', NEW m \in Correct, Voting(m), UNCHANGED finalized,
         NEW n \in RoundStates, n.round = state[m].round,
         lock' = [lock EXCEPT ![m] = LockOf(n)],
         RecordLockAccepts(lock[m], LockOf(n)), n.lockRound <= n.round,
         \A r \in Rounds :
           r # n.round => /\ prevotes'[m][r] = prevotes[m][r]
                          /\ precommits'[m][r] = precommits[m][r],
         \A r \in Rounds :
           /\ prevotes[m][r] # None => prevotes'[m][r] = prevotes[m][r]
           /\ precommits[m][r] # None => precommits'[m][r] = precommits[m][r]
  PROVE  /\ \A q \in JournalRounds(m)' : q <= n.round
         /\ \A r \in Rounds : DoneWith(m, r) => DoneWith(m, r)'
<1>1. lock'[m] = LockOf(n) /\ lock[m] \in Locks /\ n.round \in Nat
      /\ lock'[m].round = n.lockRound /\ n.lockRound \in Rounds
  BY DEF IInv, TypeOK, RoundStates, Rounds, LockOf
<1>2. \A q \in JournalRounds(m) : q <= n.round
  BY DEF IInv, MemoryCoversJournal
<1>3. ASSUME NEW q \in JournalRounds(m)' PROVE q <= n.round
  <2>1. q \in Rounds /\ n.round \in Nat
    BY <1>1 DEF JournalRounds
  <2>2. CASE q = n.lockRound
    BY <2>2
  <2>3. CASE q # n.lockRound
    <3>1. q = n.round \/ q \in JournalRounds(m)
      BY <1>1, <2>1, <2>3 DEF JournalRounds
    <3> QED BY <1>2, <2>1, <3>1 DEF Rounds
  <2> QED BY <2>2, <2>3
<1>4. lock[m].round \in Nat /\ lock[m].round <= n.lockRound
  BY <1>1 DEF RecordLockAccepts, NoLock, LockOf, Locks, Rounds
<1>5. ASSUME NEW r \in Rounds, DoneWith(m, r) PROVE DoneWith(m, r)'
  <2>1. CASE precommits[m][r] # None
    BY <2>1 DEF DoneWith
  <2>2. CASE \E q \in JournalRounds(m) : q > r
    <3>1. PICK q \in JournalRounds(m) : q > r
      BY <2>2
    <3>2. CASE q = lock[m].round
      BY <1>1, <1>4, <3>1, <3>2 DEF DoneWith, JournalRounds, Rounds
    <3>3. CASE q # lock[m].round
      BY <3>1, <3>3 DEF DoneWith, JournalRounds
    <3> QED BY <3>2, <3>3
  <2>3. CASE finalized[m] # Nil
    BY <2>3 DEF DoneWith
  <2> QED BY <1>5, <2>1, <2>2, <2>3 DEF DoneWith
<1> QED BY <1>3, <1>5

(* Memory still covers the journal when a decision n of m is in memory and *)
(* the journal has at most what n says.                                    *)
LEMMA MemoryAfter ==
  ASSUME IInv, NEW m \in Correct, NEW n,
         state' = [state EXCEPT ![m] = n], UNCHANGED finalized,
         \A c \in Correct : c # m =>
           /\ lock'[c] = lock[c]
           /\ prevotes'[c] = prevotes[c]
           /\ precommits'[c] = precommits[c],
         \A q \in JournalRounds(m)' : q <= n.round,
         prevotes'[m][n.round] \in {None, n.prevote},
         precommits'[m][n.round] \in {None, n.precommit}
  PROVE  MemoryCoversJournal'
<1> SUFFICES ASSUME NEW c \in Correct, Voting(c)'
             PROVE  /\ \A r \in JournalRounds(c)' : r <= state'[c].round
                    /\ prevotes'[c][state'[c].round] \in {None, state'[c].prevote}
                    /\ precommits'[c][state'[c].round] \in {None, state'[c].precommit}
  BY DEF MemoryCoversJournal
<1>1. CASE c = m
  BY <1>1 DEF IInv, TypeOK
<1>2. CASE c # m
  <2>1. JournalRounds(c)' = JournalRounds(c) /\ state'[c] = state[c] /\ Voting(c)
    BY <1>2 DEF JournalRounds, IInv, TypeOK, Voting
  <2> QED BY <1>2, <2>1 DEF IInv, MemoryCoversJournal
<1> QED BY <1>1, <1>2

LEMMA PrevoteJustified ==
  ASSUME IInv, TypeOK', NEW m \in Correct, Voting(m), PrevoteStep(m)
  PROVE  StepJustified /\ MemoryCoversJournal'
<1>a. PICK v \in Votes, p \in KnownProofs \cup {None} :
        /\ state[m].prevote = None
        /\ CanPrevote(state[m], v, p)
        /\ JournalPrevote(m, Prevoted(state[m], v, p))
  BY DEF PrevoteStep
<1>b. PICK n : n = Prevoted(state[m], v, p)
  OBVIOUS
<1>1. /\ state[m].prevote = None
      /\ CanPrevote(state[m], v, p)
      /\ n = Prevoted(state[m], v, p)
      /\ JournalPrevote(m, n)
  BY <1>a, <1>b
<1>2. TypeOK /\ state[m] \in RoundStates
  BY DEF IInv, TypeOK
<1>3. n \in RoundStates
  BY <1>1, <1>2, PrevotedType DEF KnownProofs
<1>4. /\ state' = [state EXCEPT ![m] = n] /\ UNCHANGED finalized
      /\ NothingRecorded \/ LockRecorded(m, n) \/ PrevoteRecorded(m, n)
  BY <1>1, JournalPrevoteCases
<1>5. n.round = state[m].round /\ n.precommit = state[m].precommit /\ n.round \in Rounds
  BY <1>1, <1>2, <1>3 DEF Prevoted, RoundStates
<1>6. /\ \A q \in JournalRounds(m) : q <= n.round
      /\ prevotes[m][n.round] = None
      /\ precommits[m][n.round] \in {None, n.precommit}
  BY <1>1, <1>5 DEF IInv, MemoryCoversJournal
<1>7. CASE NothingRecorded
  <2>1. StepJustified
    BY <1>4, <1>7, SilentJustified DEF NothingRecorded
  <2>2. JournalRounds(m)' = JournalRounds(m)
    BY <1>7 DEF NothingRecorded, JournalRounds
  <2>3. MemoryCoversJournal'
    BY <1>4, <1>6, <1>7, <2>2, MemoryAfter DEF NothingRecorded
  <2> QED BY <2>1, <2>3
<1>8. CASE LockRecorded(m, n) \/ PrevoteRecorded(m, n)
  <2>1. /\ lock[m] = LockOf(state[m])
        /\ RecordLockAccepts(lock[m], LockOf(n))
        /\ lock' = [lock EXCEPT ![m] = LockOf(n)]
        /\ precommits' = precommits
        /\ prevotes' = prevotes \/ prevotes' = [prevotes EXCEPT ![m][n.round] = n.prevote]
    BY <1>8 DEF LockRecorded, PrevoteRecorded
  <2>2. /\ n.prevote \in Votes
        /\ n.lockRound <= n.round
        /\ Explains(LockOf(n), m)
        /\ \A r \in Rounds :
             r < n.round /\ precommits[m][r] \in Values /\ n.prevote # precommits[m][r]
             => Overruled(precommits[m][r], r, n.round)
    BY <1>1, <2>1, PrevoteDecision
  <2>3. /\ \A c \in Correct : c # m => prevotes'[c] = prevotes[c] /\ lock'[c] = lock[c]
        /\ \A r \in Rounds : r # n.round => prevotes'[m][r] = prevotes[m][r]
        /\ prevotes'[m][n.round] \in {None, n.prevote}
        /\ lock'[m] = LockOf(n)
    BY <1>2, <1>5, <1>6, <2>1 DEF TypeOK
  <2>4. /\ \A q \in JournalRounds(m)' : q <= n.round
        /\ \A r \in Rounds : DoneWith(m, r) => DoneWith(m, r)'
    BY <1>3, <1>4, <1>5, <1>6, <2>1, <2>2, <2>3, RoundsAfter
  <2>5. MemoryCoversJournal'
    BY <1>4, <1>6, <2>1, <2>3, <2>4, MemoryAfter
  <2>6. VotesKept
    <3> SUFFICES ASSUME NEW c \in Correct, NEW r \in Rounds
                 PROVE  /\ prevotes[c][r] # None => prevotes'[c][r] = prevotes[c][r]
                        /\ DoneWith(c, r) => DoneWith(c, r)'
      BY <2>1 DEF VotesKept
    <3>1. CASE c = m
      BY <1>6, <2>3, <2>4, <3>1
    <3>2. CASE c # m
      BY <1>4, <2>1, <2>3, <3>2 DEF DoneWith, JournalRounds
    <3> QED BY <3>1, <3>2
  <2>7. ASSUME NEW c \in Correct, NEW r \in Rounds, precommits'[c][r] \in Values
        PROVE  /\ Polc(r, precommits'[c][r])
               /\ Voting(c)' =>
                    /\ r <= lock'[c].round
                    /\ \/ lock'[c].value = precommits'[c][r]
                       \/ Overruled(precommits'[c][r], r, lock'[c].round)
    <3>1. Polc(r, precommits'[c][r])
      BY <2>1, <2>7 DEF IInv, PrecommitsCertified
    <3>2. CASE c = m
      BY <2>1, <2>2, <2>3, <2>7, <3>1, <3>2 DEF Explains
    <3>3. CASE c # m
      BY <1>4, <2>1, <2>3, <2>7, <3>1, <3>3 DEF IInv, LockExplained, Explains, Voting
    <3> QED BY <3>2, <3>3
  <2>8. ASSUME NEW c \in Correct, NEW r1 \in Rounds, NEW r2 \in Rounds, r1 < r2,
               precommits'[c][r1] \in Values,
               prevotes'[c][r2] \notin {None, precommits'[c][r1]}
        PROVE  Overruled(precommits'[c][r1], r1, r2)
    <3>1. CASE prevotes'[c][r2] = prevotes[c][r2]
      BY <2>1, <2>8, <3>1 DEF IInv, LockRespected
    <3>2. CASE prevotes'[c][r2] # prevotes[c][r2]
      BY <2>1, <2>2, <2>3, <2>8, <3>2
    <3> QED BY <3>1, <3>2
  <2> QED BY <2>5, <2>6, <2>7, <2>8 DEF StepJustified
<1> QED BY <1>4, <1>7, <1>8

LEMMA PrecommitJustified ==
  ASSUME IInv, TypeOK', NEW m \in Correct, Voting(m), PrecommitStep(m)
  PROVE  StepJustified /\ MemoryCoversJournal'
<1>a. PICK p \in KnownProofs \cup {None}, b \in Votes :
        /\ state[m].precommit = None
        /\ CanPrecommit(state[m], p, b)
        /\ JournalPrecommit(m, Precommitted(state[m], p))
  BY DEF PrecommitStep
<1>b. PICK n : n = Precommitted(state[m], p)
  OBVIOUS
<1>1. /\ state[m].precommit = None
      /\ CanPrecommit(state[m], p, b)
      /\ n = Precommitted(state[m], p)
      /\ JournalPrecommit(m, n)
  BY <1>a, <1>b
<1>2. TypeOK /\ state[m] \in RoundStates
  BY DEF IInv, TypeOK
<1>3. n \in RoundStates
  BY <1>1, <1>2, PrecommittedType DEF KnownProofs
<1>4. /\ state' = [state EXCEPT ![m] = n] /\ UNCHANGED finalized
      /\ NothingRecorded \/ LockRecorded(m, n) \/ PrecommitRecorded(m, n)
  BY <1>1, JournalPrecommitCases
<1>5. n.round = state[m].round /\ n.prevote = state[m].prevote /\ n.round \in Rounds
  BY <1>1, <1>2, <1>3 DEF Precommitted, RoundStates
<1>6. /\ \A q \in JournalRounds(m) : q <= n.round
      /\ precommits[m][n.round] = None
      /\ prevotes[m][n.round] \in {None, n.prevote}
  BY <1>1, <1>5 DEF IInv, MemoryCoversJournal
<1>7. CASE NothingRecorded
  <2>1. StepJustified
    BY <1>4, <1>7, SilentJustified DEF NothingRecorded
  <2>2. JournalRounds(m)' = JournalRounds(m)
    BY <1>7 DEF NothingRecorded, JournalRounds
  <2>3. MemoryCoversJournal'
    BY <1>4, <1>6, <1>7, <2>2, MemoryAfter DEF NothingRecorded
  <2> QED BY <2>1, <2>3
<1>8. CASE LockRecorded(m, n) \/ PrecommitRecorded(m, n)
  <2>1. /\ lock[m] = LockOf(state[m])
        /\ RecordLockAccepts(lock[m], LockOf(n))
        /\ lock' = [lock EXCEPT ![m] = LockOf(n)]
        /\ prevotes' = prevotes
        /\ \/ precommits' = precommits
           \/ precommits' = [precommits EXCEPT ![m][n.round] = n.precommit]
    BY <1>8 DEF LockRecorded, PrecommitRecorded
  <2>2. /\ n.precommit \in Votes
        /\ n.lockRound <= n.round
        /\ Explains(LockOf(n), m)
        /\ n.precommit \in Values =>
             n.locked = n.precommit /\ n.lockRound = n.round /\ Polc(n.round, n.precommit)
    BY <1>1, <2>1, PrecommitDecision
  <2>3. /\ \A c \in Correct : c # m => precommits'[c] = precommits[c] /\ lock'[c] = lock[c]
        /\ \A r \in Rounds : r # n.round => precommits'[m][r] = precommits[m][r]
        /\ precommits'[m][n.round] \in {None, n.precommit}
        /\ lock'[m] = LockOf(n)
    BY <1>2, <1>5, <1>6, <2>1 DEF TypeOK
  <2>4. /\ \A q \in JournalRounds(m)' : q <= n.round
        /\ \A r \in Rounds : DoneWith(m, r) => DoneWith(m, r)'
    BY <1>3, <1>4, <1>5, <1>6, <2>1, <2>2, <2>3, RoundsAfter
  <2>5. MemoryCoversJournal'
    BY <1>4, <1>6, <2>1, <2>3, <2>4, MemoryAfter
  <2>6. ~ DoneWith(m, n.round)
    BY <1>5, <1>6 DEF DoneWith, Voting, IInv, TypeOK, JournalRounds, Locks, Rounds
  <2>7. VotesKept
    <3> SUFFICES ASSUME NEW c \in Correct, NEW r \in Rounds
                 PROVE  /\ precommits[c][r] # None => precommits'[c][r] = precommits[c][r]
                        /\ DoneWith(c, r) => DoneWith(c, r)'
                        /\ precommits'[c][r] # precommits[c][r] => ~ DoneWith(c, r)
      BY <2>1 DEF VotesKept
    <3>1. CASE c = m
      BY <1>6, <2>3, <2>4, <2>6, <3>1
    <3>2. CASE c # m
      BY <1>4, <2>1, <2>3, <3>2 DEF DoneWith, JournalRounds
    <3> QED BY <3>1, <3>2
  <2>8. ASSUME NEW c \in Correct, NEW r \in Rounds, precommits'[c][r] \in Values
        PROVE  /\ Polc(r, precommits'[c][r])
               /\ Voting(c)' =>
                    /\ r <= lock'[c].round
                    /\ \/ lock'[c].value = precommits'[c][r]
                       \/ Overruled(precommits'[c][r], r, lock'[c].round)
    <3>1. CASE precommits'[c][r] = precommits[c][r]
      <4>1. Polc(r, precommits'[c][r])
        BY <2>8, <3>1 DEF IInv, PrecommitsCertified
      <4>2. CASE c = m
        BY <2>2, <2>3, <2>8, <3>1, <4>1, <4>2 DEF Explains
      <4>3. CASE c # m
        BY <1>4, <2>3, <2>8, <3>1, <4>1, <4>3 DEF IInv, LockExplained, Explains, Voting
      <4> QED BY <4>2, <4>3
    <3>2. CASE precommits'[c][r] # precommits[c][r]
      <4>1. c = m /\ r = n.round /\ precommits'[c][r] = n.precommit
        BY <2>3, <2>8, <3>2, ValueAssumption
      <4>2. n.locked = n.precommit /\ n.lockRound = n.round /\ Polc(n.round, n.precommit)
        BY <2>2, <2>8, <4>1
      <4>3. lock'[m].value = n.locked /\ lock'[m].round = n.lockRound /\ n.round \in Nat
        BY <1>5, <2>3 DEF LockOf, Rounds
      <4> QED BY <4>1, <4>2, <4>3
    <3> QED BY <3>1, <3>2
  <2>9. ASSUME NEW c \in Correct, NEW r1 \in Rounds, NEW r2 \in Rounds, r1 < r2,
               precommits'[c][r1] \in Values,
               prevotes'[c][r2] \notin {None, precommits'[c][r1]}
        PROVE  Overruled(precommits'[c][r1], r1, r2)
    <3>1. CASE precommits'[c][r1] = precommits[c][r1]
      BY <2>1, <2>9, <3>1 DEF IInv, LockRespected
    <3>2. CASE precommits'[c][r1] # precommits[c][r1]
      <4>1. c = m /\ r1 = n.round
        BY <2>3, <2>9, <3>2
      <4>2. r2 \in JournalRounds(m)
        BY <2>1, <2>9, <4>1 DEF JournalRounds
      <4> QED BY <1>6, <2>9, <4>1, <4>2 DEF Rounds
    <3> QED BY <3>1, <3>2
  <2> QED BY <2>5, <2>7, <2>8, <2>9 DEF StepJustified
<1> QED BY <1>4, <1>7, <1>8

LEMMA FinalizeJustified ==
  ASSUME IInv, NEW m \in Correct, Voting(m), FinalizeStep(m)
  PROVE  StepJustified /\ MemoryCoversJournal'
<1>1. PICK v \in Values : RecordFinalized(m, v)
  BY DEF FinalizeStep
<1>2. /\ UNCHANGED <<prevotes, precommits>>
      /\ finalized'[m] = v /\ v # Nil /\ ~ Voting(m)'
      /\ \A c \in Correct : c # m =>
           /\ state'[c] = state[c] /\ lock'[c] = lock[c] /\ finalized'[c] = finalized[c]
           /\ JournalRounds(c)' = JournalRounds(c) /\ Voting(c)' = Voting(c)
  BY <1>1, ValueAssumption DEF RecordFinalized, Voting, JournalRounds, IInv, TypeOK
<1>3. VotesKept
  <2> SUFFICES ASSUME NEW c \in Correct, NEW r \in Rounds, DoneWith(c, r)
               PROVE  DoneWith(c, r)'
    BY <1>2 DEF VotesKept
  <2> QED BY <1>2 DEF DoneWith
<1>4. MemoryCoversJournal'
  BY <1>2 DEF IInv, MemoryCoversJournal
<1>5. /\ \A c \in Correct, r \in Rounds :
           precommits'[c][r] \in Values => Polc(r, precommits'[c][r])
      /\ \A c \in Correct, r1, r2 \in Rounds :
           /\ r1 < r2
           /\ precommits'[c][r1] \in Values
           /\ prevotes'[c][r2] \notin {None, precommits'[c][r1]}
           => Overruled(precommits'[c][r1], r1, r2)
  BY <1>2 DEF IInv, PrecommitsCertified, LockRespected
<1>6. \A c \in Correct, r \in Rounds :
        Voting(c)' /\ precommits'[c][r] \in Values =>
          /\ r <= lock'[c].round
          /\ \/ lock'[c].value = precommits'[c][r]
             \/ Overruled(precommits'[c][r], r, lock'[c].round)
  BY <1>2 DEF IInv, LockExplained, Explains
<1> QED BY <1>3, <1>4, <1>5, <1>6 DEF StepJustified

LEMMA RestartJustified ==
  ASSUME IInv, NEW m \in Correct, RestartStep(m)
  PROVE  StepJustified /\ MemoryCoversJournal'
<1>1. PICK r \in Rounds :
        LET q == RestoredRound(m, r) IN
        state' = [state EXCEPT ![m] =
          Restored(q, lock[m], prevotes[m][q], precommits[m][q])]
  BY DEF RestartStep
<1> DEFINE q == RestoredRound(m, r)
<1>2. PICK n : n = Restored(q, lock[m], prevotes[m][q], precommits[m][q])
  OBVIOUS
<1>3. state' = [state EXCEPT ![m] = n] /\ UNCHANGED <<lock, prevotes, precommits, finalized>>
  BY <1>1, <1>2 DEF RestartStep
<1>4. n.round = q /\ n.prevote = prevotes[m][q] /\ n.precommit = precommits[m][q]
  BY <1>2 DEF Restored
<1>5. JournalRounds(m)' = JournalRounds(m)
  BY <1>3 DEF JournalRounds
<1>6. \A k \in JournalRounds(m)' : k <= n.round
  BY <1>4, <1>5, RestoredRoundType DEF IInv
<1> HIDE DEF q
<1> QED BY <1>3, <1>4, <1>6, MemoryAfter, SilentJustified

LEMMA AdvanceJustified ==
  ASSUME IInv, NEW m \in Correct, AdvanceStep(m)
  PROVE  StepJustified /\ MemoryCoversJournal'
<1>1. PICK r \in Rounds : AdvanceRound(m, r)
  BY DEF AdvanceStep
<1>2. PICK n : n = Advanced(state[m], r)
  OBVIOUS
<1>3. state' = [state EXCEPT ![m] = n] /\ UNCHANGED <<lock, prevotes, precommits, finalized>>
  BY <1>1, <1>2 DEF AdvanceRound, IInv, TypeOK
<1>4. state[m] \in RoundStates /\ state[m].round \in Nat /\ r \in Nat /\ r > state[m].round
  BY <1>1 DEF AdvanceRound, CanAdvance, IInv, TypeOK, RoundStates, Rounds
<1>5. n.round = r
  BY <1>2, <1>4 DEF Advanced, RoundStates
<1>6. \A k \in JournalRounds(m) : k \in Nat /\ k <= state[m].round /\ k # r
  <2>1. JournalRounds(m) \in SUBSET Nat
    BY DEF JournalRounds, IInv, TypeOK, Locks, Rounds
  <2>2. Voting(m)
    BY <1>1 DEF AdvanceRound
  <2> QED BY <1>4, <2>1, <2>2 DEF IInv, MemoryCoversJournal
<1>7. prevotes[m][r] = None /\ precommits[m][r] = None
  BY <1>6 DEF JournalRounds
<1>8. \A k \in JournalRounds(m)' : k <= n.round
  BY <1>3, <1>4, <1>5, <1>6 DEF JournalRounds
<1> QED BY <1>3, <1>5, <1>7, <1>8, MemoryAfter, SilentJustified

LEMMA DeferJustified ==
  ASSUME IInv, NEW m \in Correct, Voting(m), DeferStep(m)
  PROVE  StepJustified /\ MemoryCoversJournal'
<1>1. PICK b \in Values : state' = [state EXCEPT ![m] = Committed(@, b)]
  BY DEF DeferStep
<1>2. PICK n : n = Committed(state[m], b)
  OBVIOUS
<1>3. state' = [state EXCEPT ![m] = n] /\ UNCHANGED <<lock, prevotes, precommits, finalized>>
  BY <1>1, <1>2 DEF DeferStep, IInv, TypeOK
<1>4. n.round = state[m].round /\ n.prevote = state[m].prevote /\ n.precommit = state[m].precommit
  BY <1>2 DEF Committed, IInv, TypeOK, RoundStates
<1>5. \A k \in JournalRounds(m)' : k <= n.round
  BY <1>3, <1>4 DEF IInv, MemoryCoversJournal, JournalRounds
<1>6. prevotes[m][n.round] \in {None, n.prevote} /\ precommits[m][n.round] \in {None, n.precommit}
  BY <1>4 DEF IInv, MemoryCoversJournal
<1> QED BY <1>3, <1>5, <1>6, MemoryAfter, SilentJustified
-----------------------------------------------------------------------------
(* IInv is inductive.                                                      *)

LEMMA IInvInit == Init => IInv
<1> SUFFICES ASSUME Init PROVE IInv
  OBVIOUS
<1>1. TypeOK
  BY TypeInit
<1>2. \A m \in Correct, r \in Rounds : prevotes[m][r] = None /\ precommits[m][r] = None
  BY DEF Init, NoVotes
<1>3. \A m \in Correct : state[m] = Fresh /\ lock[m] = NoLock
  BY DEF Init
<1>4. MemoryCoversJournal
  BY <1>2, <1>3, RoundAssumption
     DEF MemoryCoversJournal, JournalRounds, Fresh, NoLock, Rounds
<1>5. PrecommitsCertified /\ LockExplained /\ LockRespected
  BY <1>2, ValueAssumption DEF PrecommitsCertified, LockExplained, Explains, LockRespected
<1>6. ASSUME NEW r \in Rounds, NEW w \in Votes, Polc(r, w) PROVE FALSE
  <2>1. Enough(Prevoters(r, w)) /\ Prevoters(r, w) \in SUBSET Members
    BY <1>6 DEF Polc, Prevoters
  <2>2. PICK c \in Correct : c \in Prevoters(r, w)
    BY <2>1, EnoughShareCorrect
  <2>3. prevotes[c][r] = w
    BY <2>2 DEF Prevoters
  <2> QED BY <1>2, <2>3, ValueAssumption DEF Votes
<1>7. ProofBlocksEarlierRounds
  BY <1>6 DEF ProofBlocksEarlierRounds
<1> QED BY <1>1, <1>4, <1>5, <1>7 DEF IInv

LEMMA IInvStep == IInv /\ [Next]_vars => IInv'
<1> SUFFICES ASSUME IInv, [Next]_vars PROVE IInv'
  OBVIOUS
<1>1. TypeOK /\ TypeOK'
  BY TypeStep DEF IInv
<1>2. CASE UNCHANGED vars
  <2>1. StepJustified
    BY <1>2, SilentJustified DEF vars
  <2>2. MemoryCoversJournal'
    BY <1>2 DEF vars, IInv, MemoryCoversJournal, JournalRounds, Voting
  <2> QED BY <1>1, <2>1, <2>2, JustifiedKeepsIInv
<1>3. CASE Next
  <2>1. PICK m \in Correct :
           /\ Voting(m)
           /\ \/ PrevoteStep(m)
              \/ PrecommitStep(m)
              \/ AdvanceStep(m)
              \/ DeferStep(m)
              \/ FinalizeStep(m)
              \/ RestartStep(m)
    BY <1>1, <1>3, StepCases
  <2>2. StepJustified /\ MemoryCoversJournal'
    BY <1>1, <2>1, PrevoteJustified, PrecommitJustified, AdvanceJustified,
       DeferJustified, FinalizeJustified, RestartJustified
  <2> QED BY <1>1, <2>2, JustifiedKeepsIInv
<1> QED BY <1>2, <1>3

(* Two certificates of one round share a correct member's precommit; of    *)
(* two rounds, the later one rests on a prevote quorum that blocks the     *)
(* earlier.                                                                *)
LEMMA IInvAgreement == IInv => Agreement
<1> SUFFICES ASSUME IInv,
                    NEW r1 \in Rounds, NEW r2 \in Rounds,
                    NEW v1 \in Values, NEW v2 \in Values,
                    CommitCertificate(r1, v1), CommitCertificate(r2, v2)
             PROVE  v1 = v2
  BY DEF Agreement, ChosenValues
<1>1. /\ Enough(Precommitters(r1, v1)) /\ Precommitters(r1, v1) \in SUBSET Members
      /\ Enough(Precommitters(r2, v2)) /\ Precommitters(r2, v2) \in SUBSET Members
  BY DEF CommitCertificate, Precommitters
<1>2. CASE r1 = r2
  <2>1. PICK c \in Correct : c \in Precommitters(r1, v1) /\ c \in Precommitters(r2, v2)
    BY <1>1, EnoughShareCorrect
  <2> QED BY <1>2, <2>1 DEF Precommitters
<1>3. ASSUME NEW q1 \in Rounds, NEW q2 \in Rounds, NEW w1 \in Values, NEW w2 \in Values,
             q1 < q2, CommitCertificate(q1, w1), CommitCertificate(q2, w2)
      PROVE  w1 = w2
  <2> SUFFICES ASSUME w1 # w2 PROVE FALSE
    OBVIOUS
  <2>1. /\ Enough(Precommitters(q1, w1)) /\ Precommitters(q1, w1) \in SUBSET Members
        /\ Enough(Precommitters(q2, w2)) /\ Precommitters(q2, w2) \in SUBSET Members
    BY <1>3 DEF CommitCertificate, Precommitters
  <2>2. PICK c \in Correct : c \in Precommitters(q2, w2)
    BY <2>1, EnoughShareCorrect
  <2>3. Polc(q2, w2) /\ w2 \in Votes
    BY <2>2 DEF IInv, PrecommitsCertified, Precommitters, Votes
  <2>4. Blocked(q1, w1)
    BY <1>3, <2>3 DEF IInv, ProofBlocksEarlierRounds
  <2> DEFINE B == {m \in Members :
                     m \in Correct => precommits[m][q1] = w1 \/ ~ DoneWith(m, q1)}
  <2>5. Precommitters(q1, w1) \in SUBSET B /\ B \in SUBSET Members
    BY DEF Precommitters
  <2>6. Enough(B)
    <3> HIDE DEF B
    <3> QED BY <2>1, <2>5, EnoughGrows
  <2> QED BY <2>4, <2>6 DEF Blocked
<1>4. r1 < r2 \/ r2 < r1 \/ r1 = r2
  BY DEF Rounds
<1> QED BY <1>2, <1>3, <1>4

(* The invariant of every reachable state, and its parts.                  *)
THEOREM Invariance == Spec => []IInv
BY IInvInit, IInvStep, PTL DEF Spec

(* Two blocks of one height never both get a commit certificate.           *)
THEOREM AgreementHolds == Spec => []Agreement
BY Invariance, IInvAgreement, PTL

(* A member never votes against a block it has precommitted without a      *)
(* newer prevote quorum, not even after a restart.                         *)
THEOREM LockRespectedHolds == Spec => []LockRespected
<1>1. IInv => LockRespected
  BY DEF IInv
<1> QED BY Invariance, <1>1, PTL

(* A prevote quorum excludes every other block in every earlier round.     *)
THEOREM ProofBlocksEarlierRoundsHolds == Spec => []ProofBlocksEarlierRounds
<1>1. IInv => ProofBlocksEarlierRounds
  BY DEF IInv
<1> QED BY Invariance, <1>1, PTL
-----------------------------------------------------------------------------
(* Action properties and the refinement.                                   *)

LEMMA StepIsJustified ==
  ASSUME IInv, [Next]_vars
  PROVE  StepJustified /\ IInv'
<1>1. TypeOK /\ TypeOK'
  BY TypeStep DEF IInv
<1>2. CASE UNCHANGED vars
  BY <1>2, SilentJustified, IInvStep DEF vars
<1>3. CASE Next
  BY <1>1, <1>3, StepCases, PrevoteJustified, PrecommitJustified, AdvanceJustified,
     DeferJustified, FinalizeJustified, RestartJustified, IInvStep
<1> QED BY <1>2, <1>3

LEMMA CommitCertificateKept ==
  ASSUME VotesKept, NEW r \in Rounds, NEW v \in Values, CommitCertificate(r, v)
  PROVE  CommitCertificate(r, v)'
<1> DEFINE A == Precommitters(r, v)
           B == {m \in Members : m \in Correct => precommits'[m][r] = v}
<1>1. Enough(A) /\ A \in SUBSET B /\ B \in SUBSET Members
  BY ValueAssumption DEF CommitCertificate, Precommitters, VotesKept
<1>2. Enough(B)
  <2> HIDE DEF A, B
  <2> QED BY <1>1, EnoughGrows
<1> QED BY <1>2 DEF CommitCertificate, Enough, CommitteeThreshold, Precommitters

(* What a step does to the journals' verdicts: nothing, or it makes one    *)
(* certified block final for a member that had none and leaves the votes.  *)
LEMMA FinalizedCases ==
  ASSUME IInv, [Next]_vars
  PROVE  \/ UNCHANGED finalized
         \/ /\ UNCHANGED precommits
            /\ \E m \in Correct, v \in ChosenValues :
                 finalized[m] = Nil /\ finalized' = [finalized EXCEPT ![m] = v]
<1>1. CASE UNCHANGED vars
  BY <1>1 DEF vars
<1>2. CASE Next
  <2>1. PICK m \in Correct :
           /\ Voting(m)
           /\ \/ PrevoteStep(m)
              \/ PrecommitStep(m)
              \/ AdvanceStep(m)
              \/ DeferStep(m)
              \/ FinalizeStep(m)
              \/ RestartStep(m)
    BY <1>2, StepCases DEF IInv
  <2>2. CASE PrevoteStep(m)
    BY <2>2, JournalPrevoteCases DEF PrevoteStep
  <2>3. CASE PrecommitStep(m)
    BY <2>3, JournalPrecommitCases DEF PrecommitStep
  <2>4. CASE AdvanceStep(m) \/ DeferStep(m) \/ RestartStep(m)
    BY <2>4 DEF AdvanceStep, AdvanceRound, DeferStep, RestartStep
  <2>5. CASE FinalizeStep(m)
    BY <2>1, <2>5 DEF FinalizeStep, RecordFinalized, ChosenValues, Voting
  <2> QED BY <2>1, <2>2, <2>3, <2>4, <2>5
<1> QED BY <1>1, <1>2

LEMMA ChosenInit == Init => Consensus!Init
<1> SUFFICES ASSUME Init PROVE ChosenValues = {} /\ finalized = [m \in Correct |-> Nil]
  BY DEF Consensus!Init
<1>1. ASSUME NEW r \in Rounds, NEW v \in Values, CommitCertificate(r, v) PROVE FALSE
  <2>1. Enough(Precommitters(r, v)) /\ Precommitters(r, v) \in SUBSET Members
    BY <1>1 DEF CommitCertificate, Precommitters
  <2>2. PICK c \in Correct : c \in Precommitters(r, v)
    BY <2>1, EnoughShareCorrect
  <2>3. precommits[c][r] = v /\ precommits[c][r] = None
    BY <2>2 DEF Precommitters, Init, NoVotes
  <2> QED BY <2>3, ValueAssumption
<1> QED BY <1>1 DEF ChosenValues, Init

LEMMA ChosenStep ==
  ASSUME IInv, [Next]_vars
  PROVE  [Consensus!Next]_(Consensus!vars)
<1>1. StepJustified /\ IInv' /\ Agreement /\ Agreement'
  <2>1. IInv' /\ StepJustified
    BY StepIsJustified
  <2>2. IInv' => Agreement'
    BY IInvAgreement, PTL
  <2> QED BY <2>1, <2>2, IInvAgreement
<1>2. ChosenValues \in SUBSET ChosenValues'
  BY <1>1, CommitCertificateKept DEF ChosenValues, StepJustified
<1>3. \A v, w \in ChosenValues' : v = w
  BY <1>1 DEF Agreement, ChosenValues
<1>4. \/ ChosenValues' = ChosenValues
      \/ ChosenValues = {} /\ \E v \in Values : ChosenValues' = {v}
  BY <1>2, <1>3 DEF ChosenValues
<1>5. CASE UNCHANGED finalized
  BY <1>4, <1>5 DEF Consensus!Next, Consensus!Choose, Consensus!vars
<1>6. CASE /\ UNCHANGED precommits
           /\ \E m \in Correct, v \in ChosenValues :
                finalized[m] = Nil /\ finalized' = [finalized EXCEPT ![m] = v]
  <2>1. ChosenValues' = ChosenValues
    BY <1>6 DEF ChosenValues, CommitCertificate, Precommitters
  <2>2. ChosenValues \in SUBSET Values
    BY DEF ChosenValues
  <2> QED BY <1>6, <2>1, <2>2 DEF Consensus!Next, Consensus!Finalize
<1> QED BY <1>5, <1>6, FinalizedCases

(* The voting protocol implements consensus on the height.                 *)
THEOREM Refinement == Spec => ImplementsConsensus
BY ChosenInit, ChosenStep, Invariance, PTL DEF Spec, ImplementsConsensus, Consensus!Spec
-----------------------------------------------------------------------------
(* The order of a member's votes, and the moves of its lock.               *)

(* A member journals a vote only in the latest round it has journalled     *)
(* anything of, a prevote before the precommit, and never over another.    *)
THEOREM VotesInOrderHolds == Spec => VotesInOrder
<1> DEFINE InOrder(m, r) ==
             /\ prevotes'[m][r] # prevotes[m][r] =>
                  /\ prevotes[m][r] = None
                  /\ precommits[m][r] = None
                  /\ \A q \in JournalRounds(m) : q <= r
             /\ precommits'[m][r] # precommits[m][r] =>
                  /\ precommits[m][r] = None
                  /\ \A q \in JournalRounds(m) : q <= r
<1>1. ASSUME IInv, [Next]_vars, NEW m \in Correct, NEW r \in Rounds
      PROVE  InOrder(m, r)
  <2>1. CASE UNCHANGED vars
    BY <2>1 DEF vars
  <2>2. CASE Next
    <3>1. PICK c \in Correct :
             /\ Voting(c)
             /\ \/ PrevoteStep(c)
                \/ PrecommitStep(c)
                \/ AdvanceStep(c)
                \/ DeferStep(c)
                \/ FinalizeStep(c)
                \/ RestartStep(c)
      BY <1>1, <2>2, StepCases DEF IInv
    <3>2. state[c] \in RoundStates /\ TypeOK
      BY <1>1 DEF IInv, TypeOK
    <3>3. CASE PrevoteStep(c)
      <4>a. PICK v \in Votes, p \in Proofs \cup {None} :
              /\ state[c].prevote = None
              /\ state[c].precommit = None
              /\ JournalPrevote(c, Prevoted(state[c], v, p))
        BY <3>3 DEF PrevoteStep, KnownProofs, CanPrevote
      <4>b. PICK n : n = Prevoted(state[c], v, p)
        OBVIOUS
      <4>1. /\ state[c].prevote = None
            /\ state[c].precommit = None
            /\ n = Prevoted(state[c], v, p)
            /\ JournalPrevote(c, n)
        BY <4>a, <4>b
      <4>2. n.round = state[c].round
        BY <3>2, <4>1 DEF Prevoted, RoundStates
      <4>3. precommits' = precommits
            /\ (prevotes' = prevotes \/ prevotes' = [prevotes EXCEPT ![c][n.round] = n.prevote])
        BY <4>1, JournalPrevoteCases DEF NothingRecorded, LockRecorded, PrevoteRecorded
      <4>4. prevotes'[m][r] # prevotes[m][r] => m = c /\ r = state[c].round
        <5>1. CASE prevotes' = prevotes
          BY <5>1
        <5>2. CASE prevotes' = [prevotes EXCEPT ![c][n.round] = n.prevote]
          <6>1. prevotes \in [Correct -> [Rounds -> Votes \cup {None}]]
            BY <3>2 DEF TypeOK
          <6> QED BY <4>2, <5>2, <6>1
        <5> QED BY <4>3, <5>1, <5>2
      <4>5. /\ \A q \in JournalRounds(c) : q <= state[c].round
            /\ prevotes[c][state[c].round] = None
            /\ precommits[c][state[c].round] = None
        <5>1. Voting(c) /\ state[c].prevote = None /\ state[c].precommit = None
          BY <3>1, <4>1
        <5> QED BY <1>1, <5>1 DEF IInv, MemoryCoversJournal
      <4> QED BY <4>3, <4>4, <4>5
    <3>4. CASE PrecommitStep(c)
      <4>a. PICK p \in Proofs \cup {None} :
              /\ state[c].precommit = None
              /\ JournalPrecommit(c, Precommitted(state[c], p))
        BY <3>4 DEF PrecommitStep, KnownProofs
      <4>b. PICK n : n = Precommitted(state[c], p)
        OBVIOUS
      <4>1. /\ state[c].precommit = None
            /\ n = Precommitted(state[c], p)
            /\ JournalPrecommit(c, n)
        BY <4>a, <4>b
      <4>2. n.round = state[c].round
        BY <3>2, <4>1 DEF Precommitted, RoundStates
      <4>3. /\ prevotes' = prevotes
            /\ \/ precommits' = precommits
               \/ precommits' = [precommits EXCEPT ![c][n.round] = n.precommit]
        BY <4>1, JournalPrecommitCases DEF NothingRecorded, LockRecorded, PrecommitRecorded
      <4>4. precommits'[m][r] # precommits[m][r] => m = c /\ r = state[c].round
        <5>1. CASE precommits' = precommits
          BY <5>1
        <5>2. CASE precommits' = [precommits EXCEPT ![c][n.round] = n.precommit]
          <6>1. precommits \in [Correct -> [Rounds -> Votes \cup {None}]]
            BY <3>2 DEF TypeOK
          <6> QED BY <4>2, <5>2, <6>1
        <5> QED BY <4>3, <5>1, <5>2
      <4>5. /\ \A q \in JournalRounds(c) : q <= state[c].round
            /\ precommits[c][state[c].round] = None
        <5>1. Voting(c) /\ state[c].precommit = None
          BY <3>1, <4>1
        <5> QED BY <1>1, <5>1 DEF IInv, MemoryCoversJournal
      <4> QED BY <4>3, <4>4, <4>5
    <3>5. CASE AdvanceStep(c) \/ DeferStep(c) \/ FinalizeStep(c) \/ RestartStep(c)
      BY <3>5 DEF AdvanceStep, AdvanceRound, DeferStep, FinalizeStep, RecordFinalized,
                  RestartStep
    <3> QED BY <3>1, <3>3, <3>4, <3>5
  <2> QED BY <1>1, <2>1, <2>2
<1>2. ASSUME IInv, [Next]_vars
      PROVE  [\A m \in Correct, r \in Rounds : InOrder(m, r)]_vars
  BY <1>1, <1>2
<1>3. IInv /\ [Next]_vars => [\A m \in Correct, r \in Rounds :
       /\ prevotes'[m][r] # prevotes[m][r] =>
            /\ prevotes[m][r] = None
            /\ precommits[m][r] = None
            /\ \A q \in JournalRounds(m) : q <= r
       /\ precommits'[m][r] # precommits[m][r] =>
            /\ precommits[m][r] = None
            /\ \A q \in JournalRounds(m) : q <= r]_vars
  BY <1>2
<1> QED BY <1>3, Invariance, PTL DEF Spec, VotesInOrder

(* A decision moves the lock to a prevote quorum's block, or releases it   *)
(* for a quorum of something else.                                         *)
MovedByProof(m, n) ==
  LockOf(n) # lock[m] =>
    /\ n.locked \in Values => Polc(n.lockRound, n.locked)
    /\ lock[m].value \in Values \ {n.locked} =>
         \E w \in Votes \ {lock[m].value} : Polc(n.lockRound, w)

LEMMA PrevoteMovesLock ==
  ASSUME TypeOK, NEW m \in Correct, lock[m] = LockOf(state[m]),
         NEW v \in Votes, NEW p \in KnownProofs \cup {None},
         state[m].prevote = None,
         NEW n, n = Prevoted(state[m], v, p)
  PROVE  MovedByProof(m, n)
<1>1. state[m] \in RoundStates
  BY DEF TypeOK
<1>2. CASE ~ Unlocks(state[m], p)
  BY <1>1, <1>2 DEF Prevoted, RoundStates, LockOf, MovedByProof
<1>3. CASE Unlocks(state[m], p)
  <2>1. p \in KnownProofs /\ p.value # state[m].locked
    BY <1>3 DEF Unlocks
  <2>2. p.value \in Votes /\ Polc(p.round, p.value)
    BY <2>1 DEF KnownProofs, Proofs
  <2>3. n.locked = Nil /\ n.lockRound = p.round
    BY <1>1, <1>3 DEF Prevoted, RoundStates
  <2>4. lock[m].value = state[m].locked
    BY DEF LockOf
  <2> QED BY <2>1, <2>2, <2>3, <2>4, ValueAssumption DEF MovedByProof
<1> QED BY <1>2, <1>3

LEMMA PrecommitMovesLock ==
  ASSUME TypeOK, NEW m \in Correct, lock[m] = LockOf(state[m]),
         NEW b \in Votes, NEW p \in KnownProofs \cup {None},
         state[m].precommit = None, CanPrecommit(state[m], p, b),
         NEW n, n = Precommitted(state[m], p)
  PROVE  MovedByProof(m, n)
<1>1. state[m] \in RoundStates
  BY DEF TypeOK
<1>2. CASE p = None
  BY <1>1, <1>2 DEF Precommitted, RoundStates, LockOf, MovedByProof
<1>3. CASE p # None
  <2>1. p.round = state[m].round /\ p.value \in Votes /\ Polc(p.round, p.value)
    BY <1>3 DEF CanPrecommit, KnownProofs, Proofs
  <2>2. n.locked = p.value /\ n.lockRound = p.round
    BY <1>1, <1>3, <2>1 DEF Precommitted, RoundStates
  <2> QED BY <2>1, <2>2 DEF MovedByProof
<1> QED BY <1>2, <1>3

(* A journalled lock moves forward only, to a block or to nothing, on the  *)
(* strength of a prevote quorum of the round it moves to.                  *)
THEOREM LockMovesOnProofHolds == Spec => LockMovesOnProof
<1> DEFINE Moved(m) ==
             Voting(m)' /\ lock'[m] # lock[m] =>
               /\ lock[m].round <= lock'[m].round
               /\ lock'[m].value \in Values =>
                    Polc(lock'[m].round, lock'[m].value)
               /\ lock[m].value \in Values \ {lock'[m].value} =>
                    \E w \in Votes \ {lock[m].value} : Polc(lock'[m].round, w)
<1>1. ASSUME IInv, [Next]_vars, NEW m \in Correct
      PROVE  Moved(m)
  <2>1. CASE UNCHANGED vars
    BY <2>1 DEF vars
  <2>2. CASE Next
    <3>1. PICK c \in Correct :
             /\ Voting(c)
             /\ \/ PrevoteStep(c)
                \/ PrecommitStep(c)
                \/ AdvanceStep(c)
                \/ DeferStep(c)
                \/ FinalizeStep(c)
                \/ RestartStep(c)
      BY <1>1, <2>2, StepCases DEF IInv
    <3>2. TypeOK
      BY <1>1 DEF IInv
    <3>3. ASSUME NEW n, lock[c] = LockOf(state[c]), lock' = [lock EXCEPT ![c] = LockOf(n)],
                 lock[c].round <= n.lockRound, MovedByProof(c, n)
          PROVE  Moved(m)
      <4>1. lock'[m] = IF m = c THEN LockOf(n) ELSE lock[m]
        BY <3>2, <3>3 DEF TypeOK
      <4>2. CASE m = c
        <5>1. lock'[m] = LockOf(n) /\ lock'[m].value = n.locked /\ lock'[m].round = n.lockRound
          BY <4>1, <4>2 DEF LockOf
        <5> QED BY <3>3, <4>2, <5>1 DEF MovedByProof
      <4>3. CASE m # c
        BY <4>1, <4>3
      <4> QED BY <4>2, <4>3
    <3>4. CASE PrevoteStep(c)
      <4>a. PICK v \in Votes, p \in KnownProofs \cup {None} :
              /\ state[c].prevote = None
              /\ CanPrevote(state[c], v, p)
              /\ JournalPrevote(c, Prevoted(state[c], v, p))
        BY <3>4 DEF PrevoteStep
      <4>b. PICK n : n = Prevoted(state[c], v, p)
        OBVIOUS
      <4>1. \/ lock' = lock
            \/ lock[c] = LockOf(state[c]) /\ lock' = [lock EXCEPT ![c] = LockOf(n)]
        BY <4>a, <4>b, JournalPrevoteCases DEF NothingRecorded, LockRecorded, PrevoteRecorded
      <4>2. CASE lock' = lock
        BY <4>2
      <4>3. CASE lock[c] = LockOf(state[c]) /\ lock' = [lock EXCEPT ![c] = LockOf(n)]
        <5>1. lock[c].round <= n.lockRound
          BY <1>1, <3>1, <4>a, <4>b, <4>3, PrevoteDecision
        <5>2. MovedByProof(c, n)
          BY <3>2, <4>a, <4>b, <4>3, PrevoteMovesLock
        <5> QED BY <3>3, <4>3, <5>1, <5>2
      <4> QED BY <4>1, <4>2, <4>3
    <3>5. CASE PrecommitStep(c)
      <4>a. PICK p \in KnownProofs \cup {None}, b \in Votes :
              /\ state[c].precommit = None
              /\ CanPrecommit(state[c], p, b)
              /\ JournalPrecommit(c, Precommitted(state[c], p))
        BY <3>5 DEF PrecommitStep
      <4>b. PICK n : n = Precommitted(state[c], p)
        OBVIOUS
      <4>1. \/ lock' = lock
            \/ lock[c] = LockOf(state[c]) /\ lock' = [lock EXCEPT ![c] = LockOf(n)]
        BY <4>a, <4>b, JournalPrecommitCases DEF NothingRecorded, LockRecorded, PrecommitRecorded
      <4>2. CASE lock' = lock
        BY <4>2
      <4>3. CASE lock[c] = LockOf(state[c]) /\ lock' = [lock EXCEPT ![c] = LockOf(n)]
        <5>1. lock[c].round <= n.lockRound
          BY <1>1, <3>1, <4>a, <4>b, <4>3, PrecommitDecision
        <5>2. MovedByProof(c, n)
          BY <3>2, <4>a, <4>b, <4>3, PrecommitMovesLock
        <5> QED BY <3>3, <4>3, <5>1, <5>2
      <4> QED BY <4>1, <4>2, <4>3
    <3>6. CASE AdvanceStep(c) \/ DeferStep(c) \/ RestartStep(c)
      BY <3>6 DEF AdvanceStep, AdvanceRound, DeferStep, RestartStep
    <3>7. CASE FinalizeStep(c)
      <4>1. PICK v \in Values : RecordFinalized(c, v)
        BY <3>7 DEF FinalizeStep
      <4>2. finalized'[c] = v /\ v # Nil
        BY <3>2, <4>1, ValueAssumption DEF RecordFinalized, TypeOK
      <4>3. m # c => lock'[m] = lock[m]
        BY <3>2, <4>1 DEF RecordFinalized, TypeOK
      <4> QED BY <4>2, <4>3 DEF Voting
    <3> QED BY <3>1, <3>4, <3>5, <3>6, <3>7
  <2> QED BY <1>1, <2>1, <2>2
<1>2. IInv /\ [Next]_vars => [\A m \in Correct :
       Voting(m)' /\ lock'[m] # lock[m] =>
         /\ lock[m].round <= lock'[m].round
         /\ lock'[m].value \in Values =>
              Polc(lock'[m].round, lock'[m].value)
         /\ lock[m].value \in Values \ {lock'[m].value} =>
              \E w \in Votes \ {lock[m].value} : Polc(lock'[m].round, w)]_vars
  BY <1>1
<1> QED BY <1>2, Invariance, PTL DEF Spec, LockMovesOnProof

(* The signing gate of a member whose writes succeed and that does not     *)
(* restart never refuses it a vote.                                        *)
GateInv(m) ==
  Voting(m) =>
    /\ lock[m] = LockOf(state[m])
    /\ state[m].precommit = None =>
         lock[m] = NoLock \/ state[m].lockRound < state[m].round

Gates == \A m \in Correct \ Unreliable : GateInv(m)

THEOREM GateStaysOpen == Spec => []GateOpen
<1>1. Init => Gates
  BY DEF Init, Gates, GateInv, Fresh, LockOf, NoLock
<1>2. ASSUME IInv, [Next]_vars, NEW m \in Correct \ Unreliable, GateInv(m)
      PROVE  GateInv(m)'
  <2>0. m \in Correct /\ TypeOK /\ TypeOK'
    BY <1>2, TypeStep DEF IInv
  <2>1. CASE UNCHANGED vars
    BY <1>2, <2>1 DEF vars, GateInv, Voting
  <2>2. CASE Next
    <3>1. PICK c \in Correct :
             /\ Voting(c)
             /\ \/ PrevoteStep(c)
                \/ PrecommitStep(c)
                \/ AdvanceStep(c)
                \/ DeferStep(c)
                \/ FinalizeStep(c)
                \/ RestartStep(c)
      BY <2>0, <2>2, StepCases
    <3>2. CASE c # m
      <4>1. state'[m] = state[m] /\ lock'[m] = lock[m] /\ finalized'[m] = finalized[m]
        BY <2>0, <3>1, <3>2, JournalPrevoteCases, JournalPrecommitCases
           DEF PrevoteStep, PrecommitStep, AdvanceStep, AdvanceRound, DeferStep,
               FinalizeStep, RecordFinalized, RestartStep,
               NothingRecorded, LockRecorded, PrevoteRecorded, PrecommitRecorded, TypeOK
      <4> QED BY <1>2, <4>1 DEF GateInv, Voting
    <3>3. CASE c = m
      <4>1. /\ Voting(m) /\ lock[m] = LockOf(state[m]) /\ state[m] \in RoundStates
            /\ state[m].precommit = None =>
                 lock[m] = NoLock \/ state[m].lockRound < state[m].round
        BY <1>2, <2>0, <3>1, <3>3 DEF GateInv, TypeOK
      <4>2. CASE PrevoteStep(m)
        <5>a. PICK v \in Votes, p \in Proofs \cup {None} :
                /\ state[m].prevote = None
                /\ CanPrevote(state[m], v, p)
                /\ JournalPrevote(m, Prevoted(state[m], v, p))
          BY <4>2 DEF PrevoteStep, KnownProofs
        <5>b. PICK n : n = Prevoted(state[m], v, p)
          OBVIOUS
        <5>1. /\ state[m].prevote = None
              /\ CanPrevote(state[m], v, p)
              /\ n = Prevoted(state[m], v, p)
              /\ JournalPrevote(m, n)
          BY <5>a, <5>b
        <5>2. n \in RoundStates
          BY <4>1, <5>1, PrevotedType
        <5>3. /\ n.round = state[m].round /\ state[m].precommit = None
              /\ \/ LockOf(n) = lock[m] /\ n.lockRound = state[m].lockRound
                 \/ n.lockRound > lock[m].round /\ n.lockRound < n.round
          BY <4>1, <5>1 DEF Prevoted, Unlocks, CanPrevote, LockOf, RoundStates
        <5>4. LockRecordable(m, n)
          BY <4>1, <5>3 DEF LockRecordable, RecordLockAccepts, LockOf
        <5>5. /\ state' = [state EXCEPT ![m] = n]
              /\ lock' = [lock EXCEPT ![m] = LockOf(n)]
          BY <1>2, <5>1, <5>4 DEF JournalPrevote, JournalVote
        <5>6. state'[m] = n /\ lock'[m] = LockOf(n)
          BY <2>0, <5>5 DEF TypeOK
        <5> QED BY <4>1, <5>3, <5>6 DEF GateInv, LockOf, NoLock
      <4>3. CASE PrecommitStep(m)
        <5>a. PICK b \in Votes, p \in KnownProofs \cup {None} :
                /\ state[m].precommit = None
                /\ CanPrecommit(state[m], p, b)
                /\ JournalPrecommit(m, Precommitted(state[m], p))
          BY <4>3 DEF PrecommitStep
        <5>b. PICK n : n = Precommitted(state[m], p)
          OBVIOUS
        <5>1. /\ state[m].precommit = None
              /\ CanPrecommit(state[m], p, b)
              /\ n = Precommitted(state[m], p)
              /\ JournalPrecommit(m, n)
          BY <5>a, <5>b
        <5>2. /\ n.precommit # None
              /\ LockOf(n) = lock[m] \/ n.lockRound = state[m].round
          BY <4>1, <5>1, ValueAssumption
             DEF Precommitted, PrecommitValue, LockOf, RoundStates, KnownProofs, Proofs, Votes
        <5>3. LockRecordable(m, n)
          BY <4>1, <5>1, <5>2
             DEF LockRecordable, RecordLockAccepts, LockOf, RoundStates, Rounds
        <5>4. /\ state' = [state EXCEPT ![m] = n]
              /\ lock' = [lock EXCEPT ![m] = LockOf(n)]
          BY <1>2, <5>1, <5>3 DEF JournalPrecommit, JournalVote
        <5>5. state'[m] = n /\ lock'[m] = LockOf(n)
          BY <2>0, <5>4 DEF TypeOK
        <5> QED BY <5>2, <5>5 DEF GateInv
      <4>4. CASE AdvanceStep(m)
        <5>1. PICK r \in Rounds : /\ r > state[m].round
                                  /\ state' = [state EXCEPT ![m] = Advanced(@, r)]
                                  /\ UNCHANGED <<lock, prevotes, precommits, finalized>>
          BY <4>4 DEF AdvanceStep, AdvanceRound, CanAdvance
        <5>2. state'[m] = Advanced(state[m], r)
          BY <2>0, <5>1 DEF TypeOK
        <5>3. state'[m].round = r /\ LockOf(state'[m]) = LockOf(state[m])
              /\ state'[m].lockRound = state[m].lockRound
          BY <4>1, <5>2 DEF Advanced, LockOf, RoundStates
        <5>4. state[m].lockRound <= state[m].round
          <6>1. lock[m].round \in JournalRounds(m) /\ lock[m].round = state[m].lockRound
            BY <4>1 DEF JournalRounds, LockOf
          <6> QED BY <1>2, <4>1, <6>1 DEF IInv, MemoryCoversJournal
        <5> QED BY <4>1, <5>1, <5>3, <5>4 DEF GateInv, RoundStates, Rounds
      <4>5. CASE DeferStep(m)
        <5>1. PICK b \in Values : state'[m] = Committed(state[m], b)
          BY <2>0, <4>5 DEF DeferStep, TypeOK
        <5> QED BY <4>1, <4>5, <5>1 DEF DeferStep, Committed, GateInv, LockOf, RoundStates
      <4>6. CASE FinalizeStep(m)
        BY <2>0, <4>6, ValueAssumption
           DEF FinalizeStep, RecordFinalized, GateInv, Voting, TypeOK
      <4>7. ~ RestartStep(m)
        BY DEF RestartStep
      <4> QED BY <3>1, <3>3, <4>2, <4>3, <4>4, <4>5, <4>6, <4>7
    <3> QED BY <3>2, <3>3
  <2> QED BY <1>2, <2>1, <2>2
<1>3. ASSUME IInv, Gates
      PROVE  GateOpen
  <2> SUFFICES ASSUME NEW m \in Correct \ Unreliable, Voting(m), NEW p \in KnownProofs
               PROVE  /\ lock[m] = LockOf(state[m])
                      /\ state[m].precommit = None /\ p.round = state[m].round
                         => LockRecordable(m, Precommitted(state[m], p))
    BY <1>3 DEF GateOpen, Gates, GateInv
  <2>1. lock[m] = LockOf(state[m]) /\ state[m] \in RoundStates
    BY <1>3 DEF Gates, GateInv, IInv, TypeOK
  <2>2. ASSUME state[m].precommit = None, p.round = state[m].round
        PROVE  LockRecordable(m, Precommitted(state[m], p))
    <3>1. lock[m] = NoLock \/ state[m].lockRound < state[m].round
      BY <1>3, <2>2 DEF Gates, GateInv
    <3>2. Precommitted(state[m], p).lockRound = state[m].round
      BY <2>1, <2>2, ProofAssumption DEF Precommitted, RoundStates, KnownProofs, Proofs
    <3> QED BY <2>1, <3>1, <3>2 DEF LockRecordable, RecordLockAccepts, LockOf, RoundStates, Rounds
  <2> QED BY <2>1, <2>2
<1>4. IInv /\ Gates /\ [Next]_vars => Gates'
  BY <1>2 DEF Gates
<1>5. IInv /\ Gates => GateOpen
  BY <1>3
<1> QED BY <1>1, <1>4, <1>5, Invariance, PTL DEF Spec
=============================================================================
