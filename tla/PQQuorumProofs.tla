--------------------------- MODULE PQQuorumProofs ---------------------------
(***************************************************************************)
(* What the proofs about a member and about the committee both rest on:    *)
(* what the quorum size of pqquorum::Threshold guarantees, for committees  *)
(* of every permitted size; that the operators of PQRoundState keep their  *)
(* types; and that a set of rounds has a latest one.                       *)
(***************************************************************************)
EXTENDS PQQuorum, PQRoundState, FiniteSetTheorems, TLAPS

(* A quorum exists, is never larger than the committee, and two quorums    *)
(* overlap in more members than a third of the committee can supply        *)
(* (Threshold, pqquorum.cpp).                                              *)
THEOREM ThresholdBounds ==
  ASSUME NEW n \in MIN_MEMBERS..MAX_MEMBERS, NEW f \in Nat, 3 * f < n
  PROVE  /\ Threshold(n) \in 1..n
         /\ Threshold(n) <= n - f
         /\ 2 * Threshold(n) - n > f
  BY DEF Threshold, MIN_MEMBERS, MAX_MEMBERS

(* Two quorums share a member that is not one of the faulty ones, whatever *)
(* those signed.                                                           *)
THEOREM QuorumsShareCorrectMember ==
  ASSUME NEW M, IsFiniteSet(M), Cardinality(M) \in MIN_MEMBERS..MAX_MEMBERS,
         NEW C \in SUBSET M, 3 * Cardinality(M \ C) < Cardinality(M),
         NEW P \in QuorumsOf(M), NEW Q \in QuorumsOf(M)
  PROVE  P \cap Q \cap C # {}
<1> DEFINE n == Cardinality(M)
           f == Cardinality(M \ C)
<1>1. /\ P \subseteq M /\ Cardinality(P) >= Threshold(n)
      /\ Q \subseteq M /\ Cardinality(Q) >= Threshold(n)
  BY DEF QuorumsOf
<1>2. /\ IsFiniteSet(P) /\ IsFiniteSet(Q) /\ IsFiniteSet(M \ C)
      /\ IsFiniteSet(P \cap Q) /\ IsFiniteSet(P \cup Q)
      /\ Cardinality(P \cup Q) <= n
  <2>1. P \cup Q \in SUBSET M /\ P \cap Q \in SUBSET M /\ M \ C \in SUBSET M
    BY <1>1
  <2> QED BY <1>1, <2>1, FS_Subset
<1>3. /\ Cardinality(P) \in Nat /\ Cardinality(Q) \in Nat
      /\ Cardinality(P \cup Q) \in Nat /\ Cardinality(P \cap Q) \in Nat /\ f \in Nat
  BY <1>2, FS_CardinalityType
<1>4. Cardinality(P \cup Q) = Cardinality(P) + Cardinality(Q) - Cardinality(P \cap Q)
  BY <1>2, FS_Union
<1>5. 2 * Threshold(n) - n > f /\ Threshold(n) \in 1..n
  BY <1>3, ThresholdBounds
<1>6. Cardinality(P \cap Q) > f
  <2> HIDE DEF f, n
  <2>1. n \in Nat
    BY DEF n, MIN_MEMBERS, MAX_MEMBERS
  <2> QED BY <1>1, <1>2, <1>3, <1>4, <1>5, <2>1
<1>7. SUFFICES ASSUME P \cap Q \cap C = {} PROVE FALSE
  OBVIOUS
<1>8. P \cap Q \in SUBSET (M \ C)
  BY <1>1, <1>7
<1>9. Cardinality(P \cap Q) <= f
  BY <1>2, <1>8, FS_Subset
<1> QED BY <1>3, <1>6, <1>9

(* The correct members alone are a quorum: the faulty ones cannot stop a   *)
(* certificate by staying silent.                                          *)
THEOREM CorrectMembersAreQuorum ==
  ASSUME NEW M, IsFiniteSet(M), Cardinality(M) \in MIN_MEMBERS..MAX_MEMBERS,
         NEW C \in SUBSET M, 3 * Cardinality(M \ C) < Cardinality(M)
  PROVE  C \in QuorumsOf(M)
<1>1. M \ C \in SUBSET M
  OBVIOUS
<1>2. IsFiniteSet(C) /\ IsFiniteSet(M \ C)
  BY <1>1, FS_Subset
<1>3. Cardinality(C) \in Nat /\ Cardinality(M \ C) \in Nat
  BY <1>2, FS_CardinalityType
<1>4. C \cup (M \ C) = M /\ C \cap (M \ C) = {}
  OBVIOUS
<1>5. Cardinality(M) = Cardinality(C) + Cardinality(M \ C) - Cardinality(C \cap (M \ C))
  BY <1>2, <1>4, FS_Union
<1>6. Cardinality(C) = Cardinality(M) - Cardinality(M \ C)
  BY <1>3, <1>4, <1>5, FS_EmptySet DEF MIN_MEMBERS, MAX_MEMBERS
<1> QED BY <1>3, <1>6, ThresholdBounds DEF QuorumsOf
-----------------------------------------------------------------------------
(* The state operators keep their type.                                    *)

LEMMA PrevotedType ==
  ASSUME NEW s \in RoundStates, NEW v \in Votes, NEW p \in Proofs \cup {None}
  PROVE  Prevoted(s, v, p) \in RoundStates
BY ValueAssumption DEF Prevoted, PrevoteValue, Unlocks, RoundStates, Votes, Proofs

LEMMA PrecommittedType ==
  ASSUME NEW s \in RoundStates, NEW p \in Proofs \cup {None}
  PROVE  Precommitted(s, p) \in RoundStates
BY ValueAssumption DEF Precommitted, PrecommitValue, RoundStates, Votes, Proofs

(* There are finitely many rounds, so the latest of some is one of them.   *)
LEMMA LatestRound ==
  ASSUME NEW S \in SUBSET Rounds, S # {}
  PROVE  \E h \in S : \A r \in S : r <= h
<1> DEFINE Above(r) == r..MaxRound
           T == {Above(r) : r \in S}
<1>1. \A r \in S : r \in Nat /\ r <= MaxRound
  BY RoundAssumption DEF Rounds
<1>2. T \in SUBSET FiniteSubsetsOf(Nat) /\ T # {}
  <2>1. \A r \in S : Above(r) \in SUBSET Nat /\ IsFiniteSet(Above(r))
    <3> TAKE r \in S
    <3>1. r \in Int /\ MaxRound \in Int /\ r \in Nat
      BY <1>1, RoundAssumption
    <3>2. IsFiniteSet(r..MaxRound)
      BY <3>1, FS_Interval
    <3> QED BY <3>1, <3>2
  <2>2. \A X \in T : X \in FiniteSubsetsOf(Nat)
    <3> TAKE X \in T
    <3>1. X \in SUBSET Nat /\ IsFiniteSet(X)
      BY <2>1
    <3> HIDE DEF T
    <3> QED BY <3>1, Zenon DEF FiniteSubsetsOf
  <2>3. T # {}
    OBVIOUS
  <2> HIDE DEF T
  <2> QED BY <2>2, <2>3
<1>3. PICK X \in T : \A Y \in T : ~ (<<Y, X>> \in StrictSubsetOrdering(Nat))
  <2> HIDE DEF T
  <2> QED BY <1>2, WFMin, FS_StrictSubsetOrderingWellFounded
<1>4. PICK h \in S : X = Above(h)
  OBVIOUS
<1>5. ASSUME NEW r \in S PROVE r <= h
  <2>1. SUFFICES ASSUME r > h PROVE FALSE
    BY <1>1
  <2>2. Above(r) \subseteq Above(h) /\ h \in Above(h) /\ h \notin Above(r)
    BY <1>1, <2>1, RoundAssumption
  <2>3. <<Above(r), Above(h)>> \in StrictSubsetOrdering(Nat)
    BY <1>1, <2>2, RoundAssumption DEF StrictSubsetOrdering
  <2> QED BY <1>3, <1>4, <2>3
<1> HIDE DEF T
<1> QED BY <1>5
=============================================================================
