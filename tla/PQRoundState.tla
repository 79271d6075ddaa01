---------------------------- MODULE PQRoundState ----------------------------
(***************************************************************************)
(* The per-height voting state machine pqquorum::RoundState, as operators  *)
(* on a record.  A boolean flag and the value it guards in the code        *)
(* (prevoted / prevote, precommitted / precommit) are one field here that  *)
(* is None while the flag is false.  Quorum proofs are records             *)
(* [round, value]; whether a proof verifies is the caller's question,      *)
(* because only the caller's model knows who has signed what.              *)
(***************************************************************************)
EXTENDS Integers

CONSTANTS
  Values,    \* block hashes a member may vote for
  Nil,       \* the null hash: a vote for no block, and "not locked"
  None,      \* no vote in this step yet; no proof
  MaxRound   \* the last round, UINT32_MAX in the code

ASSUME ValueAssumption == Nil \notin Values /\ None \notin Values \cup {Nil}
ASSUME RoundAssumption == MaxRound \in Nat

Rounds == 0..MaxRound
Votes == Values \cup {Nil}
Proofs == [round : Rounds, value : Votes]

ASSUME ProofAssumption == None \notin Proofs

RoundStates ==
  [round     : Rounds,
   locked    : Votes,
   lockRound : Rounds,
   prevote   : Votes \cup {None},
   precommit : Votes \cup {None},
   committed : Votes]

(* The constructor, and Restore: the state rebuilt from journalled votes.  *)
Fresh ==
  [round |-> 0, locked |-> Nil, lockRound |-> 0,
   prevote |-> None, precommit |-> None, committed |-> Nil]

\* Variant: the precommit of the round is not restored.
RestoredWithoutPrecommit(round, lock, prevote, precommit) ==
  [Fresh EXCEPT !.round = round, !.locked = lock.value, !.lockRound = lock.round,
                !.prevote = prevote]

Restored(round, lock, prevote, precommit) ==
  [round |-> round, locked |-> lock.value, lockRound |-> lock.round,
   prevote |-> prevote, precommit |-> precommit, committed |-> Nil]

LockOf(s) == [value |-> s.locked, round |-> s.lockRound]

(* Advance(round): a later round clears both votes and keeps the lock.     *)
CanAdvance(s, round) == s.committed = Nil /\ round > s.round

Advanced(s, round) ==
  [s EXCEPT !.round = round, !.prevote = None, !.precommit = None]

(* Prevote(proposal, proof): a proof for another value, from a round after *)
(* the lock's, releases the lock; a member that keeps its lock votes it.   *)
Unlocks(s, proof) ==
  /\ proof # None
  /\ s.locked # Nil
  /\ proof.value # s.locked
  /\ proof.round > s.lockRound

\* Variant: the lock is not consulted.
PrevoteProposed(s, proposal, proof) == proposal

PrevoteValue(s, proposal, proof) ==
  IF s.locked = Nil \/ Unlocks(s, proof) THEN proposal ELSE s.locked

CanPrevote(s, proposal, proof) ==
  /\ s.committed = Nil
  /\ s.precommit = None
  /\ proof # None => proof.round < s.round
  /\ s.prevote \in {None, PrevoteValue(s, proposal, proof)}

Prevoted(s, proposal, proof) ==
  IF s.prevote # None THEN s
  ELSE [s EXCEPT !.prevote = PrevoteValue(s, proposal, proof),
                 !.locked = IF Unlocks(s, proof) THEN Nil ELSE @,
                 !.lockRound = IF Unlocks(s, proof) THEN proof.round ELSE @]

(* Precommit(proof, block): a current-round proof moves the lock to its    *)
(* value (nil included); without one the vote is nil and the lock stays.   *)
PrecommitValue(proof) == IF proof = None THEN Nil ELSE proof.value

CanPrecommit(s, proof, block) ==
  /\ s.committed = Nil
  /\ proof # None => proof.round = s.round /\ proof.value \in {Nil, block}
  /\ s.precommit \in {None, PrecommitValue(proof)}

\* Variant: a nil precommit for want of a quorum releases the lock too.
PrecommittedReleasing(s, proof) ==
  [s EXCEPT !.precommit = PrecommitValue(proof),
            !.locked = PrecommitValue(proof), !.lockRound = s.round]

\* Variant: a precommit takes no lock.
PrecommittedUnlocked(s, proof) == [s EXCEPT !.precommit = PrecommitValue(proof)]

Precommitted(s, proof) ==
  IF s.precommit # None THEN s
  ELSE [s EXCEPT !.precommit = PrecommitValue(proof),
                 !.locked = IF proof = None THEN @ ELSE proof.value,
                 !.lockRound = IF proof = None THEN @ ELSE s.round]

(* Commit(proof, block) for a precommit certificate of the block.          *)
CanCommit(s, value, block) ==
  /\ value = block
  /\ value # Nil
  /\ s.committed \in {Nil, value}

Committed(s, value) == [s EXCEPT !.committed = value]
=============================================================================
