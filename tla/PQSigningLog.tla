---------------------------- MODULE PQSigningLog ----------------------------
(***************************************************************************)
(* What a signing identity may rely on, whatever its storage does: a vote  *)
(* that left the journal is never contradicted by another, locks and       *)
(* proofs of an open height only move to later rounds and are never        *)
(* forgotten, and the final height only grows.  Operations are atomic and  *)
(* there are no crashes here; PQJournal is shown to look like this.        *)
(***************************************************************************)
EXTENDS Integers

CONSTANTS
  VoteRecords,   \* records with fields height, round, step, value
  LockRecords,   \* records with fields height, round, value
  ProofRecords,  \* records with fields height, round, value, signers
  FinalRecords,  \* records with fields height, value
  NoFinal        \* the final record of a log that has none: height 0

VARIABLES
  signed,  \* every vote whose signature has ever been available to a caller
  locks,   \* the lock of each open height that has one
  proofs,  \* the newest quorum proof of each open height that has one
  final    \* the newest final record

vars == <<signed, locks, proofs, final>>

Init ==
  /\ signed = {}
  /\ locks = {}
  /\ proofs = {}
  /\ final = NoFinal

Sign(v) ==
  /\ v.height > final.height
  /\ \A w \in signed :
       ~ (w.height = v.height /\ w.round = v.round /\ w.step = v.step)
  /\ signed' = signed \cup {v}
  /\ UNCHANGED <<locks, proofs, final>>

Lock(l) ==
  /\ l.height > final.height
  /\ \A k \in locks : k.height = l.height => k.round < l.round
  /\ locks' = {k \in locks : k.height # l.height} \cup {l}
  /\ UNCHANGED <<signed, proofs, final>>

Prove(p) ==
  /\ p.height > final.height
  /\ \A q \in proofs : q.height = p.height =>
       \/ q.round < p.round
       \/ q.round = p.round /\ q.value = p.value /\ q.signers < p.signers
  /\ proofs' = {q \in proofs : q.height # p.height} \cup {p}
  /\ UNCHANGED <<signed, locks, final>>

Finalize(f) ==
  /\ f.height > final.height
  /\ final' = f
  /\ locks' = {k \in locks : k.height > f.height}
  /\ proofs' = {q \in proofs : q.height > f.height}
  /\ UNCHANGED signed

Next ==
  \/ \E v \in VoteRecords : Sign(v)
  \/ \E l \in LockRecords : Lock(l)
  \/ \E p \in ProofRecords : Prove(p)
  \/ \E f \in FinalRecords : Finalize(f)

Spec == Init /\ [][Next]_vars
=============================================================================
