------------------------------ MODULE PQQuorum ------------------------------
(***************************************************************************)
(* The quorum rules of src/pqquorum.cpp: how many committee members make a *)
(* quorum, and when a list of signatures is a certificate.  A signature is *)
(* abstract: the set `signed' holds the <<member, statement>> pairs that   *)
(* the member's key has really signed, and mldsa44::Verify accepts exactly *)
(* those.                                                                  *)
(***************************************************************************)
EXTENDS Integers, Sequences, FiniteSets

(* pqquorum::MIN_MEMBERS and MAX_MEMBERS bound a committee.                *)
MIN_MEMBERS == 4
MAX_MEMBERS == 400

(* The number of signatures a certificate needs; 0 for a committee whose   *)
(* size is out of range, which every caller treats as a failure.           *)
\* Variant: two thirds, not more than two thirds.
TwoThirds(n) == IF n < MIN_MEMBERS \/ n > MAX_MEMBERS THEN 0 ELSE (2 * n) \div 3

Threshold(n) ==
  IF n < MIN_MEMBERS \/ n > MAX_MEMBERS THEN 0 ELSE (2 * n) \div 3 + 1

(* The committee's sets of members that can make a certificate.            *)
QuorumsOf(committee) ==
  {Q \in SUBSET committee : Cardinality(Q) >= Threshold(Cardinality(committee))}

(* A canonical list of signers is non-empty, within MAX_MEMBERS and        *)
(* strictly ascending: only neighbours are compared.                       *)
CanonicalSigners(signers) ==
  /\ signers # << >>
  /\ Len(signers) <= MAX_MEMBERS
  /\ \A i \in DOMAIN signers : signers[i] < MAX_MEMBERS
  /\ \A i \in 2..Len(signers) : signers[i - 1] < signers[i]

(* Verification of a certificate `statement' signed by the list `signers'  *)
(* (member indices) against the `expected' statement, for a committee of n *)
(* members with indices 0 .. n - 1.                                        *)
VerifyCertificate(statement, signers, expected, n, signed) ==
  /\ Threshold(n) # 0
  /\ Len(signers) >= Threshold(n)
  /\ Len(signers) <= n
  /\ CanonicalSigners(signers)
  /\ statement = expected
  /\ \A i \in DOMAIN signers : signers[i] < n
  /\ \A i \in DOMAIN signers : <<signers[i], statement>> \in signed
=============================================================================
