-------------------------- MODULE PQJournalProofs --------------------------
(***************************************************************************)
(* The journal keeps its promises, and implements the atomic log of        *)
(* PQSigningLog, for any heights, rounds, values and size of the file, and *)
(* however often writing fails or the power does.                          *)
(*                                                                         *)
(* Everything is stated with operators on values, not on variables, so     *)
(* that the file, an image of it that a power loss leaves, and the state   *)
(* after a step are all arguments to the same lemmas.                      *)
(***************************************************************************)
EXTENDS PQJournal, SequenceTheorems, FiniteSetTheorems, TLAPS

-----------------------------------------------------------------------------
(* Records.                                                                *)
LEMMA RecordFields ==
  /\ \A v \in VoteRecords : v.kind = "vote" /\ v.height \in Nat \ {0}
  /\ \A l \in LockRecords : l.kind = "lock" /\ l.height \in Nat \ {0} /\ l.round \in Nat
  /\ \A p \in ProofRecords :
       /\ p.kind = "proof" /\ p.height \in Nat \ {0}
       /\ p.round \in Nat /\ p.signers \in Nat
  /\ \A f \in FinalRecords : f.kind = "final" /\ f.height \in Nat \ {0}
  /\ NoFinal.height = 0
<1>1. \A v \in VoteRecords : v.kind = "vote" /\ v.height \in Nat \ {0}
  BY JournalAssumption DEF VoteRecords
<1>2. \A l \in LockRecords : l.kind = "lock" /\ l.height \in Nat \ {0} /\ l.round \in Nat
  BY JournalAssumption DEF LockRecords
<1>3. \A p \in ProofRecords :
        /\ p.kind = "proof" /\ p.height \in Nat \ {0}
        /\ p.round \in Nat /\ p.signers \in Nat
  BY JournalAssumption DEF ProofRecords
<1>4. \A f \in FinalRecords : f.kind = "final" /\ f.height \in Nat \ {0}
  BY JournalAssumption DEF FinalRecords
<1> QED BY <1>1, <1>2, <1>3, <1>4 DEF NoFinal

LEMMA RecordsByKind ==
  /\ \A r \in Records :
       /\ r.kind \in {"vote", "lock", "proof", "final"}
       /\ r.height \in Nat \ {0}
       /\ r.kind = "vote"  => r \in VoteRecords
       /\ r.kind = "lock"  => r \in LockRecords
       /\ r.kind = "proof" => r \in ProofRecords
       /\ r.kind = "final" => r \in FinalRecords
  /\ VoteRecords \cup LockRecords \cup ProofRecords \cup FinalRecords = Records
  /\ Torn \notin Records
<1>1. Torn.kind = "torn"
  BY DEF Torn
<1> QED BY RecordFields, <1>1 DEF Records

LEMMA MemoryFields ==
  ASSUME NEW m \in Memory
  PROVE  /\ m.votes \subseteq VoteRecords
         /\ m.locks \subseteq LockRecords
         /\ m.proofs \subseteq ProofRecords
         /\ m.final \in FinalRecords \cup {NoFinal}
         /\ m.final.height \in Nat
         /\ m = [votes |-> m.votes, locks |-> m.locks, proofs |-> m.proofs,
                 final |-> m.final]
         /\ m # Corrupt
<1>1. /\ m.votes \subseteq VoteRecords /\ m.locks \subseteq LockRecords
      /\ m.proofs \subseteq ProofRecords /\ m.final \in FinalRecords \cup {NoFinal}
  BY DEF Memory
<1>2. m = [votes |-> m.votes, locks |-> m.locks, proofs |-> m.proofs,
           final |-> m.final]
  BY DEF Memory
<1> QED BY <1>1, <1>2, RecordFields, JournalAssumption

LEMMA MemoryEqual ==
  ASSUME NEW m \in Memory, NEW n \in Memory,
         m.votes = n.votes, m.locks = n.locks, m.proofs = n.proofs, m.final = n.final
  PROVE  m = n
BY MemoryFields

(* What Live, Noted and the end of Replay do to each part of memory.       *)
Trim(m) == [m EXCEPT !.proofs = {q \in @ : q.height > m.final.height}]

LEMMA LiveFields ==
  ASSUME NEW m \in Memory
  PROVE  /\ Live(m) \in Memory
         /\ Live(m).votes = {v \in m.votes : v.height > m.final.height}
         /\ Live(m).locks = {l \in m.locks : l.height > m.final.height}
         /\ Live(m).proofs = {p \in m.proofs : p.height > m.final.height}
         /\ Live(m).final = m.final
BY DEF Live, Memory

LEMMA TrimFields ==
  ASSUME NEW m \in Memory
  PROVE  /\ Trim(m) \in Memory
         /\ Trim(m).votes = m.votes
         /\ Trim(m).locks = m.locks
         /\ Trim(m).proofs = {p \in m.proofs : p.height > m.final.height}
         /\ Trim(m).final = m.final
         /\ Live(Trim(m)) = Live(m)
<1>1. /\ Trim(m) \in Memory
      /\ Trim(m).votes = m.votes
      /\ Trim(m).locks = m.locks
      /\ Trim(m).proofs = {p \in m.proofs : p.height > m.final.height}
      /\ Trim(m).final = m.final
  BY DEF Trim, Memory
<1>2. Live(Trim(m)) = Live(m)
  <2> DEFINE t == Trim(m)
  <2>1. /\ t \in Memory /\ t.votes = m.votes /\ t.locks = m.locks
        /\ t.proofs = {p \in m.proofs : p.height > m.final.height}
        /\ t.final = m.final
    BY <1>1
  <2> HIDE DEF t
  <2>2. Live(t).votes = Live(m).votes
    <3>1. Live(t).votes = {x \in t.votes : x.height > t.final.height}
      BY <2>1, LiveFields
    <3>2. Live(m).votes = {x \in m.votes : x.height > m.final.height}
      BY LiveFields
    <3> QED BY <2>1, <3>1, <3>2
  <2>3. Live(t).locks = Live(m).locks
    <3>1. Live(t).locks = {x \in t.locks : x.height > t.final.height}
      BY <2>1, LiveFields
    <3>2. Live(m).locks = {x \in m.locks : x.height > m.final.height}
      BY LiveFields
    <3> QED BY <2>1, <3>1, <3>2
  <2>4. Live(t).proofs = Live(m).proofs
    BY <2>1, LiveFields
  <2>5. Live(t).final = Live(m).final
    BY <2>1, LiveFields
  <2>6. Live(t) \in Memory /\ Live(m) \in Memory
    BY <2>1, LiveFields
  <2>7. Live(t) = Live(m)
    BY <2>2, <2>3, <2>4, <2>5, <2>6, MemoryEqual
  <2> QED BY <2>7 DEF t
<1> QED BY <1>1, <1>2

LEMMA NotedFields ==
  ASSUME NEW m \in Memory, NEW r \in Records
  PROVE  /\ Noted(m, r) \in Memory
         /\ Noted(m, r).votes = IF r.kind = "vote" THEN m.votes \cup {r} ELSE m.votes
         /\ Noted(m, r).locks =
              IF r.kind = "lock"
              THEN {k \in m.locks : k.height # r.height} \cup {r} ELSE m.locks
         /\ Noted(m, r).proofs =
              IF r.kind = "proof"
              THEN {q \in m.proofs : q.height # r.height} \cup {r} ELSE m.proofs
         /\ Noted(m, r).final = IF r.kind = "final" THEN r ELSE m.final
<1>1. CASE r.kind = "vote"
  <2>1. Noted(m, r) = [m EXCEPT !.votes = @ \cup {r}] /\ r \in VoteRecords
    BY <1>1, RecordsByKind DEF Noted
  <2> QED BY <1>1, <2>1 DEF Memory
<1>2. CASE r.kind = "lock"
  <2>1. /\ Noted(m, r) = [m EXCEPT !.locks = {k \in @ : k.height # r.height} \cup {r}]
        /\ r \in LockRecords
    BY <1>2, RecordsByKind DEF Noted
  <2> QED BY <1>2, <2>1 DEF Memory
<1>3. CASE r.kind = "proof"
  <2>1. /\ Noted(m, r) = [m EXCEPT !.proofs = {q \in @ : q.height # r.height} \cup {r}]
        /\ r \in ProofRecords
    BY <1>3, RecordsByKind DEF Noted
  <2> QED BY <1>3, <2>1 DEF Memory
<1>4. CASE r.kind = "final"
  <2>1. Noted(m, r) = [m EXCEPT !.final = r] /\ r \in FinalRecords
    BY <1>4, RecordsByKind DEF Noted
  <2> QED BY <1>4, <2>1 DEF Memory
<1> QED BY <1>1, <1>2, <1>3, <1>4, RecordsByKind

-----------------------------------------------------------------------------
(* What a file holds, and how one more record changes it.                  *)
LEMMA NewestAppend ==
  ASSUME NEW s \in Seq(Records), NEW r \in Records, NEW kind
  PROVE  Newest(Append(s, r), kind) =
           IF r.kind = kind
           THEN {k \in Newest(s, kind) : k.height # r.height} \cup {r}
           ELSE Newest(s, kind)
<1> DEFINE t == Append(s, r)
           n == Len(s)
           IsNewest(u, i) ==
             /\ u[i].kind = kind
             /\ \A j \in (i + 1)..Len(u) : u[j].kind = kind => u[j].height # u[i].height
<1>1. n \in Nat /\ DOMAIN s = 1..n
  BY LenProperties
<1>2. /\ t \in Seq(Records) /\ Len(t) = n + 1 /\ DOMAIN t = 1..(n + 1)
      /\ \A i \in 1..n : t[i] = s[i]
      /\ t[n + 1] = r
  BY AppendProperties, LenProperties
<1>3. /\ Newest(s, kind) = {s[i] : i \in {i \in 1..n : IsNewest(s, i)}}
      /\ Newest(t, kind) = {t[i] : i \in {i \in 1..(n + 1) : IsNewest(t, i)}}
  BY <1>1, <1>2 DEF Newest
<1> HIDE DEF t
<1>4. \A i \in 1..n :
        IsNewest(t, i) <=> IsNewest(s, i) /\ (r.kind = kind => r.height # s[i].height)
  <2> TAKE i \in 1..n
  <2>1. (i + 1)..(n + 1) = ((i + 1)..n) \cup {n + 1} /\ (i + 1)..n \subseteq 1..n
    BY <1>1
  <2> QED BY <1>1, <1>2, <2>1
<1>5. IsNewest(t, n + 1) <=> r.kind = kind
  BY <1>1, <1>2
<1> HIDE DEF IsNewest
<1>6. \A x : x \in Newest(t, kind) <=>
        \/ \E i \in 1..n : x = t[i] /\ IsNewest(t, i)
        \/ x = t[n + 1] /\ IsNewest(t, n + 1)
  BY <1>1, <1>3, 1..(n + 1) = (1..n) \cup {n + 1}
<1>7. \A x : x \in Newest(t, kind) <=>
        \/ \E i \in 1..n :
             x = s[i] /\ IsNewest(s, i) /\ (r.kind = kind => r.height # s[i].height)
        \/ x = r /\ r.kind = kind
  BY <1>2, <1>4, <1>5, <1>6
<1>8. \A x : x \in Newest(s, kind) <=> \E i \in 1..n : x = s[i] /\ IsNewest(s, i)
  BY <1>3
<1>9. CASE r.kind = kind
  <2>1. \A x : x \in Newest(t, kind) <=>
          x \in {k \in Newest(s, kind) : k.height # r.height} \cup {r}
    BY <1>7, <1>8, <1>9
  <2> QED BY <1>9, <2>1 DEF t
<1>10. CASE r.kind # kind
  <2>1. \A x : x \in Newest(t, kind) <=> x \in Newest(s, kind)
    BY <1>7, <1>8, <1>10
  <2> QED BY <1>10, <2>1 DEF t
<1> QED BY <1>9, <1>10

LEMMA LastIndex ==
  ASSUME NEW n \in Nat, NEW S, S \subseteq 1..n, S # {}
  PROVE  Max(S) \in S
<1>1. \E x \in S : \A y \in S : x >= y
  <2> DEFINE D == {n - x : x \in S}
  <2>1. D \subseteq Nat /\ D # {}
    BY \A x \in S : n - x \in Nat
  <2> HIDE DEF D
  <2>2. PICK d \in D : \A e \in D : <<e, d>> \notin OpToRel(<, Nat)
    BY <2>1, NatLessThanWellFounded, WFMin
  <2>3. PICK x \in S : d = n - x
    BY <2>2 DEF D
  <2>4. \A y \in S : x >= y
    <3> TAKE y \in S
    <3>1. n - y \in D /\ n - y \in Nat /\ d \in Nat
      BY <2>1, <2>2 DEF D
    <3>2. ~ (n - y < d)
      BY <2>2, <3>1 DEF OpToRel
    <3> QED BY <2>3, <3>1, <3>2
  <2> QED BY <2>4
<1> QED BY <1>1 DEF Max

(* Where the last final record of a file is.                               *)
Finals(s) == {i \in DOMAIN s : s[i].kind = "final"}

LastFinal(s) == IF Finals(s) = {} THEN NoFinal ELSE s[Max(Finals(s))]

LEMMA ContentsFields ==
  ASSUME NEW s
  PROVE  /\ Contents(s).votes = {r \in ToSet(s) : r.kind = "vote"}
         /\ Contents(s).locks = Newest(s, "lock")
         /\ Contents(s).proofs = Newest(s, "proof")
         /\ Contents(s).final = LastFinal(s)
         /\ Contents(s) = [votes |-> Contents(s).votes, locks |-> Contents(s).locks,
                           proofs |-> Contents(s).proofs, final |-> Contents(s).final]
BY DEF Contents, Finals, LastFinal

LEMMA LastFinalType ==
  ASSUME NEW s \in Seq(Records)
  PROVE  /\ Finals(s) \subseteq 1..Len(s)
         /\ Finals(s) # {} => Max(Finals(s)) \in Finals(s)
         /\ LastFinal(s) \in (FinalRecords \cap ToSet(s)) \cup {NoFinal}
<1>1. Len(s) \in Nat /\ DOMAIN s = 1..Len(s) /\ \A i \in 1..Len(s) : s[i] \in Records
  BY LenProperties, ElementOfSeq
<1>2. Finals(s) \subseteq 1..Len(s)
  BY <1>1 DEF Finals
<1>3. Finals(s) # {} => Max(Finals(s)) \in Finals(s)
  BY <1>1, <1>2, LastIndex
<1>4. \A i \in Finals(s) : s[i] \in FinalRecords \cap ToSet(s)
  BY <1>1, RecordsByKind DEF Finals, ToSet
<1> QED BY <1>2, <1>3, <1>4 DEF LastFinal

LEMMA LastFinalAppend ==
  ASSUME NEW s \in Seq(Records), NEW r \in Records
  PROVE  LastFinal(Append(s, r)) = IF r.kind = "final" THEN r ELSE LastFinal(s)
<1> DEFINE t == Append(s, r)
           n == Len(s)
<1>1. n \in Nat /\ DOMAIN s = 1..n
  BY LenProperties
<1>2. /\ t \in Seq(Records) /\ DOMAIN t = 1..(n + 1)
      /\ \A i \in 1..n : t[i] = s[i]
      /\ t[n + 1] = r
  BY AppendProperties, LenProperties
<1>3. Finals(t) = Finals(s) \cup (IF r.kind = "final" THEN {n + 1} ELSE {})
  BY <1>1, <1>2, 1..(n + 1) = (1..n) \cup {n + 1} DEF Finals
<1> HIDE DEF t
<1>4. CASE r.kind = "final"
  <2>1. n + 1 \in Finals(t) /\ \A i \in Finals(t) : i \in Nat /\ n + 1 >= i
    BY <1>1, <1>3, <1>4, LastFinalType
  <2>2. Max(Finals(t)) = n + 1
    BY <1>1, <2>1 DEF Max
  <2> QED BY <1>2, <1>4, <2>1, <2>2 DEF LastFinal, t
<1>5. CASE r.kind # "final"
  <2>1. Finals(t) = Finals(s)
    BY <1>3, <1>5
  <2>2. Finals(s) # {} => t[Max(Finals(s))] = s[Max(Finals(s))]
    BY <1>1, <1>2, LastFinalType
  <2> QED BY <1>5, <2>1, <2>2 DEF LastFinal, t
<1> QED BY <1>4, <1>5

LEMMA ContentsType ==
  ASSUME NEW s \in Seq(Records)
  PROVE  /\ Contents(s) \in Memory
         /\ Contents(s).votes \cup Contents(s).locks \cup Contents(s).proofs
              \subseteq ToSet(s)
         /\ Contents(s).final \in ToSet(s) \cup {NoFinal}
<1>1. DOMAIN s = 1..Len(s) /\ \A i \in 1..Len(s) : s[i] \in Records
  BY LenProperties, ElementOfSeq
<1>2. ToSet(s) \subseteq Records
  BY <1>1 DEF ToSet
<1>3. \A kind : \A x \in Newest(s, kind) : x \in ToSet(s) /\ x.kind = kind
  BY DEF Newest, ToSet
<1>4. /\ Contents(s).votes \subseteq VoteRecords
      /\ Contents(s).locks \subseteq LockRecords
      /\ Contents(s).proofs \subseteq ProofRecords
      /\ Contents(s).final \in FinalRecords \cup {NoFinal}
  BY <1>2, <1>3, ContentsFields, LastFinalType, RecordsByKind
<1>5. Contents(s) \in Memory
  BY <1>4, ContentsFields DEF Memory
<1> QED BY <1>3, <1>5, ContentsFields, LastFinalType

LEMMA ContentsAppend ==
  ASSUME NEW s \in Seq(Records), NEW r \in Records
  PROVE  Contents(Append(s, r)) = Noted(Contents(s), r)
<1> DEFINE t == Append(s, r)
<1>1. t \in Seq(Records)
  BY AppendProperties
<1>2. ToSet(t) = ToSet(s) \cup {r}
  <2>1. Len(s) \in Nat /\ DOMAIN s = 1..Len(s)
    BY LenProperties
  <2>2. /\ DOMAIN t = (1..Len(s)) \cup {Len(s) + 1}
        /\ \A i \in 1..Len(s) : t[i] = s[i]
        /\ t[Len(s) + 1] = r
    BY <2>1, AppendProperties, LenProperties
  <2> HIDE DEF t
  <2> QED BY <2>1, <2>2 DEF ToSet
<1> DEFINE c == Contents(s)
           d == Contents(t)
           e == Noted(c, r)
<1>3. c \in Memory /\ d \in Memory
  BY <1>1, ContentsType
<1>4. /\ c.votes = {x \in ToSet(s) : x.kind = "vote"}
      /\ c.locks = Newest(s, "lock") /\ c.proofs = Newest(s, "proof")
      /\ c.final = LastFinal(s)
  BY ContentsFields
<1>5. /\ d.votes = {x \in ToSet(t) : x.kind = "vote"}
      /\ d.locks = Newest(t, "lock") /\ d.proofs = Newest(t, "proof")
      /\ d.final = LastFinal(t)
  BY ContentsFields
<1> HIDE DEF c, d
<1>6. /\ e \in Memory
      /\ e.votes = IF r.kind = "vote" THEN c.votes \cup {r} ELSE c.votes
      /\ e.locks = IF r.kind = "lock"
                   THEN {k \in c.locks : k.height # r.height} \cup {r} ELSE c.locks
      /\ e.proofs = IF r.kind = "proof"
                    THEN {q \in c.proofs : q.height # r.height} \cup {r} ELSE c.proofs
      /\ e.final = IF r.kind = "final" THEN r ELSE c.final
  BY <1>3, NotedFields
<1> HIDE DEF e
<1>7. d.votes = e.votes
  BY <1>2, <1>4, <1>5, <1>6
<1>8. d.locks = e.locks
  BY <1>4, <1>5, <1>6, NewestAppend
<1>9. d.proofs = e.proofs
  BY <1>4, <1>5, <1>6, NewestAppend
<1>10. d.final = e.final
  BY <1>4, <1>5, <1>6, LastFinalAppend
<1>11. d = e
  BY <1>3, <1>6, <1>7, <1>8, <1>9, <1>10, MemoryEqual
<1> QED BY <1>11 DEF c, d, e

-----------------------------------------------------------------------------
(* Reading a file.                                                         *)
LEMMA SubSeqAppend ==
  ASSUME NEW S, NEW s \in Seq(S), NEW x \in S, NEW n \in 0..Len(s)
  PROVE  /\ SubSeq(Append(s, x), 1, n) = SubSeq(s, 1, n)
         /\ SubSeq(s, 1, n) \in Seq(S)
<1>1. Len(s) \in Nat /\ \A i \in 1..Len(s) : s[i] \in S
  BY LenProperties, ElementOfSeq
<1>2. \A i \in 1..Len(s) : Append(s, x)[i] = s[i]
  BY AppendProperties
<1>3. \A i \in 1..n : s[i] \in S /\ Append(s, x)[i] = s[i]
  BY <1>1, <1>2
<1>4. /\ SubSeq(s, 1, n) \in Seq(S) /\ Len(SubSeq(s, 1, n)) = n
      /\ \A i \in 1..n : SubSeq(s, 1, n)[i] = s[i]
  <2>1. 1 \in Int /\ n \in Int /\ n - 1 + 1 = n /\ \A i \in 1..n : 1 + i - 1 = i
    OBVIOUS
  <2> QED BY <1>3, <2>1, SubSeqProperties
<1>5. /\ SubSeq(Append(s, x), 1, n) \in Seq(S) /\ Len(SubSeq(Append(s, x), 1, n)) = n
      /\ \A i \in 1..n : SubSeq(Append(s, x), 1, n)[i] = s[i]
  <2> DEFINE t == Append(s, x)
  <2>1. \A i \in 1..n : t[i] \in S /\ t[i] = s[i]
    BY <1>3
  <2> HIDE DEF t
  <2>2. 1 \in Int /\ n \in Int /\ n - 1 + 1 = n /\ \A i \in 1..n : 1 + i - 1 = i
    OBVIOUS
  <2>3. /\ SubSeq(t, 1, n) \in Seq(S) /\ Len(SubSeq(t, 1, n)) = n
        /\ \A i \in 1..n : SubSeq(t, 1, n)[i] = s[i]
    BY <2>1, <2>2, SubSeqProperties
  <2> QED BY <2>3 DEF t
<1> QED BY <1>4, <1>5, SeqEqual

LEMMA ReadableAppend ==
  ASSUME NEW s \in Seq(Records), NEW r \in Records
  PROVE  Readable(Append(s, r)) <=> Readable(s) /\ Replayable(Contents(s), r)
<1> DEFINE t == Append(s, r)
           n == Len(s)
<1>1. n \in Nat /\ DOMAIN s = 1..n
  BY LenProperties
<1>2. /\ DOMAIN t = (1..n) \cup {n + 1}
      /\ \A i \in 1..n : t[i] = s[i]
      /\ t[n + 1] = r
  BY <1>1, AppendProperties, LenProperties
<1>3. \A i \in 1..(n + 1) : SubSeq(t, 1, i - 1) = SubSeq(s, 1, i - 1)
  BY <1>1, SubSeqAppend
<1>4. SubSeq(t, 1, n) = s
  BY <1>1, <1>3, SubSeqFull
<1> HIDE DEF t
<1>5. Readable(t) <=>
        /\ \A i \in 1..n : Replayable(Contents(SubSeq(t, 1, i - 1)), t[i])
        /\ Replayable(Contents(SubSeq(t, 1, n)), t[n + 1])
  BY <1>1, <1>2 DEF Readable
<1>6. Readable(s) <=> \A i \in 1..n : Replayable(Contents(SubSeq(s, 1, i - 1)), s[i])
  BY <1>1 DEF Readable
<1>7. \A i \in 1..n : SubSeq(t, 1, i - 1) = SubSeq(s, 1, i - 1) /\ t[i] = s[i]
  BY <1>1, <1>2, <1>3
<1> QED BY <1>2, <1>4, <1>5, <1>6, <1>7 DEF t

LEMMA ReplayType ==
  ASSUME NEW s \in Seq(Records)
  PROVE  /\ Readable(s) => Replay(s) = Trim(Contents(s)) /\ Replay(s) \in Memory
         /\ Replay(s) # Corrupt <=> Readable(s)
<1>1. Trim(Contents(s)) \in Memory
  BY ContentsType, TrimFields
<1>2. Replay(s) = IF Readable(s) THEN Trim(Contents(s)) ELSE Corrupt
  BY DEF Replay, Trim
<1> QED BY <1>1, <1>2, MemoryFields

(* What the operations demand of a record before they append it.           *)
Writable(m, rec) ==
  CASE rec.kind = "vote"  ->
         /\ rec.height > m.final.height
         /\ VoteKey(rec) \notin {VoteKey(w) : w \in m.votes}
    [] rec.kind = "lock"  ->
         /\ rec.height > m.final.height
         /\ LockAgrees(m, rec)
         /\ rec \notin m.locks
    [] rec.kind = "proof" ->
         /\ CheckProof(m, rec)
         /\ \A q \in m.proofs :
              q.height = rec.height /\ q.round = rec.round => q.signers < rec.signers
    [] rec.kind = "final" -> rec.height > m.final.height

LEMMA WritableByKind ==
  ASSUME NEW m \in Memory, NEW r \in Records, Writable(m, r)
  PROVE  /\ r.height > m.final.height
         /\ r.kind = "vote" => VoteKey(r) \notin {VoteKey(w) : w \in m.votes}
         /\ r.kind = "lock" =>
              \A k \in m.locks : k.height = r.height => k.round < r.round
         /\ r.kind = "proof" =>
              \A q \in m.proofs : q.height = r.height =>
                \/ q.round < r.round
                \/ q.round = r.round /\ q.value = r.value /\ q.signers < r.signers
<1>1. CASE r.kind = "vote"
  BY <1>1 DEF Writable
<1>2. CASE r.kind = "lock"
  <2>1. r.height > m.final.height /\ LockAgrees(m, r) /\ r \notin m.locks
    BY <1>2 DEF Writable
  <2> QED BY <1>2, <2>1 DEF LockAgrees
<1>3. CASE r.kind = "proof"
  <2>1. /\ CheckProof(m, r)
        /\ \A q \in m.proofs :
             q.height = r.height /\ q.round = r.round => q.signers < r.signers
    BY <1>3 DEF Writable
  <2> QED BY <1>3, <2>1 DEF CheckProof
<1>4. CASE r.kind = "final"
  BY <1>4 DEF Writable
<1> QED BY <1>1, <1>2, <1>3, <1>4, RecordsByKind

LEMMA ReplayAppend ==
  ASSUME NEW s \in Seq(Records), Readable(s), NEW r \in Records, Writable(Replay(s), r)
  PROVE  Readable(Append(s, r)) /\ Replay(Append(s, r)) = Trim(Noted(Replay(s), r))
<1> DEFINE c == Contents(s)
           m == Replay(s)
<1>1. c \in Memory /\ m \in Memory /\ m = Trim(c)
  BY ReplayType, ContentsType
<1>2. /\ m.votes = c.votes /\ m.locks = c.locks /\ m.final = c.final
      /\ m.proofs = {p \in c.proofs : p.height > c.final.height}
  BY <1>1, TrimFields
<1>3. Append(s, r) \in Seq(Records) /\ Contents(Append(s, r)) = Noted(c, r)
  BY AppendProperties, ContentsAppend
<1> HIDE DEF c, m
<1>4. Writable(m, r) /\ r.height > m.final.height
  BY <1>1, WritableByKind DEF m
<1>5. Replayable(c, r)
  <2>1. CASE r.kind = "vote"
    BY <1>2, <1>4, <2>1 DEF Writable, Replayable, VoteAgrees
  <2>2. CASE r.kind = "lock"
    BY <1>2, <1>4, <2>2 DEF Writable, Replayable, LockAgrees
  <2>3. CASE r.kind = "proof"
    <3>1. CheckProof(m, r)
      BY <1>4, <2>3 DEF Writable
    <3>2. CheckProof(c, r)
      BY <1>2, <3>1 DEF CheckProof
    <3> QED BY <2>3, <3>2 DEF Replayable
  <2>4. CASE r.kind = "final"
    BY <1>2, <1>4, <2>4 DEF Replayable
  <2> QED BY <2>1, <2>2, <2>3, <2>4, RecordsByKind
<1>6. Readable(Append(s, r))
  BY <1>5, ReadableAppend DEF c
<1>7. Replay(Append(s, r)) = Trim(Noted(c, r))
  BY <1>3, <1>6, ReplayType
<1>8. Trim(Noted(c, r)) = Trim(Noted(m, r))
  <2> DEFINE x == Noted(c, r)
             y == Noted(m, r)
  <2>1. /\ x \in Memory /\ y \in Memory
        /\ x.votes = y.votes /\ x.locks = y.locks /\ x.final = y.final
    <3>1. x \in Memory /\ y \in Memory
      BY <1>1, NotedFields
    <3>2. x.votes = y.votes
      BY <1>1, <1>2, NotedFields
    <3>3. x.locks = y.locks
      BY <1>1, <1>2, NotedFields
    <3>4. x.final = y.final
      BY <1>1, <1>2, NotedFields
    <3> QED BY <3>1, <3>2, <3>3, <3>4
  <2>2. /\ x.proofs = IF r.kind = "proof"
                      THEN {q \in c.proofs : q.height # r.height} \cup {r} ELSE c.proofs
        /\ y.proofs = IF r.kind = "proof"
                      THEN {q \in m.proofs : q.height # r.height} \cup {r} ELSE m.proofs
        /\ x.final = IF r.kind = "final" THEN r ELSE m.final
    BY <1>1, <1>2, NotedFields
  <2> HIDE DEF x, y
  <2>3. x.final.height \in Nat /\ m.final.height \in Nat /\ r.height \in Nat
    BY <1>1, <2>1, MemoryFields, RecordsByKind
  <2>4. x.final.height >= m.final.height
    BY <1>4, <2>2, <2>3
  <2>5. \A p \in c.proofs : p.height \in Nat
    BY <1>1, MemoryFields, RecordFields
  <2>6. \A q : q \in x.proofs /\ q.height > x.final.height <=>
               q \in y.proofs /\ q.height > x.final.height
    BY <1>2, <2>2, <2>3, <2>4, <2>5
  <2>7. /\ Trim(x).proofs = {q \in x.proofs : q.height > x.final.height}
        /\ Trim(y).proofs = {q \in y.proofs : q.height > x.final.height}
    BY <2>1, TrimFields
  <2>8. Trim(x).proofs = Trim(y).proofs
    BY <2>6, <2>7
  <2>9. /\ Trim(x) \in Memory /\ Trim(y) \in Memory
        /\ Trim(x).votes = Trim(y).votes /\ Trim(x).locks = Trim(y).locks
        /\ Trim(x).final = Trim(y).final
    BY <2>1, TrimFields
  <2>10. Trim(x) = Trim(y)
    BY <2>8, <2>9, MemoryEqual
  <2> QED BY <2>10 DEF x, y
<1> QED BY <1>6, <1>7, <1>8 DEF m

(* Only a final record gives the end of Replay anything to drop.           *)
LEMMA TrimAppended ==
  ASSUME NEW s \in Seq(Records), Readable(s), NEW r \in Records,
         Writable(Replay(s), r), r.kind # "final"
  PROVE  Trim(Noted(Replay(s), r)) = Noted(Replay(s), r)
<1> DEFINE c == Contents(s)
           m == Replay(s)
           x == Noted(m, r)
<1>1. c \in Memory /\ m \in Memory /\ m = Trim(c)
  BY ReplayType, ContentsType
<1>2. \A p \in m.proofs : p.height > m.final.height
  BY <1>1, TrimFields
<1>3. r.height > m.final.height
  BY <1>1, WritableByKind
<1>4. x \in Memory /\ x.final = m.final /\ x.proofs \subseteq m.proofs \cup {r}
  BY <1>1, NotedFields
<1> HIDE DEF c, m, x
<1>5. {q \in x.proofs : q.height > x.final.height} = x.proofs
  BY <1>2, <1>3, <1>4
<1>6. Trim(x) = x
  <2>1. /\ Trim(x) \in Memory /\ Trim(x).votes = x.votes /\ Trim(x).locks = x.locks
        /\ Trim(x).proofs = x.proofs /\ Trim(x).final = x.final
    BY <1>4, <1>5, TrimFields
  <2> QED BY <1>4, <2>1, MemoryEqual
<1> QED BY <1>6 DEF x, m

-----------------------------------------------------------------------------
(* Writing what memory holds to a new file.                                *)
LEMMA SetToSeqFacts ==
  ASSUME NEW T, NEW S, S \subseteq T, IsFiniteSet(S)
  PROVE  /\ SetToSeq(S) \in Seq(T)
         /\ Len(SetToSeq(S)) = Cardinality(S)
         /\ ToSet(SetToSeq(S)) = S
         /\ \A i, j \in 1..Cardinality(S) :
              SetToSeq(S)[i] = SetToSeq(S)[j] => i = j
<1> DEFINE n == Cardinality(S)
           q == SetToSeq(S)
<1>1. n \in Nat /\ ExistsBijection(1..n, S)
  BY FS_CardinalityType
<1>2. \E g \in [1..n -> S] : IsInjective(g)
  BY <1>1 DEF ExistsBijection, Bijection, Injection
<1>3. q \in [1..n -> S] /\ IsInjective(q)
  BY <1>2 DEF SetToSeq
<1> HIDE DEF q
<1>4. q \in Seq(S) /\ Len(q) = n
  BY <1>1, <1>3, SeqDef
<1>5. q \in Surjection(1..n, S)
  <2>1. IsFiniteSet(1..n) /\ Cardinality(1..n) = n
    BY <1>1, FS_Interval
  <2>2. q \in Injection(1..n, S)
    BY <1>3 DEF Injection
  <2> QED BY <2>1, <2>2, FS_Injection
<1>6. ToSet(q) = S
  BY <1>3, <1>5 DEF ToSet, Surjection
<1>7. q \in Seq(T)
  BY <1>4, SeqMonotonic
<1>8. \A i, j \in 1..n : q[i] = q[j] => i = j
  BY <1>3 DEF IsInjective
<1> QED BY <1>4, <1>6, <1>7, <1>8 DEF q

(* What a compaction may be given: nothing of a final height, and one      *)
(* entry for each key.                                                     *)
Entries(m) == m.votes \cup m.locks \cup m.proofs

Unique(m) ==
  /\ \A v, w \in m.votes : VoteKey(v) = VoteKey(w) => v = w
  /\ \A k, l \in m.locks : k.height = l.height => k = l
  /\ \A p, q \in m.proofs : p.height = q.height => p = q

Settled(m) ==
  /\ m \in Memory
  /\ m.final \in FinalRecords
  /\ IsFiniteSet(Entries(m))
  /\ \A r \in Entries(m) : r.height > m.final.height
  /\ Unique(m)

LEMMA CompactedFile ==
  ASSUME NEW m, Settled(m)
  PROVE  LET s == Compacted(m)
             n == Cardinality(Entries(m))
         IN  /\ n \in Nat
             /\ s \in Seq(Records)
             /\ Len(s) = n + 1
             /\ s[1] = m.final
             /\ \A i \in 2..(n + 1) : s[i] \in Entries(m)
             /\ \A r \in Entries(m) : \E i \in 2..(n + 1) : s[i] = r
             /\ \A i, j \in 2..(n + 1) : s[i] = s[j] => i = j
<1> DEFINE U == Entries(m)
           q == SetToSeq(U)
           n == Cardinality(U)
           s == Compacted(m)
<1>1. IsFiniteSet(U) /\ U \subseteq Records /\ m.final \in Records
  BY MemoryFields, RecordsByKind DEF Settled, Entries
<1>2. n \in Nat
  BY <1>1, FS_CardinalityType
<1>3. /\ q \in Seq(Records) /\ Len(q) = n /\ ToSet(q) = U
      /\ \A i, j \in 1..n : q[i] = q[j] => i = j
  BY <1>1, SetToSeqFacts
<1>4. \A i \in 1..n : q[i] \in U
  BY <1>3, LenProperties DEF ToSet
<1>5. \A r \in U : \E i \in 1..n : q[i] = r
  BY <1>3, LenProperties DEF ToSet
<1>6. s = <<m.final>> \o q
  BY DEF Compacted, Entries
<1> HIDE DEF q, U, n, s
<1>7. <<m.final>> \in Seq(Records) /\ Len(<<m.final>>) = 1 /\ <<m.final>>[1] = m.final
  BY <1>1
<1>8. /\ s \in Seq(Records) /\ Len(s) = n + 1
      /\ \A i \in 1..(n + 1) : s[i] = IF i <= 1 THEN <<m.final>>[i] ELSE q[i - 1]
  <2>1. /\ s \in Seq(Records) /\ Len(s) = 1 + n
        /\ \A i \in 1..(1 + n) : s[i] = IF i <= 1 THEN <<m.final>>[i] ELSE q[i - 1]
    BY <1>3, <1>6, <1>7, ConcatProperties
  <2> QED BY <1>2, <2>1
<1>9. s[1] = m.final /\ \A i \in 2..(n + 1) : i - 1 \in 1..n /\ s[i] = q[i - 1]
  BY <1>2, <1>7, <1>8
<1>10. \A r \in U : \E i \in 2..(n + 1) : s[i] = r
  <2> TAKE r \in U
  <2>1. PICK i \in 1..n : q[i] = r
    BY <1>5
  <2>2. i + 1 \in 2..(n + 1) /\ i + 1 - 1 = i
    BY <1>2
  <2> QED BY <1>9, <2>1, <2>2
<1>11. \A i, j \in 2..(n + 1) : s[i] = s[j] => i = j
  <2> TAKE i, j \in 2..(n + 1)
  <2>1. s[i] = s[j] => i - 1 = j - 1
    BY <1>3, <1>9
  <2> QED BY <1>2, <2>1
<1>12. \A i \in 2..(n + 1) : s[i] \in U
  BY <1>4, <1>9
<1> QED BY <1>2, <1>8, <1>9, <1>10, <1>11, <1>12 DEF U, n, s

LEMMA CompactedReplay ==
  ASSUME NEW m, Settled(m)
  PROVE  /\ Readable(Compacted(m))
         /\ Replay(Compacted(m)) = m
<1> DEFINE s == Compacted(m)
           n == Cardinality(Entries(m))
           f == m.final
<1>1. /\ n \in Nat /\ s \in Seq(Records) /\ Len(s) = n + 1 /\ s[1] = f
      /\ \A i \in 2..(n + 1) : s[i] \in Entries(m)
      /\ \A r \in Entries(m) : \E i \in 2..(n + 1) : s[i] = r
      /\ \A i, j \in 2..(n + 1) : s[i] = s[j] => i = j
  BY CompactedFile
<1>2. /\ m \in Memory /\ f \in FinalRecords /\ Unique(m)
      /\ \A r \in Entries(m) : r.height > f.height
  BY DEF Settled
<1>3. /\ m.votes \subseteq VoteRecords /\ m.locks \subseteq LockRecords
      /\ m.proofs \subseteq ProofRecords
  BY <1>2, MemoryFields
<1>4. /\ \A r \in Entries(m) : r.kind = "vote"  <=> r \in m.votes
      /\ \A r \in Entries(m) : r.kind = "lock"  <=> r \in m.locks
      /\ \A r \in Entries(m) : r.kind = "proof" <=> r \in m.proofs
      /\ \A r \in Entries(m) : r \in Records /\ r.kind # "final"
      /\ f.kind = "final" /\ f.height \in Nat \ {0} /\ f \in Records
  BY <1>2, <1>3, RecordFields, RecordsByKind DEF Entries
<1> HIDE DEF s, n, f
(* Every prefix that has the final record.                                 *)
<1>5. ASSUME NEW k \in 1..(n + 1)
      PROVE  LET t == SubSeq(s, 1, k)
             IN  /\ t \in Seq(Records) /\ Len(t) = k
                 /\ LastFinal(t) = f
                 /\ \A r \in ToSet(t) : r = f \/ r \in Entries(m)
  <2> DEFINE t == SubSeq(s, 1, k)
  <2>1. /\ t \in Seq(Records) /\ Len(t) = k /\ \A i \in 1..k : t[i] = s[i]
    <3>1. /\ \A i \in 1..k : s[i] \in Records
      BY <1>1, ElementOfSeq
    <3>2. 1 \in Int /\ k \in Int /\ 1 <= k /\ k - 1 + 1 = k /\ \A i \in 1..k : 1 + i - 1 = i
      BY <1>1
    <3> QED BY <3>1, <3>2, SubSeqProperties
  <2> HIDE DEF t
  <2>2. DOMAIN t = 1..k /\ 1 \in 1..k /\ t[1] = f
    BY <1>1, <2>1, LenProperties
  <2>3. \A i \in 1..k : i # 1 => t[i] \in Entries(m)
    BY <1>1, <2>1
  <2>4. Finals(t) = {1}
    BY <1>4, <2>2, <2>3 DEF Finals
  <2>5. Max({1}) = 1
    BY DEF Max
  <2>6. LastFinal(t) = f
    BY <2>2, <2>4, <2>5 DEF LastFinal
  <2>7. \A r \in ToSet(t) : r = f \/ r \in Entries(m)
    BY <2>2, <2>3 DEF ToSet
  <2> QED BY <2>1, <2>6, <2>7 DEF t
<1>6. ASSUME NEW i \in 1..(n + 1)
      PROVE  Replayable(Contents(SubSeq(s, 1, i - 1)), s[i])
  <2> DEFINE t == SubSeq(s, 1, i - 1)
             c == Contents(t)
  <2>1. CASE i = 1
    <3>1. t = <<>> /\ t \in Seq(Records)
      BY <1>1, <2>1, SubSeqEmpty, EmptySeq
    <3>2. Finals(t) = {}
      <4> HIDE DEF t
      <4>1. Len(t) = 0
        BY <3>1, EmptySeq
      <4>2. DOMAIN t = 1..0
        BY <3>1, <4>1, LenProperties
      <4> QED BY <4>2 DEF Finals
    <3>3. c.final = NoFinal
      BY <3>2, ContentsFields DEF LastFinal
    <3> HIDE DEF c, t
    <3>4. s[i].kind = "final" /\ s[i].height > c.final.height
      BY <1>1, <1>4, <2>1, <3>3, RecordFields
    <3>5. Replayable(c, s[i])
      BY <3>4 DEF Replayable
    <3> QED BY <3>5 DEF c, t
  <2>2. CASE i # 1
    <3>1. i - 1 \in 1..(n + 1) /\ i \in 2..(n + 1)
      BY <1>1, <2>2
    <3>2. /\ t \in Seq(Records) /\ LastFinal(t) = f
          /\ \A r \in ToSet(t) : r = f \/ r \in Entries(m)
      BY <1>5, <3>1
    <3> HIDE DEF t
    <3>3. /\ c \in Memory /\ c.final = f
          /\ Entries(c) \subseteq ToSet(t)
      BY <3>2, ContentsFields, ContentsType DEF Entries
    <3> HIDE DEF c
    <3>4. \A r \in Entries(c) : r.kind # "final"
      BY <3>3, MemoryFields, RecordFields DEF Entries
    <3>5. Entries(c) \subseteq Entries(m)
      BY <1>4, <3>2, <3>3, <3>4
    <3>6. c.votes \subseteq m.votes /\ c.locks \subseteq m.locks /\ c.proofs \subseteq m.proofs
      BY <1>4, <3>3, <3>5, MemoryFields, RecordFields DEF Entries
    <3>7. s[i] \in Entries(m) /\ s[i].height > f.height
      BY <1>1, <1>2, <3>1
    <3>8. CASE s[i].kind = "vote"
      <4>1. VoteAgrees(c, s[i])
        BY <1>2, <1>4, <3>6, <3>7, <3>8 DEF VoteAgrees, Unique
      <4> QED BY <3>8, <4>1 DEF Replayable, c, t
    <3>9. CASE s[i].kind = "lock"
      <4>1. LockAgrees(c, s[i])
        BY <1>2, <1>4, <3>6, <3>7, <3>9 DEF LockAgrees, Unique
      <4> QED BY <3>9, <4>1 DEF Replayable, c, t
    <3>10. CASE s[i].kind = "proof"
      <4>1. CheckProof(c, s[i])
        BY <1>2, <1>4, <3>3, <3>6, <3>7, <3>10 DEF CheckProof, Unique
      <4> QED BY <3>10, <4>1 DEF Replayable, c, t
    <3> QED BY <1>4, <3>7, <3>8, <3>9, <3>10, RecordsByKind
  <2> QED BY <2>1, <2>2
<1>7. DOMAIN s = 1..(n + 1)
  BY <1>1, LenProperties
<1>8. Readable(s)
  BY <1>6, <1>7 DEF Readable
<1>9. /\ LastFinal(s) = f
      /\ ToSet(s) = {f} \cup Entries(m)
  <2>1. SubSeq(s, 1, n + 1) = s
    BY <1>1, SubSeqFull
  <2>2. n + 1 \in 1..(n + 1)
    BY <1>1
  <2>3. LastFinal(s) = f
    BY <1>5, <2>1, <2>2
  <2>4. 1..(n + 1) = {1} \cup 2..(n + 1)
    BY <1>1
  <2>5. ToSet(s) = {f} \cup Entries(m)
    BY <1>1, <1>7, <2>4 DEF ToSet
  <2> QED BY <2>3, <2>5
<1>10. ASSUME NEW kind, NEW S, S \subseteq Entries(m), kind # "final",
              \A r \in Entries(m) : r.kind = kind <=> r \in S,
              \A a, b \in S : a.height = b.height => a = b
       PROVE  Newest(s, kind) = S
  <2>1. \A i \in 1..(n + 1) : s[i].kind = kind => i \in 2..(n + 1) /\ s[i] \in S
    BY <1>1, <1>4, <1>10
  <2>2. \A x \in Newest(s, kind) : x \in S
    BY <1>7, <2>1 DEF Newest
  <2>3. ASSUME NEW x \in S
        PROVE  x \in Newest(s, kind)
    <3>1. PICK i \in 2..(n + 1) : s[i] = x
      BY <1>1, <1>10, <2>3
    <3>2. s[i].kind = kind /\ i \in 1..(n + 1)
      BY <1>1, <1>10, <3>1
    <3>3. \A j \in (i + 1)..(n + 1) : s[j].kind = kind => s[j].height # s[i].height
      <4> SUFFICES ASSUME NEW j \in (i + 1)..(n + 1), s[j].kind = kind,
                          s[j].height = s[i].height
                   PROVE  FALSE
        OBVIOUS
      <4>1. j \in 2..(n + 1) /\ j # i /\ j \in 1..(n + 1)
        BY <1>1
      <4>2. s[j] \in S /\ s[i] \in S
        BY <2>1, <3>2, <4>1
      <4>3. s[j] = s[i]
        BY <1>10, <4>2
      <4> QED BY <1>1, <4>1, <4>3
    <3> QED BY <1>1, <1>7, <3>1, <3>2, <3>3 DEF Newest
  <2> QED BY <2>2, <2>3
<1>11. Newest(s, "lock") = m.locks
  <2>1. m.locks \subseteq Entries(m) /\ \A a, b \in m.locks : a.height = b.height => a = b
    BY <1>2 DEF Entries, Unique
  <2> QED BY <1>4, <1>10, <2>1
<1>12. Newest(s, "proof") = m.proofs
  <2>1. m.proofs \subseteq Entries(m) /\ \A a, b \in m.proofs : a.height = b.height => a = b
    BY <1>2 DEF Entries, Unique
  <2> QED BY <1>4, <1>10, <2>1
<1>13. {r \in ToSet(s) : r.kind = "vote"} = m.votes
  BY <1>4, <1>9 DEF Entries
<1>14. Contents(s) = m
  <2> DEFINE c == Contents(s)
  <2>1. c \in Memory
    BY <1>1, ContentsType
  <2>2. c.votes = m.votes /\ c.locks = m.locks /\ c.proofs = m.proofs /\ c.final = m.final
    BY <1>9, <1>11, <1>12, <1>13, ContentsFields DEF f
  <2> HIDE DEF c
  <2>3. c = m
    BY <1>2, <2>1, <2>2, MemoryEqual
  <2> QED BY <2>3 DEF c
<1>15. Trim(m) = m
  <2>1. {p \in m.proofs : p.height > m.final.height} = m.proofs
    BY <1>2 DEF Entries, f
  <2>2. /\ Trim(m) \in Memory /\ Trim(m).votes = m.votes /\ Trim(m).locks = m.locks
        /\ Trim(m).proofs = m.proofs /\ Trim(m).final = m.final
    BY <1>2, <2>1, TrimFields
  <2> QED BY <1>2, <2>2, MemoryEqual
<1>16. Replay(s) = m
  BY <1>1, <1>8, <1>14, <1>15, ReplayType
<1> QED BY <1>8, <1>16 DEF s

-----------------------------------------------------------------------------
(* Memory, and the votes that callers have got.                            *)

(* What the journal has promised is in its memory, as long as it matters.  *)
Promised(m, votes) ==
  /\ m \in Memory
  /\ votes \subseteq VoteRecords
  /\ m.votes \subseteq votes
  /\ \A v \in votes : v.height > m.final.height => v \in m.votes
  /\ \A v, w \in votes : VoteKey(v) = VoteKey(w) => v = w
  /\ Unique(Live(m))

(* n is m with one more record that could be written, as far as live       *)
(* heights go.                                                             *)
OneMore(m, votes, r, n) ==
  /\ Writable(m, r)
  /\ Live(n) = Live(Noted(m, r))
  /\ n.votes \subseteq votes \cup {r}

(* What reading a file may find when m was last answered from.             *)
Found(m, votes, n) ==
  /\ n \in Memory
  /\ \/ Live(n) = Live(m) /\ n.votes \subseteq votes
     \/ \E r \in Records : OneMore(m, votes, r, n)

LEMMA LiveNoted ==
  ASSUME NEW m \in Memory, NEW r \in Records, r.height > m.final.height
  PROVE  LET K == Live(m)
             L == Live(Noted(m, r))
         IN  /\ r.kind = "vote" =>
                  /\ L.votes = K.votes \cup {r} /\ L.locks = K.locks
                  /\ L.proofs = K.proofs /\ L.final = K.final
             /\ r.kind = "lock" =>
                  /\ L.votes = K.votes
                  /\ L.locks = {k \in K.locks : k.height # r.height} \cup {r}
                  /\ L.proofs = K.proofs /\ L.final = K.final
             /\ r.kind = "proof" =>
                  /\ L.votes = K.votes /\ L.locks = K.locks
                  /\ L.proofs = {q \in K.proofs : q.height # r.height} \cup {r}
                  /\ L.final = K.final
             /\ r.kind = "final" =>
                  /\ L.votes = {v \in K.votes : v.height > r.height}
                  /\ L.locks = {k \in K.locks : k.height > r.height}
                  /\ L.proofs = {q \in K.proofs : q.height > r.height}
                  /\ L.final = r
<1> DEFINE K == Live(m)
           N == Noted(m, r)
           L == Live(N)
           h == m.final.height
<1>1. N \in Memory
  BY NotedFields
<1>2. /\ K.votes = {v \in m.votes : v.height > h}
      /\ K.locks = {k \in m.locks : k.height > h}
      /\ K.proofs = {q \in m.proofs : q.height > h}
      /\ K.final = m.final
  BY LiveFields
<1>3. /\ N.votes = IF r.kind = "vote" THEN m.votes \cup {r} ELSE m.votes
      /\ N.locks = IF r.kind = "lock"
                   THEN {k \in m.locks : k.height # r.height} \cup {r} ELSE m.locks
      /\ N.proofs = IF r.kind = "proof"
                    THEN {q \in m.proofs : q.height # r.height} \cup {r} ELSE m.proofs
      /\ N.final = IF r.kind = "final" THEN r ELSE m.final
  BY NotedFields
<1> HIDE DEF N
<1>4. /\ L.votes = {v \in N.votes : v.height > N.final.height}
      /\ L.locks = {k \in N.locks : k.height > N.final.height}
      /\ L.proofs = {q \in N.proofs : q.height > N.final.height}
      /\ L.final = N.final
  BY <1>1, LiveFields
<1>5. /\ \A x \in m.votes \cup m.locks \cup m.proofs : x.height \in Nat
      /\ h \in Nat /\ r.height \in Nat /\ r.height > h
  BY MemoryFields, RecordFields, RecordsByKind
<1> HIDE DEF K, L, h
<1>6. CASE r.kind = "vote"
  <2>1. /\ N.votes = m.votes \cup {r} /\ N.locks = m.locks /\ N.proofs = m.proofs
        /\ N.final = m.final /\ N.final.height = h
    BY <1>3, <1>6 DEF h
  <2>2. L.votes = K.votes \cup {r}
    BY <1>2, <1>4, <1>5, <2>1
  <2>3. L.locks = K.locks /\ L.proofs = K.proofs /\ L.final = K.final
    BY <1>2, <1>4, <2>1
  <2> QED BY <1>6, <2>2, <2>3 DEF K, L, N
<1>7. CASE r.kind = "lock"
  <2>1. /\ N.votes = m.votes /\ N.locks = {k \in m.locks : k.height # r.height} \cup {r}
        /\ N.proofs = m.proofs /\ N.final = m.final /\ N.final.height = h
    BY <1>3, <1>7 DEF h
  <2>2. L.locks = {k \in K.locks : k.height # r.height} \cup {r}
    BY <1>2, <1>4, <1>5, <2>1
  <2>3. L.votes = K.votes /\ L.proofs = K.proofs /\ L.final = K.final
    BY <1>2, <1>4, <2>1
  <2> QED BY <1>7, <2>2, <2>3 DEF K, L, N
<1>8. CASE r.kind = "proof"
  <2>1. /\ N.votes = m.votes /\ N.locks = m.locks
        /\ N.proofs = {q \in m.proofs : q.height # r.height} \cup {r}
        /\ N.final = m.final /\ N.final.height = h
    BY <1>3, <1>8 DEF h
  <2>2. L.proofs = {q \in K.proofs : q.height # r.height} \cup {r}
    BY <1>2, <1>4, <1>5, <2>1
  <2>3. L.votes = K.votes /\ L.locks = K.locks /\ L.final = K.final
    BY <1>2, <1>4, <2>1
  <2> QED BY <1>8, <2>2, <2>3 DEF K, L, N
<1>9. CASE r.kind = "final"
  <2>1. /\ N.votes = m.votes /\ N.locks = m.locks /\ N.proofs = m.proofs /\ N.final = r
    BY <1>3, <1>9
  <2>2. L.votes = {v \in K.votes : v.height > r.height}
    BY <1>2, <1>4, <1>5, <2>1
  <2>3. L.locks = {k \in K.locks : k.height > r.height}
    BY <1>2, <1>4, <1>5, <2>1
  <2>4. L.proofs = {q \in K.proofs : q.height > r.height}
    BY <1>2, <1>4, <1>5, <2>1
  <2>5. L.final = r
    BY <1>4, <2>1
  <2> QED BY <1>9, <2>2, <2>3, <2>4, <2>5 DEF K, L, N
<1> QED BY <1>6, <1>7, <1>8, <1>9 DEF K, L, N

LEMMA PromisedStays ==
  ASSUME NEW m, NEW votes, Promised(m, votes), NEW n \in Memory,
         Live(n) = Live(m), n.votes \subseteq votes
  PROVE  Promised(n, votes)
<1>1. n.final = m.final
  BY LiveFields DEF Promised
<1>2. \A v \in votes : v.height > n.final.height => v \in n.votes
  <2> SUFFICES ASSUME NEW v \in votes, v.height > n.final.height PROVE v \in n.votes
    OBVIOUS
  <2>1. v \in m.votes
    BY <1>1 DEF Promised
  <2>2. v \in Live(m).votes
    BY <1>1, <2>1, LiveFields DEF Promised
  <2> QED BY <2>2, LiveFields
<1> QED BY <1>2 DEF Promised

LEMMA PromisedStep ==
  ASSUME NEW m, NEW votes, Promised(m, votes), NEW n \in Memory,
         NEW r \in Records, OneMore(m, votes, r, n)
  PROVE  /\ Promised(n, votes \cup n.votes)
         /\ votes \cup n.votes = IF r.kind = "vote" THEN votes \cup {r} ELSE votes
<1> DEFINE K == Live(m)
           L == Live(n)
           R == votes \cup n.votes
<1>1. /\ m \in Memory /\ votes \subseteq VoteRecords /\ m.votes \subseteq votes
      /\ \A v \in votes : v.height > m.final.height => v \in m.votes
      /\ \A v, w \in votes : VoteKey(v) = VoteKey(w) => v = w
      /\ Unique(K)
  BY DEF Promised
<1>2. /\ Writable(m, r) /\ r.height > m.final.height
      /\ n.votes \subseteq votes \cup {r}
  BY <1>1, WritableByKind DEF OneMore
<1>3. /\ r.kind = "vote" =>
           /\ L.votes = K.votes \cup {r} /\ L.locks = K.locks
           /\ L.proofs = K.proofs /\ L.final = K.final
      /\ r.kind = "lock" =>
           /\ L.votes = K.votes
           /\ L.locks = {k \in K.locks : k.height # r.height} \cup {r}
           /\ L.proofs = K.proofs /\ L.final = K.final
      /\ r.kind = "proof" =>
           /\ L.votes = K.votes /\ L.locks = K.locks
           /\ L.proofs = {q \in K.proofs : q.height # r.height} \cup {r}
           /\ L.final = K.final
      /\ r.kind = "final" =>
           /\ L.votes = {v \in K.votes : v.height > r.height}
           /\ L.locks = {k \in K.locks : k.height > r.height}
           /\ L.proofs = {q \in K.proofs : q.height > r.height}
           /\ L.final = r
  BY <1>1, <1>2, LiveNoted DEF OneMore
<1>4. /\ K.votes = {v \in m.votes : v.height > m.final.height} /\ K.final = m.final
      /\ L.votes = {v \in n.votes : v.height > n.final.height} /\ L.final = n.final
      /\ K \in Memory
  BY <1>1, LiveFields
<1>5. n.votes \subseteq VoteRecords /\ r.height \in Nat /\ m.final.height \in Nat
  BY <1>1, MemoryFields, RecordsByKind
<1> HIDE DEF K, L
<1>6. R = IF r.kind = "vote" THEN votes \cup {r} ELSE votes
  <2>1. CASE r.kind = "vote"
    BY <1>2, <1>3, <1>4, <2>1
  <2>2. CASE r.kind # "vote"
    <3>1. r \notin n.votes
      BY <1>5, <2>2, RecordFields
    <3> QED BY <1>2, <2>2, <3>1
  <2> QED BY <2>1, <2>2
<1>7. R \subseteq VoteRecords /\ n.votes \subseteq R
  BY <1>1, <1>5
<1> HIDE DEF R
<1>8. \A v \in R : v.height > n.final.height => v \in n.votes
  <2> SUFFICES ASSUME NEW v \in R, v.height > n.final.height PROVE v \in n.votes
    OBVIOUS
  <2>1. CASE r.kind = "final"
    <3>1. v \in votes /\ v.height > r.height /\ v.height \in Nat
      BY <1>1, <1>3, <1>4, <1>6, <2>1, RecordFields
    <3>2. v \in K.votes
      BY <1>1, <1>2, <1>4, <1>5, <3>1
    <3> QED BY <1>3, <1>4, <2>1, <3>1, <3>2
  <2>2. CASE r.kind # "final"
    <3>1. n.final = m.final /\ K.votes \subseteq L.votes
      BY <1>3, <1>4, <2>2, RecordsByKind
    <3>2. CASE v \in votes
      BY <1>1, <1>4, <3>1, <3>2
    <3>3. CASE v \notin votes
      <4>1. r.kind = "vote" /\ v = r
        BY <1>6, <3>3
      <4> QED BY <1>3, <1>4, <4>1
    <3> QED BY <3>2, <3>3
  <2> QED BY <2>1, <2>2
<1>9. \A v, w \in R : VoteKey(v) = VoteKey(w) => v = w
  <2>1. CASE r.kind = "vote"
    <3>1. \A v \in votes : VoteKey(v) # VoteKey(r)
      <4> SUFFICES ASSUME NEW v \in votes, VoteKey(v) = VoteKey(r) PROVE FALSE
        OBVIOUS
      <4>1. v.height = r.height
        BY DEF VoteKey
      <4>2. v \in m.votes
        BY <1>1, <1>2, <4>1
      <4> QED BY <1>1, <1>2, <2>1, <4>2, WritableByKind
    <3> QED BY <1>1, <1>6, <2>1, <3>1
  <2>2. CASE r.kind # "vote"
    BY <1>1, <1>6, <2>2
  <2> QED BY <2>1, <2>2
<1>10. Unique(L)
  <2>1. L.votes \subseteq R
    BY <1>4, <1>7
  <2>2. \A v, w \in L.votes : VoteKey(v) = VoteKey(w) => v = w
    BY <1>9, <2>1
  <2>3. \A k, l \in L.locks : k.height = l.height => k = l
    <3>1. \A k, l \in K.locks : k.height = l.height => k = l
      BY <1>1 DEF Unique
    <3>2. L.locks \subseteq K.locks
            \/ L.locks = {k \in K.locks : k.height # r.height} \cup {r}
      BY <1>3, RecordsByKind
    <3> QED BY <3>1, <3>2
  <2>4. \A p, q \in L.proofs : p.height = q.height => p = q
    <3>1. \A p, q \in K.proofs : p.height = q.height => p = q
      BY <1>1 DEF Unique
    <3>2. L.proofs \subseteq K.proofs
            \/ L.proofs = {q \in K.proofs : q.height # r.height} \cup {r}
      BY <1>3, RecordsByKind
    <3> QED BY <3>1, <3>2
  <2> QED BY <2>2, <2>3, <2>4 DEF Unique
<1>11. Promised(n, R)
  BY <1>7, <1>8, <1>9, <1>10 DEF Promised, L
<1> QED BY <1>6, <1>11 DEF R

-----------------------------------------------------------------------------
(* What a power loss may leave of a file f of which n records are flushed. *)
ImagesOf(f, n, old) ==
  LET whole == {SubSeq(f, 1, i) : i \in n..Len(f)}
      cut == {Append(s, Torn) : s \in whole \ {f}}
  IN  whole \cup cut \cup ({old} \ {NoShadow})

Files == Seq(Records \cup {Torn})

LEMMA FilesOfRecords == Seq(Records) \subseteq Files
BY SeqMonotonic DEF Files

LEMMA ImageFiles ==
  ASSUME NEW f \in Files, NEW n \in 0..Len(f), NEW old,
         old = NoShadow \/ (old \in Seq(Records) /\ Len(old) <= MaxRecords),
         Len(f) <= MaxRecords,
         NEW image \in ImagesOf(f, n, old)
  PROVE  image \in Files /\ Len(image) <= MaxRecords
<1>1. Len(f) \in Nat /\ \A i \in 1..Len(f) : f[i] \in Records \cup {Torn}
  BY LenProperties, ElementOfSeq DEF Files
<1>2. ASSUME NEW i \in n..Len(f)
      PROVE  /\ SubSeq(f, 1, i) \in Files /\ Len(SubSeq(f, 1, i)) = i
             /\ Append(SubSeq(f, 1, i), Torn) \in Files
             /\ Len(Append(SubSeq(f, 1, i), Torn)) = i + 1
             /\ SubSeq(f, 1, i) # f => i + 1 <= Len(f)
  <2>1. /\ 1 \in Int /\ i \in Nat /\ i <= Len(f) /\ (1 <= i \/ i = 0)
        /\ \A j \in 1..i : f[j] \in Records \cup {Torn}
    BY <1>1
  <2>2. SubSeq(f, 1, i) \in Files /\ Len(SubSeq(f, 1, i)) = i
    BY <2>1, SubSeqProperties DEF Files
  <2>3. /\ Append(SubSeq(f, 1, i), Torn) \in Files
        /\ Len(Append(SubSeq(f, 1, i), Torn)) = i + 1
    BY <2>2, AppendProperties DEF Files
  <2>4. i = Len(f) => SubSeq(f, 1, i) = f
    BY SubSeqFull DEF Files
  <2> QED BY <1>1, <2>1, <2>2, <2>3, <2>4
<1>3. MaxRecords \in Nat
  BY JournalAssumption
<1>4. CASE \E i \in n..Len(f) : image = SubSeq(f, 1, i)
  BY <1>1, <1>2, <1>3, <1>4
<1>5. CASE \E i \in n..Len(f) :
             SubSeq(f, 1, i) # f /\ image = Append(SubSeq(f, 1, i), Torn)
  BY <1>1, <1>2, <1>3, <1>5
<1>6. CASE image = old /\ old # NoShadow
  BY <1>6, FilesOfRecords
<1> QED BY <1>4, <1>5, <1>6 DEF ImagesOf

LEMMA ImagesOfSynced ==
  ASSUME NEW f \in Files, NEW old
  PROVE  ImagesOf(f, Len(f), old) = {f} \cup ({old} \ {NoShadow})
<1>1. SubSeq(f, 1, Len(f)) = f /\ Len(f)..Len(f) = {Len(f)}
  BY SubSeqFull, LenProperties DEF Files
<1> QED BY <1>1 DEF ImagesOf

LEMMA ImagesOfAppended ==
  ASSUME NEW f \in Seq(Records), NEW x \in Records \cup {Torn}
  PROVE  ImagesOf(Append(f, x), Len(f), NoShadow)
           \subseteq {f, Append(f, x), Append(f, Torn)}
<1> DEFINE n == Len(f)
           g == Append(f, x)
<1>1. n \in Nat /\ f \in Files
  BY LenProperties, FilesOfRecords
<1>2. g \in Files /\ Len(g) = n + 1
  BY <1>1, AppendProperties DEF Files
<1>3. SubSeq(g, 1, n) = f
  <2>1. SubSeq(g, 1, n) = SubSeq(f, 1, n)
    BY <1>1, SubSeqAppend DEF Files
  <2> QED BY <1>1, <2>1, SubSeqFull
<1>4. SubSeq(g, 1, n + 1) = g
  BY <1>2, SubSeqFull DEF Files
<1>5. n..Len(g) = {n, n + 1}
  BY <1>1, <1>2
<1> HIDE DEF g, n
<1>6. {SubSeq(g, 1, i) : i \in n..Len(g)} = {f, g}
  <2>1. {SubSeq(g, 1, i) : i \in {n, n + 1}} = {SubSeq(g, 1, n), SubSeq(g, 1, n + 1)}
    OBVIOUS
  <2> QED BY <1>3, <1>4, <1>5, <2>1
<1>7. ImagesOf(g, n, NoShadow) \subseteq {f, g, Append(f, Torn)}
  BY <1>6 DEF ImagesOf
<1> QED BY <1>7 DEF g, n

LEMMA ImagesAfterLoss ==
  ASSUME NEW f \in Files, NEW n \in 0..Len(f), NEW old
  PROVE  /\ f \in ImagesOf(f, n, old)
         /\ ImagesOf(f, n, NoShadow) \subseteq ImagesOf(f, n, old)
<1>1. SubSeq(f, 1, Len(f)) = f /\ Len(f) \in n..Len(f)
  BY SubSeqFull, LenProperties DEF Files
<1> QED BY <1>1 DEF ImagesOf

LEMMA CompleteFile ==
  ASSUME NEW f \in Seq(Records)
  PROVE  Complete(f) = f /\ Complete(Append(f, Torn)) = f
<1>1. Complete(f) = f
  <2>1. f # <<>> => Last(f) \in Records
    BY LenProperties, EmptySeq, ElementOfSeq DEF Last
  <2> QED BY <2>1, RecordsByKind DEF Complete
<1>2. Complete(Append(f, Torn)) = f
  <2> DEFINE g == Append(f, Torn)
  <2>1. /\ f \in Files /\ Torn \in Records \cup {Torn} /\ Len(f) \in Nat
    BY FilesOfRecords, LenProperties
  <2>2. g \in Files /\ g # <<>> /\ Len(g) = Len(f) + 1 /\ g[Len(f) + 1] = Torn
    BY <2>1, AppendProperties DEF Files
  <2>3. SubSeq(g, 1, Len(f)) = f
    <3>1. SubSeq(g, 1, Len(f)) = SubSeq(f, 1, Len(f))
      BY <2>1, SubSeqAppend DEF Files
    <3> QED BY <3>1, SubSeqFull
  <2> HIDE DEF g
  <2>4. Last(g) = Torn /\ Front(g) = f
    BY <2>1, <2>2, <2>3 DEF Last, Front
  <2>5. Complete(g) = f
    BY <2>2, <2>4 DEF Complete
  <2> QED BY <2>5 DEF g
<1> QED BY <1>1, <1>2

-----------------------------------------------------------------------------
(* The inductive invariant: whatever the power leaves of the file can be   *)
(* read, and holds what was promised and at most one record more.          *)
Recoverable(image, m, votes) ==
  /\ Complete(image) \in Seq(Records)
  /\ Readable(Complete(image))
  /\ Found(m, votes, Replay(Complete(image)))

Usable(f, n, old, m) ==
  /\ f \in Seq(Records)
  /\ n = Len(f)
  /\ old = NoShadow
  /\ Readable(f)
  /\ Replay(f) = m

Sound(f, n, old, opened, m, votes) ==
  /\ f \in Files /\ Len(f) <= MaxRecords /\ n \in 0..Len(f)
  /\ old = NoShadow \/ (old \in Seq(Records) /\ Len(old) <= MaxRecords)
  /\ opened \in BOOLEAN
  /\ Promised(m, votes)
  /\ opened => Usable(f, n, old, m)
  /\ \A image \in ImagesOf(f, n, old) : Recoverable(image, m, votes)

IInv == Sound(file, synced, shadow, open, mem, released)

LEMMA FoundItself ==
  ASSUME NEW m, NEW votes, Promised(m, votes)
  PROVE  Found(m, votes, m)
BY DEF Promised, Found

LEMMA SoundOpen ==
  ASSUME NEW f \in Seq(Records), Len(f) <= MaxRecords, Readable(f),
         NEW votes, Promised(Replay(f), votes)
  PROVE  Sound(f, Len(f), NoShadow, TRUE, Replay(f), votes)
<1>1. f \in Files /\ Len(f) \in 0..Len(f)
  BY FilesOfRecords, LenProperties
<1>2. ImagesOf(f, Len(f), NoShadow) = {f}
  BY <1>1, ImagesOfSynced
<1>3. Recoverable(f, Replay(f), votes)
  BY CompleteFile, FoundItself DEF Recoverable
<1> QED BY <1>1, <1>2, <1>3 DEF Sound, Usable

LEMMA PromisedFound ==
  ASSUME NEW m, NEW votes, Promised(m, votes), NEW n, Found(m, votes, n)
  PROVE  Promised(n, votes \cup n.votes)
<1>1. CASE Live(n) = Live(m) /\ n.votes \subseteq votes
  <2>1. votes \cup n.votes = votes
    BY <1>1
  <2> QED BY <1>1, <2>1, PromisedStays DEF Found
<1>2. CASE \E r \in Records : OneMore(m, votes, r, n)
  BY <1>2, PromisedStep DEF Found
<1> QED BY <1>1, <1>2 DEF Found

-----------------------------------------------------------------------------
(* Each step keeps it.                                                     *)
LEMMA OneMoreFound ==
  ASSUME NEW m, NEW votes, Promised(m, votes), NEW r \in Records, Writable(m, r)
  PROVE  /\ Noted(m, r) \in Memory
         /\ OneMore(m, votes, r, Noted(m, r))
         /\ OneMore(m, votes, r, Trim(Noted(m, r)))
         /\ OneMore(m, votes, r, Live(Noted(m, r)))
<1> DEFINE n == Noted(m, r)
<1>1. n \in Memory /\ n.votes \subseteq m.votes \cup {r} /\ m.votes \subseteq votes
  BY NotedFields DEF Promised
<1> HIDE DEF n
<1>2. /\ Trim(n).votes = n.votes /\ Live(Trim(n)) = Live(n)
  BY <1>1, TrimFields
<1>3. Live(n).votes \subseteq n.votes /\ Live(Live(n)) = Live(n)
  <2> DEFINE k == Live(n)
  <2>1. /\ k \in Memory
        /\ k.votes = {v \in n.votes : v.height > n.final.height}
        /\ k.locks = {l \in n.locks : l.height > n.final.height}
        /\ k.proofs = {p \in n.proofs : p.height > n.final.height}
        /\ k.final = n.final
    BY <1>1, LiveFields
  <2> HIDE DEF k
  <2>2. /\ Live(k) \in Memory
        /\ Live(k).votes = {v \in k.votes : v.height > k.final.height}
        /\ Live(k).locks = {l \in k.locks : l.height > k.final.height}
        /\ Live(k).proofs = {p \in k.proofs : p.height > k.final.height}
        /\ Live(k).final = k.final
    BY <2>1, LiveFields
  <2>3. Live(k).votes = k.votes
    BY <2>1, <2>2
  <2>4. Live(k).locks = k.locks
    BY <2>1, <2>2
  <2>5. Live(k).proofs = k.proofs
    BY <2>1, <2>2
  <2>6. Live(k) = k
    BY <2>1, <2>2, <2>3, <2>4, <2>5, MemoryEqual
  <2> QED BY <2>1, <2>6 DEF k
<1>4. OneMore(m, votes, r, n)
  BY <1>1 DEF OneMore, n
<1>5. OneMore(m, votes, r, Trim(n))
  BY <1>1, <1>2 DEF OneMore, n
<1>6. OneMore(m, votes, r, Live(n))
  BY <1>1, <1>3 DEF OneMore, n
<1> QED BY <1>1, <1>4, <1>5, <1>6 DEF n

(* An append that succeeds.                                                *)
LEMMA AppendKeeps ==
  ASSUME IInv, open, NEW r \in Records, Writable(mem, r), r.kind # "final",
         AppendRecord(r), Remember(Noted(mem, r))
  PROVE  IInv' /\ Found(mem, released, mem') /\ released' = released \cup mem'.votes
<1> DEFINE g == Append(file, r)
<1>1. /\ Promised(mem, released) /\ Len(file) <= MaxRecords
      /\ file \in Seq(Records) /\ shadow = NoShadow
      /\ Readable(file) /\ Replay(file) = mem
  BY DEF IInv, Sound, Usable
<1>2. /\ file' = g /\ synced' = Len(g) /\ shadow' = NoShadow /\ open' = TRUE
      /\ mem' = Noted(mem, r) /\ released' = released \cup mem'.votes
      /\ Len(file) < MaxRecords
  BY <1>1 DEF AppendRecord, Remember, HasSpace
<1>3. Readable(g) /\ Replay(g) = mem'
  BY <1>1, <1>2, ReplayAppend, TrimAppended
<1>4. g \in Seq(Records) /\ Len(g) <= MaxRecords
  <2>1. g \in Seq(Records) /\ Len(g) = Len(file) + 1
    BY <1>1, AppendProperties
  <2> QED BY <1>1, <1>2, <2>1, LenProperties, JournalAssumption
<1>5. Found(mem, released, mem')
  BY <1>1, <1>2, OneMoreFound DEF Found
<1>6. Promised(mem', released')
  BY <1>1, <1>2, <1>5, PromisedFound
<1> HIDE DEF g
<1>7. Sound(g, Len(g), NoShadow, TRUE, mem', released')
  BY <1>3, <1>4, <1>6, SoundOpen
<1> QED BY <1>2, <1>5, <1>7 DEF IInv

(* One that fails leaves the file, or the record, or a part of it.         *)
LEMMA AppendFailsKeeps ==
  ASSUME IInv, open, NEW r \in Records, Writable(mem, r), AppendFails(r)
  PROVE  IInv' /\ UNCHANGED <<mem, released>>
<1>1. /\ Promised(mem, released) /\ Len(file) <= MaxRecords
      /\ file \in Seq(Records) /\ shadow = NoShadow /\ synced = Len(file)
      /\ Readable(file) /\ Replay(file) = mem
  BY DEF IInv, Sound, Usable
<1>2. /\ open' = FALSE /\ mem' = mem /\ released' = released
      /\ synced' = Len(file) /\ shadow' = NoShadow
      /\ \/ file' = file
         \/ Len(file) < MaxRecords /\ file' \in {Append(file, Torn), Append(file, r)}
  BY <1>1 DEF AppendFails, Poison, HasSpace
<1>3. Recoverable(file, mem, released)
  BY <1>1, CompleteFile, FoundItself DEF Recoverable
<1>4. Recoverable(Append(file, Torn), mem, released)
  BY <1>1, CompleteFile, FoundItself DEF Recoverable
<1>5. Recoverable(Append(file, r), mem, released)
  <2> DEFINE g == Append(file, r)
  <2>1. g \in Seq(Records) /\ Complete(g) = g
    BY <1>1, AppendProperties, CompleteFile
  <2>2. Readable(g) /\ Replay(g) = Trim(Noted(mem, r))
    BY <1>1, ReplayAppend
  <2>3. Found(mem, released, Replay(g))
    BY <1>1, <2>1, <2>2, OneMoreFound, TrimFields DEF Found
  <2> QED BY <2>1, <2>2, <2>3 DEF Recoverable
<1>6. CASE file' = file
  <2>1. file \in Files /\ ImagesOf(file, Len(file), NoShadow) = {file}
    BY <1>1, FilesOfRecords, ImagesOfSynced
  <2>2. Sound(file, Len(file), NoShadow, FALSE, mem, released)
    BY <1>1, <1>3, <2>1, LenProperties DEF Sound
  <2> QED BY <1>2, <1>6, <2>2 DEF IInv
<1>7. ASSUME NEW x \in {Torn, r}, file' = Append(file, x), Len(file) < MaxRecords
      PROVE  IInv'
  <2> DEFINE g == Append(file, x)
  <2>1. ImagesOf(g, Len(file), NoShadow) \subseteq {file, g, Append(file, Torn)}
    BY <1>1, ImagesOfAppended
  <2>2. /\ Recoverable(g, mem, released)
    BY <1>4, <1>5
  <2>3. g \in Files /\ Len(g) = Len(file) + 1 /\ Len(file) \in Nat
    BY <1>1, FilesOfRecords, AppendProperties, LenProperties DEF Files
  <2> HIDE DEF g
  <2>4. Len(g) <= MaxRecords /\ Len(file) \in 0..Len(g)
    BY <1>7, <2>3, JournalAssumption
  <2>5. Sound(g, Len(file), NoShadow, FALSE, mem, released)
    BY <1>1, <1>3, <1>4, <2>1, <2>2, <2>3, <2>4 DEF Sound
  <2> QED BY <1>2, <1>7, <2>5 DEF IInv, g
<1> QED BY <1>2, <1>6, <1>7

-----------------------------------------------------------------------------
(* A compaction.                                                           *)
LEMMA EntriesInFile ==
  ASSUME NEW s \in Seq(Records)
  PROVE  IsFiniteSet(ToSet(s)) /\ Cardinality(ToSet(s)) <= Len(s)
<1>1. Len(s) \in Nat /\ DOMAIN s = 1..Len(s) /\ s \in [1..Len(s) -> Records]
  BY LenProperties
<1>2. s \in Surjection(1..Len(s), ToSet(s))
  BY <1>1 DEF Surjection, ToSet
<1>3. ExistsSurjection(1..Len(s), ToSet(s))
  BY <1>2 DEF ExistsSurjection
<1> QED BY <1>1, <1>3, FS_NatSurjection, FS_SurjCardinalityBound

LEMMA CompactionFits ==
  ASSUME NEW s \in Seq(Records), Readable(s), NEW votes, Promised(Replay(s), votes),
         NEW f \in FinalRecords, Writable(Replay(s), f)
  PROVE  LET kept == Live(Noted(Replay(s), f))
         IN  /\ Settled(kept)
             /\ Len(Compacted(kept)) <= Len(s) + 1
<1> DEFINE m == Replay(s)
           n == Noted(m, f)
           kept == Live(n)
<1>1. m \in Memory /\ m = Trim(Contents(s))
  BY ReplayType
<1>2. Entries(m) \subseteq ToSet(s)
  BY <1>1, ContentsType, TrimFields DEF Entries
<1>3. f \in Records /\ f.kind = "final"
  BY RecordsByKind, RecordFields
<1> HIDE DEF m
<1>4. n \in Memory /\ n.votes = m.votes /\ n.locks = m.locks /\ n.proofs = m.proofs
      /\ n.final = f
  BY <1>1, <1>3, NotedFields
<1>5. Promised(kept, votes \cup kept.votes)
  <2>1. OneMore(m, votes, f, kept)
    BY <1>3, OneMoreFound DEF m
  <2>2. kept \in Memory
    BY <1>4, LiveFields
  <2> QED BY <1>3, <2>1, <2>2, PromisedStep DEF m
<1> HIDE DEF n
<1>6. /\ kept \in Memory /\ kept.final = f /\ Entries(kept) \subseteq Entries(n)
      /\ \A r \in Entries(kept) : r.height > f.height
  BY <1>4, LiveFields DEF Entries
<1>7. Live(kept) = kept
  <2> DEFINE k == kept
  <2>1. k \in Memory /\ \A r \in Entries(k) : r.height > k.final.height
    BY <1>6
  <2> HIDE DEF k
  <2>2. /\ Live(k) \in Memory /\ Live(k).final = k.final
        /\ Live(k).votes = k.votes /\ Live(k).locks = k.locks /\ Live(k).proofs = k.proofs
    BY <2>1, LiveFields DEF Entries
  <2>3. Live(k) = k
    BY <2>1, <2>2, MemoryEqual
  <2> QED BY <2>3 DEF k
<1>8. Unique(kept)
  BY <1>5, <1>7 DEF Promised
<1>9. Entries(kept) \subseteq ToSet(s)
  BY <1>2, <1>4, <1>6 DEF Entries
<1>10. IsFiniteSet(Entries(kept)) /\ Cardinality(Entries(kept)) <= Len(s)
  <2>1. /\ IsFiniteSet(Entries(kept))
        /\ Cardinality(Entries(kept)) <= Cardinality(ToSet(s))
    BY <1>9, EntriesInFile, FS_Subset
  <2>2. Cardinality(Entries(kept)) \in Nat /\ Cardinality(ToSet(s)) \in Nat
    BY <2>1, EntriesInFile, FS_CardinalityType
  <2> QED BY <2>1, <2>2, EntriesInFile, LenProperties
<1>11. Settled(kept)
  BY <1>6, <1>8, <1>10 DEF Settled
<1>12. Len(Compacted(kept)) <= Len(s) + 1
  <2> HIDE DEF kept
  <2>1. Len(Compacted(kept)) = Cardinality(Entries(kept)) + 1
    BY <1>11, CompactedFile
  <2>2. Cardinality(Entries(kept)) \in Nat
    BY <1>10, FS_CardinalityType
  <2> QED BY <1>10, <2>1, <2>2, LenProperties
<1> QED BY <1>11, <1>12 DEF kept, n, m

LEMMA CompactedKeeps ==
  ASSUME IInv, open, NEW f \in FinalRecords, Writable(mem, f), Len(file) < MaxRecords,
         LET kept == Live(Noted(mem, f))
         IN  Compact(Append(file, f), Compacted(kept), kept),
         synced' = Len(file')
  PROVE  IInv' /\ Found(mem, released, mem') /\ released' = released \cup mem'.votes
<1> DEFINE old == Append(file, f)
           kept == Live(Noted(mem, f))
           new == Compacted(kept)
<1>1. /\ Promised(mem, released) /\ Len(file) <= MaxRecords
      /\ file \in Seq(Records) /\ shadow = NoShadow
      /\ Readable(file) /\ Replay(file) = mem
  BY DEF IInv, Sound, Usable
<1>2. f \in Records
  BY RecordsByKind
<1>3. /\ old \in Seq(Records) /\ Len(old) = Len(file) + 1 /\ Len(file) \in Nat
      /\ Complete(old) = old
      /\ Readable(old) /\ Replay(old) = Trim(Noted(mem, f))
  BY <1>1, <1>2, AppendProperties, LenProperties, CompleteFile, ReplayAppend
<1>4. Recoverable(old, mem, released)
  <2>1. Found(mem, released, Replay(old))
    BY <1>1, <1>2, <1>3, OneMoreFound, TrimFields DEF Found
  <2> QED BY <1>3, <2>1 DEF Recoverable
<1>5. Settled(kept) /\ Len(new) <= Len(file) + 1
  BY <1>1, CompactionFits
<1>6. new \in Seq(Records) /\ Complete(new) = new /\ Readable(new) /\ Replay(new) = kept
  BY <1>5, CompactedFile, CompactedReplay, CompleteFile
<1>7. Found(mem, released, kept)
  BY <1>1, <1>2, <1>5, OneMoreFound DEF Found, Settled
<1>8. Recoverable(new, mem, released)
  BY <1>6, <1>7 DEF Recoverable
<1>9. Len(old) <= MaxRecords /\ Len(new) <= MaxRecords
  BY <1>3, <1>5, <1>6, LenProperties, JournalAssumption
<1>10. \/ file' = old /\ shadow' = NoShadow /\ Poison
       \/ file' = new /\ shadow' \in {old, NoShadow} /\ Poison
       \/ file' = new /\ shadow' = NoShadow /\ Remember(kept) /\ open' = open
  BY <1>1 DEF Compact
<1> HIDE DEF old, kept, new
<1>11. old \in Files /\ new \in Files
  BY <1>3, <1>6, FilesOfRecords
<1>12. ASSUME NEW g \in {old, new}, NEW h \in {old, NoShadow},
              file' = g, shadow' = h, Poison
       PROVE  IInv' /\ Found(mem, released, mem') /\ released' = released \cup mem'.votes
  <2>1. ImagesOf(g, Len(g), h) \subseteq {old, new}
    BY <1>11, ImagesOfSynced
  <2>2. g \in Files /\ Len(g) <= MaxRecords /\ Len(g) \in 0..Len(g)
    BY <1>3, <1>6, <1>9, <1>11, LenProperties
  <2>3. h = NoShadow \/ (h \in Seq(Records) /\ Len(h) <= MaxRecords)
    BY <1>3, <1>9
  <2>4. Sound(g, Len(g), h, FALSE, mem, released)
    BY <1>1, <1>4, <1>8, <2>1, <2>2, <2>3 DEF Sound
  <2>5. open' = FALSE /\ mem' = mem /\ released' = released /\ mem.votes \subseteq released
    BY <1>1, <1>12 DEF Poison, Promised
  <2>6. released' = released \cup mem'.votes
    BY <2>5
  <2> QED BY <1>1, <1>12, <2>4, <2>5, <2>6, FoundItself DEF IInv
<1>13. CASE file' = new /\ shadow' = NoShadow /\ Remember(kept) /\ open' = open
  <2>1. mem' = kept /\ released' = released \cup mem'.votes /\ open' = TRUE
    BY <1>13 DEF Remember
  <2>2. Promised(kept, released')
    BY <1>1, <1>7, <2>1, PromisedFound
  <2>3. Sound(new, Len(new), NoShadow, TRUE, kept, released')
    BY <1>6, <1>9, <2>2, SoundOpen
  <2> QED BY <1>7, <1>13, <2>1, <2>3 DEF IInv
<1> QED BY <1>10, <1>12, <1>13

-----------------------------------------------------------------------------
(* The end of the process, a power loss, and opening again.                *)
LEMMA UnansweredKeeps ==
  ASSUME IInv, UNCHANGED <<mem, released>>
  PROVE  Found(mem, released, mem') /\ released' = released \cup mem'.votes
<1>1. Promised(mem, released) /\ mem.votes \subseteq released
  BY DEF IInv, Sound, Promised
<1>2. released = released \cup mem.votes
  BY <1>1
<1> QED BY <1>1, <1>2, FoundItself

LEMMA PowerLossKeeps ==
  ASSUME IInv, PowerLoss
  PROVE  IInv'
<1>1. /\ file \in Files /\ Len(file) <= MaxRecords /\ synced \in 0..Len(file)
      /\ shadow = NoShadow \/ (shadow \in Seq(Records) /\ Len(shadow) <= MaxRecords)
      /\ Promised(mem, released)
      /\ \A image \in ImagesOf(file, synced, shadow) : Recoverable(image, mem, released)
  BY DEF IInv, Sound
<1>2. PICK image \in ImagesOf(file, synced, shadow) :
        /\ file' = image /\ synced' = Len(image) /\ shadow' = NoShadow
        /\ open' = FALSE /\ mem' = mem /\ released' = released
  BY DEF PowerLoss, CrashImages, ImagesOf
<1>3. image \in Files /\ Len(image) <= MaxRecords
  BY <1>1, ImageFiles
<1>4. ImagesOf(image, Len(image), NoShadow) = {image}
  BY <1>3, ImagesOfSynced
<1>5. Len(image) \in 0..Len(image)
  BY <1>3, LenProperties DEF Files
<1>6. Sound(image, Len(image), NoShadow, FALSE, mem, released)
  BY <1>1, <1>3, <1>4, <1>5 DEF Sound
<1> QED BY <1>2, <1>6 DEF IInv

LEMMA LoadKeeps ==
  ASSUME IInv, Load
  PROVE  IInv' /\ Found(mem, released, mem') /\ released' = released \cup mem'.votes
<1> DEFINE g == Complete(file)
           n == Replay(g)
<1>1. /\ file \in Files /\ Len(file) <= MaxRecords /\ synced \in 0..Len(file)
      /\ Promised(mem, released)
      /\ \A image \in ImagesOf(file, synced, shadow) : Recoverable(image, mem, released)
  BY DEF IInv, Sound
<1>2. ~open /\ shadow' = NoShadow
  BY DEF Load
<1>3. /\ file \in ImagesOf(file, synced, shadow)
      /\ ImagesOf(file, synced, NoShadow) \subseteq ImagesOf(file, synced, shadow)
  BY <1>1, ImagesAfterLoss
<1>4. g \in Seq(Records) /\ Readable(g) /\ Found(mem, released, n)
  BY <1>1, <1>3 DEF Recoverable
<1>5. CASE UNCHANGED <<file, synced, open, mem, released>>
  <2>1. Sound(file, synced, NoShadow, FALSE, mem, released)
    BY <1>1, <1>3 DEF Sound
  <2>2. open = FALSE
    BY <1>2 DEF IInv, Sound
  <2> QED BY <1>2, <1>5, <2>1, <2>2, UnansweredKeeps DEF IInv
<1>6. CASE /\ file' = g /\ synced' = Len(g) /\ open' = TRUE
           /\ mem' = n /\ released' = released \cup n.votes
  <2>1. Len(g) <= MaxRecords
    <3>1. Len(file) \in Nat /\ 1 \in Int
      BY <1>1, LenProperties DEF Files
    <3>2. file # <<>> => Len(Front(file)) <= Len(file)
      <4>1. \A i \in 1..(Len(file) - 1) : file[i] \in Records \cup {Torn}
        BY <1>1, <3>1, ElementOfSeq DEF Files
      <4>2. Len(SubSeq(file, 1, Len(file) - 1)) =
              IF 1 <= Len(file) - 1 THEN Len(file) - 1 - 1 + 1 ELSE 0
        BY <3>1, <4>1, SubSeqProperties
      <4> QED BY <3>1, <4>2 DEF Front
    <3>3. Len(g) <= Len(file)
      BY <3>1, <3>2 DEF Complete
    <3> QED BY <1>1, <1>4, <3>1, <3>3, LenProperties, JournalAssumption
  <2>2. Promised(n, released \cup n.votes)
    BY <1>1, <1>4, PromisedFound
  <2>3. Sound(g, Len(g), NoShadow, TRUE, n, released \cup n.votes)
    BY <1>4, <2>1, <2>2, SoundOpen
  <2> QED BY <1>2, <1>4, <1>6, <2>3 DEF IInv
<1> QED BY <1>5, <1>6 DEF Load, Remember

-----------------------------------------------------------------------------
LEMMA InitSound == Init => IInv
<1> SUFFICES ASSUME Init PROVE IInv
  OBVIOUS
<1>1. /\ file = <<>> /\ synced = 0 /\ shadow = NoShadow /\ open = TRUE
      /\ mem = Nothing /\ released = {}
  BY DEF Init
<1>2. <<>> \in Seq(Records) /\ Len(<<>>) = 0 /\ DOMAIN <<>> = {}
  BY EmptySeq
<1>3. Nothing \in Memory /\ NoFinal.height = 0
  BY RecordFields DEF Nothing, Memory
<1>4. Readable(<<>>)
  BY <1>2 DEF Readable
<1>5. Replay(<<>>) = Nothing
  <2>1. Contents(<<>>).votes = {} /\ Contents(<<>>).locks = {} /\ Contents(<<>>).proofs = {}
    BY <1>2, ContentsFields DEF Newest, ToSet
  <2>2. Contents(<<>>).final = NoFinal
    BY <1>2, ContentsFields DEF LastFinal, Finals
  <2>3. Contents(<<>>) = Nothing
    BY <2>1, <2>2, ContentsFields DEF Nothing
  <2>4. Trim(Nothing) = Nothing
    BY DEF Trim, Nothing
  <2> QED BY <1>2, <1>4, <2>3, <2>4, ReplayType
<1>6. Promised(Nothing, {})
  <2>1. Live(Nothing) \in Memory /\ Unique(Live(Nothing))
    BY <1>3, LiveFields DEF Unique, Nothing
  <2> QED BY <1>3, <2>1 DEF Promised, Nothing
<1>7. Sound(<<>>, 0, NoShadow, TRUE, Nothing, {})
  <2>1. Len(<<>>) <= MaxRecords
    BY <1>2, JournalAssumption
  <2>2. Sound(<<>>, Len(<<>>), NoShadow, TRUE, Replay(<<>>), {})
    BY <1>2, <1>4, <1>5, <1>6, <2>1, SoundOpen
  <2> QED BY <1>2, <1>5, <2>2
<1> QED BY <1>1, <1>7 DEF IInv

LEMMA StepKeeps ==
  ASSUME IInv, [Next]_vars
  PROVE  IInv' /\ Found(mem, released, mem') /\ released' = released \cup mem'.votes
<1>1. mem \in Memory /\ open \in BOOLEAN
  BY DEF IInv, Sound, Promised
<1>2. ASSUME NEW r \in Records, r.kind # "final", open, Writable(mem, r), Appended(r)
      PROVE  IInv' /\ Found(mem, released, mem') /\ released' = released \cup mem'.votes
  BY <1>2, AppendKeeps, AppendFailsKeeps, UnansweredKeeps DEF Appended
<1>3. CASE \E v \in VoteRecords : GetOrSignVote(v)
  <2>1. PICK v \in VoteRecords : GetOrSignVote(v)
    BY <1>3
  <2>2. v \in Records /\ v.kind = "vote"
    BY RecordsByKind, RecordFields
  <2>3. open /\ Writable(mem, v) /\ Appended(v)
    BY <2>1, <2>2 DEF GetOrSignVote, Writable
  <2> QED BY <1>2, <2>2, <2>3
<1>4. CASE \E l \in LockRecords : RecordLock(l)
  <2>1. PICK l \in LockRecords : RecordLock(l)
    BY <1>4
  <2>2. l \in Records /\ l.kind = "lock"
    BY RecordsByKind, RecordFields
  <2>3. open /\ Writable(mem, l) /\ Appended(l)
    BY <2>1, <2>2 DEF RecordLock, Writable
  <2> QED BY <1>2, <2>2, <2>3
<1>5. CASE \E p \in ProofRecords : RecordProof(p)
  <2>1. PICK p \in ProofRecords : RecordProof(p)
    BY <1>5
  <2>2. p \in Records /\ p.kind = "proof"
    BY RecordsByKind, RecordFields
  <2>3. open /\ Writable(mem, p) /\ Appended(p)
    BY <2>1, <2>2 DEF RecordProof, Writable
  <2> QED BY <1>2, <2>2, <2>3
<1>6. CASE \E f \in FinalRecords : RecordFinalized(f)
  <2>1. PICK f \in FinalRecords : RecordFinalized(f)
    BY <1>6
  <2>2. f \in Records /\ f.kind = "final"
    BY RecordsByKind, RecordFields
  <2>3. open /\ Writable(mem, f)
    BY <2>1, <2>2 DEF RecordFinalized, Writable
  <2>4. CASE AppendFails(f)
    BY <2>2, <2>3, <2>4, AppendFailsKeeps, UnansweredKeeps
  <2>5. CASE ~ AppendFails(f)
    BY <2>1, <2>3, <2>5, CompactedKeeps DEF RecordFinalized, HasSpace
  <2> QED BY <2>4, <2>5
<1>7. CASE Exit
  <2>1. Sound(file, synced, shadow, FALSE, mem, released)
    BY DEF IInv, Sound
  <2> QED BY <1>7, <2>1, UnansweredKeeps DEF Exit, IInv
<1>8. CASE PowerLoss
  BY <1>8, PowerLossKeeps, UnansweredKeeps DEF PowerLoss
<1>9. CASE Load
  BY <1>9, LoadKeeps
<1>10. CASE UNCHANGED vars
  BY <1>10, UnansweredKeeps DEF vars, IInv
<1> QED BY <1>3, <1>4, <1>5, <1>6, <1>7, <1>8, <1>9, <1>10 DEF Next

LEMMA Invariance == Spec => []IInv
<1>1. IInv /\ [Next]_vars => IInv'
  BY StepKeeps
<1> QED BY InitSound, <1>1, PTL DEF Spec

-----------------------------------------------------------------------------
(* The theorems.                                                           *)

(* The file is a sequence of records that Load will take, and memory and   *)
(* the votes given out are of their types.                                 *)
THEOREM TypeCorrect == Spec => []TypeOK
<1>1. IInv => TypeOK
  BY DEF IInv, Sound, Promised, Files, TypeOK
<1> QED BY <1>1, Invariance, PTL

(* No two signatures for one height, round and step are ever given out for *)
(* different values, whatever fails.                                       *)
THEOREM NeverEquivocatesHolds == Spec => []NeverEquivocates
<1>1. IInv => NeverEquivocates
  BY DEF IInv, Sound, Promised, NeverEquivocates
<1> QED BY <1>1, Invariance, PTL

(* What the power leaves of the file can always be read.                   *)
THEOREM ReopenableHolds == Spec => []Reopenable
<1>1. IInv => Reopenable
  <2> SUFFICES ASSUME IInv, NEW image \in CrashImages
               PROVE  Replay(Complete(image)) # Corrupt
    BY DEF Reopenable
  <2>1. Recoverable(image, mem, released)
    BY DEF IInv, Sound, CrashImages, ImagesOf
  <2> QED BY <2>1, ReplayType DEF Recoverable
<1> QED BY <1>1, Invariance, PTL

(* An open journal's memory is what its file says, all of it flushed.      *)
THEOREM MemoryIsReplayHolds == Spec => []MemoryIsReplay
<1>1. IInv => MemoryIsReplay
  BY DEF IInv, Sound, Usable, MemoryIsReplay
<1> QED BY <1>1, Invariance, PTL

(* Nothing that was answered is lost, but for what became final.           *)
LEMMA FoundKeeps ==
  ASSUME NEW m, NEW votes, Promised(m, votes), NEW n, Found(m, votes, n)
  PROVE  /\ n.final = m.final \/ n.final.height > m.final.height
         /\ \A v \in votes : v.height > n.final.height => v \in n.votes
         /\ \A l \in m.locks : l.height > n.final.height =>
              \E k \in n.locks : k.height = l.height /\ (k = l \/ k.round > l.round)
         /\ \A p \in m.proofs : p.height > n.final.height =>
              \E q \in n.proofs :
                /\ q.height = p.height
                /\ q.round > p.round \/ (q.value = p.value /\ q.signers >= p.signers)
<1> DEFINE K == Live(m)
           L == Live(n)
<1>1. m \in Memory /\ n \in Memory
  BY DEF Promised, Found
<1>2. \A v \in votes : v.height > n.final.height => v \in n.votes
  BY PromisedFound DEF Promised
<1>3. /\ K.locks = {l \in m.locks : l.height > m.final.height}
      /\ K.proofs = {p \in m.proofs : p.height > m.final.height}
      /\ K.final = m.final
      /\ L.locks = {l \in n.locks : l.height > n.final.height}
      /\ L.proofs = {p \in n.proofs : p.height > n.final.height}
      /\ L.final = n.final
  BY <1>1, LiveFields
<1>4. /\ \A l \in m.locks : l.height \in Nat /\ l.round \in Nat
      /\ \A p \in m.proofs : p.height \in Nat /\ p.round \in Nat /\ p.signers \in Nat
      /\ m.final.height \in Nat /\ n.final.height \in Nat
  BY <1>1, MemoryFields, RecordFields
<1>5. CASE Live(n) = Live(m)
  <2>1. n.final = m.final /\ L.locks = K.locks /\ L.proofs = K.proofs
    BY <1>3, <1>5
  <2> HIDE DEF K, L
  <2>2. \A l \in m.locks : l.height > n.final.height => l \in n.locks
    BY <1>3, <2>1
  <2>3. \A p \in m.proofs : p.height > n.final.height => p \in n.proofs
    BY <1>3, <2>1
  <2> QED BY <1>2, <1>4, <2>1, <2>2, <2>3
<1>6. ASSUME NEW r \in Records, OneMore(m, votes, r, n)
      PROVE  /\ n.final = m.final \/ n.final.height > m.final.height
             /\ \A l \in m.locks : l.height > n.final.height =>
                  \E k \in n.locks : k.height = l.height /\ (k = l \/ k.round > l.round)
             /\ \A p \in m.proofs : p.height > n.final.height =>
                  \E q \in n.proofs :
                    /\ q.height = p.height
                    /\ q.round > p.round \/ (q.value = p.value /\ q.signers >= p.signers)
  <2>1. /\ r.height > m.final.height /\ r.height \in Nat
        /\ r.kind = "lock" => r.round \in Nat /\
             \A k \in m.locks : k.height = r.height => k.round < r.round
        /\ r.kind = "proof" => r.round \in Nat /\ r.signers \in Nat /\
             \A q \in m.proofs : q.height = r.height =>
               \/ q.round < r.round
               \/ q.round = r.round /\ q.value = r.value /\ q.signers < r.signers
    BY <1>1, <1>6, WritableByKind, RecordsByKind, RecordFields DEF OneMore
  <2>2. /\ r.kind # "final" => L.final = K.final
        /\ r.kind = "final" => L.final = r
    BY <1>1, <1>6, <2>1, LiveNoted, RecordsByKind DEF OneMore
  <2>3. /\ r.kind \in {"vote", "proof"} => L.locks = K.locks
        /\ r.kind = "lock" => L.locks = {k \in K.locks : k.height # r.height} \cup {r}
        /\ r.kind = "final" => L.locks = {k \in K.locks : k.height > r.height}
    BY <1>1, <1>6, <2>1, LiveNoted DEF OneMore
  <2>4. /\ r.kind \in {"vote", "lock"} => L.proofs = K.proofs
        /\ r.kind = "proof" => L.proofs = {q \in K.proofs : q.height # r.height} \cup {r}
        /\ r.kind = "final" => L.proofs = {q \in K.proofs : q.height > r.height}
    BY <1>1, <1>6, <2>1, LiveNoted DEF OneMore
  <2> HIDE DEF K, L
  <2>5. n.final = m.final \/ n.final.height > m.final.height
    BY <1>3, <2>1, <2>2
  <2>6. r.kind \in {"vote", "lock", "proof", "final"}
    BY RecordsByKind
  <2>7. ASSUME NEW l \in m.locks, l.height > n.final.height
        PROVE  \E k \in n.locks : k.height = l.height /\ (k = l \/ k.round > l.round)
    <3>1. l \in K.locks
      BY <1>3, <1>4, <2>5, <2>7
    <3>2. CASE r.kind = "lock" /\ l.height = r.height
      <4>1. r \in n.locks /\ r.round > l.round
        BY <1>3, <1>4, <2>1, <2>3, <3>2
      <4> QED BY <3>2, <4>1
    <3>3. CASE ~ (r.kind = "lock" /\ l.height = r.height)
      <4>1. r.kind = "final" => l.height > r.height
        BY <1>3, <2>2, <2>7
      <4>2. l \in L.locks
        BY <2>3, <2>6, <3>1, <3>3, <4>1
      <4> QED BY <1>3, <4>2
    <3> QED BY <3>2, <3>3
  <2>8. ASSUME NEW p \in m.proofs, p.height > n.final.height
        PROVE  \E q \in n.proofs :
                 /\ q.height = p.height
                 /\ q.round > p.round \/ (q.value = p.value /\ q.signers >= p.signers)
    <3>1. p \in K.proofs
      BY <1>3, <1>4, <2>5, <2>8
    <3>2. CASE r.kind = "proof" /\ p.height = r.height
      <4>1. /\ r \in n.proofs
            /\ r.round > p.round \/ (r.value = p.value /\ r.signers >= p.signers)
        BY <1>3, <1>4, <2>1, <2>4, <3>2
      <4> QED BY <3>2, <4>1
    <3>3. CASE ~ (r.kind = "proof" /\ p.height = r.height)
      <4>1. r.kind = "final" => p.height > r.height
        BY <1>3, <2>2, <2>8
      <4>2. p \in L.proofs
        BY <2>4, <2>6, <3>1, <3>3, <4>1
      <4> QED BY <1>3, <1>4, <4>2
    <3> QED BY <3>2, <3>3
  <2> QED BY <2>5, <2>7, <2>8
<1> QED BY <1>2, <1>5, <1>6 DEF Found

(* Any file found after a crash still holds every answer of an open        *)
(* height, or a later one of its kind.                                     *)
THEOREM NothingLostHolds == Spec => []NothingLost
<1>1. IInv => NothingLost
  <2> SUFFICES ASSUME IInv, NEW image \in CrashImages
               PROVE  Found(mem, released, Replay(Complete(image))) /\ Promised(mem, released)
    BY FoundKeeps DEF NothingLost
  <2> QED BY DEF IInv, Sound, CrashImages, ImagesOf, Recoverable
<1> QED BY <1>1, Invariance, PTL

(* Every step is a step of the atomic log, or changes none of its answers. *)
LEMMA LogStep ==
  ASSUME Promised(mem, released), Found(mem, released, mem'),
         released' = released \cup mem'.votes
  PROVE  [SigningLog!Next]_(SigningLog!vars)
<1> DEFINE K == Live(mem)
           L == Live(mem')
<1>1. mem \in Memory /\ mem' \in Memory /\ K.final = mem.final /\ L.final = mem'.final
  BY LiveFields DEF Promised, Found
<1>2. CASE L = K /\ mem'.votes \subseteq released
  <2>1. released' = released /\ mem'.final = mem.final
    BY <1>1, <1>2
  <2> QED BY <1>2, <2>1 DEF SigningLog!vars
<1>3. ASSUME NEW r \in Records, OneMore(mem, released, r, mem')
      PROVE  SigningLog!Next
  <2>1. /\ Writable(mem, r) /\ r.height > mem.final.height
        /\ L = Live(Noted(mem, r))
    BY <1>1, <1>3, WritableByKind DEF OneMore
  <2>2. released' = IF r.kind = "vote" THEN released \cup {r} ELSE released
    BY <1>1, <1>3, PromisedStep
  <2>3. CASE r.kind = "vote"
    <3>1. L.locks = K.locks /\ L.proofs = K.proofs /\ mem'.final = mem.final
      BY <1>1, <2>1, <2>3, LiveNoted
    <3>2. \A w \in released :
            ~ (w.height = r.height /\ w.round = r.round /\ w.step = r.step)
      <4> SUFFICES ASSUME NEW w \in released, w.height = r.height, w.round = r.round,
                          w.step = r.step
                   PROVE  FALSE
        OBVIOUS
      <4>1. w \in mem.votes
        BY <2>1 DEF Promised
      <4>2. VoteKey(w) = VoteKey(r)
        BY DEF VoteKey
      <4> QED BY <1>1, <2>1, <2>3, <4>1, <4>2, WritableByKind
    <3>3. r \in VoteRecords /\ SigningLog!Sign(r)
      BY <2>1, <2>2, <2>3, <3>1, <3>2, RecordsByKind DEF SigningLog!Sign
    <3> QED BY <3>3 DEF SigningLog!Next
  <2>4. CASE r.kind = "lock"
    <3>1. /\ L.locks = {k \in K.locks : k.height # r.height} \cup {r}
          /\ L.proofs = K.proofs /\ mem'.final = mem.final /\ released' = released
      BY <1>1, <2>1, <2>2, <2>4, LiveNoted
    <3>2. \A k \in K.locks : k.height = r.height => k.round < r.round
      BY <1>1, <2>1, <2>4, WritableByKind, LiveFields
    <3>3. r \in LockRecords /\ SigningLog!Lock(r)
      BY <2>1, <2>4, <3>1, <3>2, RecordsByKind DEF SigningLog!Lock
    <3> QED BY <3>3 DEF SigningLog!Next
  <2>5. CASE r.kind = "proof"
    <3>1. /\ L.proofs = {q \in K.proofs : q.height # r.height} \cup {r}
          /\ L.locks = K.locks /\ mem'.final = mem.final /\ released' = released
      BY <1>1, <2>1, <2>2, <2>5, LiveNoted
    <3>2. \A q \in K.proofs : q.height = r.height =>
            \/ q.round < r.round
            \/ q.round = r.round /\ q.value = r.value /\ q.signers < r.signers
      BY <1>1, <2>1, <2>5, WritableByKind, LiveFields
    <3>3. r \in ProofRecords /\ SigningLog!Prove(r)
      BY <2>1, <2>5, <3>1, <3>2, RecordsByKind DEF SigningLog!Prove
    <3> QED BY <3>3 DEF SigningLog!Next
  <2>6. CASE r.kind = "final"
    <3>1. /\ L.locks = {k \in K.locks : k.height > r.height}
          /\ L.proofs = {q \in K.proofs : q.height > r.height}
          /\ mem'.final = r /\ released' = released
      BY <1>1, <2>1, <2>2, <2>6, LiveNoted
    <3>2. r \in FinalRecords /\ SigningLog!Finalize(r)
      BY <2>1, <2>6, <3>1, RecordsByKind DEF SigningLog!Finalize
    <3> QED BY <3>2 DEF SigningLog!Next
  <2> QED BY <2>3, <2>4, <2>5, <2>6, RecordsByKind
<1> QED BY <1>2, <1>3 DEF Found

(* The journal on a failing disk is an atomic log that never fails.        *)
THEOREM Refinement == Spec => ImplementsSigningLog
<1>1. Init => SigningLog!Init
  <2> SUFFICES ASSUME Init PROVE SigningLog!Init
    OBVIOUS
  <2>1. mem = Nothing /\ released = {} /\ Nothing \in Memory
    BY RecordFields DEF Init, Nothing, Memory
  <2>2. /\ Live(Nothing).locks = {} /\ Live(Nothing).proofs = {}
        /\ Nothing.final = NoFinal
    BY <2>1, LiveFields DEF Nothing
  <2> QED BY <2>1, <2>2 DEF SigningLog!Init
<1>2. IInv /\ [Next]_vars => [SigningLog!Next]_(SigningLog!vars)
  <2> SUFFICES ASSUME IInv, [Next]_vars PROVE [SigningLog!Next]_(SigningLog!vars)
    OBVIOUS
  <2>1. Promised(mem, released)
    BY DEF IInv, Sound
  <2> QED BY <2>1, StepKeeps, LogStep
<1> QED BY <1>1, <1>2, Invariance, PTL DEF Spec, ImplementsSigningLog, SigningLog!Spec
=============================================================================
