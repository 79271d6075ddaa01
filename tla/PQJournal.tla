----------------------------- MODULE PQJournal -----------------------------
(***************************************************************************)
(* The anti-equivocation journal of src/pqjournal.cpp over a file system   *)
(* that may fail, and a machine that may lose power, at any point.         *)
(*                                                                         *)
(* The code's mutex makes each operation atomic for its callers, and an    *)
(* operation that fails poisons the journal, after which nothing answers   *)
(* until it is loaded again.  So a step here is a whole operation, with    *)
(* one outcome per place where it can fail; dying at such a place is that  *)
(* outcome followed by Exit or PowerLoss.                                  *)
(*                                                                         *)
(* A successful fsync is taken to make all that was written durable.  The  *)
(* record hash chain detects damage the file system did on its own and is  *)
(* left out.  A record's `value' stands for the value, anchor and          *)
(* committee a vote or proof binds.                                        *)
(***************************************************************************)
EXTENDS Integers, Sequences, FiniteSets, SequencesExt

CONSTANTS
  Heights,      \* block heights, from 1
  Rounds,
  Steps,        \* PREVOTE and PRECOMMIT, as the code numbers them
  Values,       \* values a record may hold
  Nil,          \* the null value, one of Values
  Signers,      \* sizes of the signer set of a proof
  MaxRecords,   \* MAX_FILE_SIZE, counted in records
  Corrupt,      \* what replaying a damaged file returns
  NoShadow

VoteRecords ==
  [kind : {"vote"}, height : Heights, round : Rounds, step : Steps, value : Values]
LockRecords == [kind : {"lock"}, height : Heights, round : Rounds, value : Values]
ProofRecords ==
  [kind : {"proof"}, height : Heights, round : Rounds, value : Values, signers : Signers]
FinalRecords == [kind : {"final"}, height : Heights, value : Values \ {Nil}]
Torn == [kind |-> "torn"]   \* the first bytes of a record

Records == VoteRecords \cup LockRecords \cup ProofRecords \cup FinalRecords

NoFinal == [kind |-> "final", height |-> 0, value |-> Nil]
Nothing == [votes |-> {}, locks |-> {}, proofs |-> {}, final |-> NoFinal]

Memory ==
  [votes : SUBSET VoteRecords, locks : SUBSET LockRecords,
   proofs : SUBSET ProofRecords, final : FinalRecords \cup {NoFinal}]

ASSUME JournalAssumption ==
  /\ Heights \subseteq Nat \ {0}
  /\ Rounds \subseteq Nat
  /\ Signers \subseteq Nat
  /\ Nil \in Values
  /\ MaxRecords \in Nat
  /\ Corrupt \notin Memory
  /\ NoShadow \notin Seq(Records)

VARIABLES
  file,      \* the file's records as the operating system would read them
  synced,    \* how many of them are certainly on the disk
  shadow,    \* the file the directory on disk may still name, or NoShadow
  open,      \* a journal object exists and is not poisoned
  mem,       \* its memory; while not open, what it last answered from
  released   \* history: every vote whose signature a caller could obtain

vars == <<file, synced, shadow, open, mem, released>>
-----------------------------------------------------------------------------
(* Which record may follow what is already there.  The operations and      *)
(* Replay make the same tests.                                             *)
VoteKey(v) == <<v.height, v.round, v.step>>

VoteAgrees(m, v) == \A w \in m.votes : VoteKey(w) = VoteKey(v) => w = v

LockAgrees(m, l) ==
  \A k \in m.locks : k.height = l.height => k.round < l.round \/ k = l

CheckProof(m, p) ==
  /\ p.height > m.final.height
  /\ \A q \in m.proofs : q.height = p.height =>
       q.round < p.round \/ (q.round = p.round /\ q.value = p.value)

Replayable(m, rec) ==
  CASE rec.kind = "vote"  -> VoteAgrees(m, rec)
    [] rec.kind = "lock"  -> LockAgrees(m, rec)
    [] rec.kind = "proof" -> CheckProof(m, rec)
    [] rec.kind = "final" -> rec.height > m.final.height
    [] rec.kind = "torn"  -> FALSE

Noted(m, rec) ==
  CASE rec.kind = "vote"  -> [m EXCEPT !.votes = @ \cup {rec}]
    [] rec.kind = "lock"  -> [m EXCEPT !.locks = {k \in @ : k.height # rec.height} \cup {rec}]
    [] rec.kind = "proof" -> [m EXCEPT !.proofs = {q \in @ : q.height # rec.height} \cup {rec}]
    [] rec.kind = "final" -> [m EXCEPT !.final = rec]

(* What the code's maps hold at the end of a file: the last lock and the   *)
(* last proof of each height, and the last final record.                   *)
Newest(records, kind) ==
  {records[i] : i \in {i \in DOMAIN records :
     /\ records[i].kind = kind
     /\ \A j \in (i + 1)..Len(records) :
          records[j].kind = kind => records[j].height # records[i].height}}

Contents(records) ==
  LET finals == {i \in DOMAIN records : records[i].kind = "final"}
  IN  [votes  |-> {r \in ToSet(records) : r.kind = "vote"},
       locks  |-> Newest(records, "lock"),
       proofs |-> Newest(records, "proof"),
       final  |-> IF finals = {} THEN NoFinal ELSE records[Max(finals)]]

\* Each record is tested against what those before it left.
Readable(records) ==
  \A i \in DOMAIN records : Replayable(Contents(SubSeq(records, 1, i - 1)), records[i])

(* Votes and locks of final heights stay in memory until a compaction;     *)
(* only proofs are dropped here.                                           *)
Replay(records) ==
  LET m == Contents(records)
  IN  IF Readable(records)
      THEN [m EXCEPT !.proofs = {q \in @ : q.height > m.final.height}]
      ELSE Corrupt

\* Opening cuts off a partial record at the end.
Complete(records) ==
  IF records # <<>> /\ Last(records) = Torn THEN Front(records) ELSE records

(* RecordFinalized drops what can never be voted again, and Compact writes *)
(* what remains.  The order of the code's maps is left out: Replay does    *)
(* not depend on it.                                                       *)
\* Variant: the height after the final one is dropped too.
LiveAboveNext(m) ==
  LET above(S) == {r \in S : r.height > m.final.height + 1}
  IN  [m EXCEPT !.votes = above(@), !.locks = above(@), !.proofs = above(@)]

Live(m) ==
  LET above(S) == {r \in S : r.height > m.final.height}
  IN  [m EXCEPT !.votes = above(@), !.locks = above(@), !.proofs = above(@)]

\* Variant: proofs are not carried over.
CompactedWithoutProofs(m) == <<m.final>> \o SetToSeq(m.votes \cup m.locks)

Compacted(m) == <<m.final>> \o SetToSeq(m.votes \cup m.locks \cup m.proofs)
-----------------------------------------------------------------------------
Init ==
  /\ file = <<>>
  /\ synced = 0
  /\ shadow = NoShadow
  /\ open = TRUE
  /\ mem = Nothing
  /\ released = {}

Remember(m) == mem' = m /\ released' = released \cup m.votes

\* Variant: a failed operation leaves the journal in use.
GoOn == UNCHANGED <<open, mem, released>>

Poison == open' = FALSE /\ UNCHANGED <<mem, released>>

\* Variant: the record's own size is not counted.
HasSpaceBefore == Len(file) <= MaxRecords

HasSpace == Len(file) < MaxRecords

AppendRecord(rec) ==
  /\ HasSpace
  /\ file' = Append(file, rec)
  /\ synced' = Len(file')
  /\ UNCHANGED <<shadow, open>>

(* No space, or a write that fails after none, some or all of the record,  *)
(* or a flush that fails: the journal is poisoned either way.              *)
AppendFails(rec) ==
  /\ Poison
  /\ \/ file' = file
     \/ HasSpace /\ file' \in {Append(file, Torn), Append(file, rec)}
  /\ UNCHANGED <<synced, shadow>>

Appended(rec) ==
  \/ AppendRecord(rec) /\ Remember(Noted(mem, rec))
  \/ AppendFails(rec)

(* The signer is asked only for a vote that is not in memory; one that is  *)
(* there is answered with its stored signature, or refused.                *)
GetOrSignVote(v) ==
  /\ open
  /\ v.height > mem.final.height
  /\ VoteKey(v) \notin {VoteKey(w) : w \in mem.votes}
  /\ Appended(v)

RecordLock(l) ==
  /\ open
  /\ l.height > mem.final.height
  /\ LockAgrees(mem, l)
  /\ l \notin mem.locks
  /\ Appended(l)

RecordProof(p) ==
  /\ open
  /\ CheckProof(mem, p)
  /\ \A q \in mem.proofs :
       q.height = p.height /\ q.round = p.round => q.signers < p.signers
  /\ Appended(p)

(* The final record is durable before the compaction starts.  The          *)
(* compacted file is durable before it replaces the old one, and names     *)
(* stay with the old one until the directory is flushed.                   *)
Compact(old, new, m) ==
  \/ /\ file' = old                    \* failed before the rename
     /\ UNCHANGED shadow
     /\ Poison
  \/ /\ file' = new                    \* renamed, directory not flushed
     /\ shadow' = old
     /\ Poison
  \/ /\ file' = new                    \* not reopened for appending
     /\ UNCHANGED shadow
     /\ Poison
  \/ /\ file' = new
     /\ Remember(m)
     /\ UNCHANGED <<shadow, open>>

RecordFinalized(f) ==
  /\ open
  /\ f.height > mem.final.height
  /\ \/ AppendFails(f)
     \/ /\ HasSpace
        /\ LET kept == Live(Noted(mem, f))
           IN  Compact(Append(file, f), Compacted(kept), kept)
        /\ synced' = Len(file')

Exit ==
  /\ open
  /\ open' = FALSE
  /\ UNCHANGED <<file, synced, shadow, mem, released>>

(* What a power loss may leave: the flushed records, perhaps some later    *)
(* ones, perhaps a partial one; or the file the directory still names.     *)
CrashImages ==
  LET whole == {SubSeq(file, 1, n) : n \in synced..Len(file)}
      cut == {Append(s, Torn) : s \in whole \ {file}}
  IN  whole \cup cut \cup ({shadow} \ {NoShadow})

PowerLoss ==
  /\ file' \in CrashImages
  /\ synced' = Len(file')
  /\ shadow' = NoShadow
  /\ open' = FALSE
  /\ UNCHANGED <<mem, released>>

(* The directory is flushed first.  A damaged file, or a failure to        *)
(* truncate or flush, leaves the journal closed; the disk may then hold    *)
(* the file as it was.                                                     *)
\* Variant: the directory is not flushed.
LoadWithoutDirectory ==
  /\ ~open
  /\ LET m == Replay(Complete(file))
     IN  /\ m # Corrupt
         /\ file' = Complete(file)
         /\ synced' = Len(file')
         /\ open' = TRUE
         /\ Remember(m)
  /\ UNCHANGED shadow

\* Variant: what a failed flush left in the cache is not flushed.
LoadWithoutFlush ==
  /\ ~open
  /\ shadow' = NoShadow
  /\ LET m == Replay(Complete(file))
     IN  /\ m # Corrupt
         /\ file' = Complete(file)
         /\ synced' = IF synced > Len(file') THEN Len(file') ELSE synced
         /\ open' = TRUE
         /\ Remember(m)

Load ==
  /\ ~open
  /\ shadow' = NoShadow
  /\ LET m == Replay(Complete(file))
     IN  \/ UNCHANGED <<file, synced, open, mem, released>>
         \/ /\ m # Corrupt
            /\ Len(file) <= MaxRecords
            /\ file' = Complete(file)
            /\ synced' = Len(file')
            /\ open' = TRUE
            /\ Remember(m)

Next ==
  \/ \E v \in VoteRecords : GetOrSignVote(v)
  \/ \E l \in LockRecords : RecordLock(l)
  \/ \E p \in ProofRecords : RecordProof(p)
  \/ \E f \in FinalRecords : RecordFinalized(f)
  \/ Exit
  \/ PowerLoss
  \/ Load

Spec == Init /\ [][Next]_vars
-----------------------------------------------------------------------------
(* Types of the file, of memory and of the history; the file never         *)
(* outgrows the size above which Load refuses it.                          *)
TypeOK ==
  /\ file \in Seq(Records \cup {Torn})
  /\ Len(file) <= MaxRecords
  /\ synced \in 0..Len(file)
  /\ shadow = NoShadow \/ shadow \in Seq(Records)
  /\ open \in BOOLEAN
  /\ mem \in Memory
  /\ released \subseteq VoteRecords

(* The journal's purpose: whatever fails and whenever the machine stops,   *)
(* no two signatures for one height, round and step with different values  *)
(* can ever be obtained from it.                                           *)
NeverEquivocates ==
  \A v, w \in released : VoteKey(v) = VoteKey(w) => v = w

(* No failure or power loss of its own leaves a file that Load refuses as  *)
(* corrupt: the identity can always go on with its history.                *)
Reopenable ==
  \A image \in CrashImages : Replay(Complete(image)) # Corrupt

(* Any file that may be found later still holds all that was answered      *)
(* before, unless a higher height became final: the votes, each lock or a  *)
(* later one of its height, each proof or a better one.                    *)
NothingLost ==
  \A image \in CrashImages :
    LET m == Replay(Complete(image))
    IN  m # Corrupt =>
          /\ m.final = mem.final \/ m.final.height > mem.final.height
          /\ \A v \in released : v.height > m.final.height => v \in m.votes
          /\ \A l \in mem.locks : l.height > m.final.height =>
               \E k \in m.locks : k.height = l.height /\ (k = l \/ k.round > l.round)
          /\ \A p \in mem.proofs : p.height > m.final.height =>
               \E q \in m.proofs :
                 /\ q.height = p.height
                 /\ q.round > p.round \/ (q.value = p.value /\ q.signers >= p.signers)

(* An open journal answers from memory what a reader of its file would     *)
(* compute, and no partial record is left in front of the next append.     *)
MemoryIsReplay == open => synced = Len(file) /\ Replay(file) = mem

(* The journal is an atomic log that never fails: after each operation,    *)
(* however it ended, and after each reopening, its last answers are those  *)
(* of PQSigningLog.                                                        *)
SigningLog ==
  INSTANCE PQSigningLog WITH
    signed <- released, locks <- Live(mem).locks, proofs <- Live(mem).proofs,
    final <- mem.final

ImplementsSigningLog == SigningLog!Spec
=============================================================================
