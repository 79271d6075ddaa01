---------------------------- MODULE PQMasternode ----------------------------
(***************************************************************************)
(* The rules of the PQ masternode registry (evo/pqmasternode.cpp), as      *)
(* operators on one registry state: who is mature, alive and next to be    *)
(* paid, what a transaction does and what its undo entry takes back, and   *)
(* who sits on the finality committee (pqanchors.cpp).  PQRegistry moves   *)
(* through a chain with them.                                              *)
(*                                                                         *)
(* A registry is a record with the five tables that the code keeps in      *)
(* EvoDB: record ('r'), owner (the reverse index, 'c', 'k' and 's' in      *)
(* one), undo ('u', by transaction), beats ('h') and paid ('w'), the last  *)
(* two by block, here by its height on the active chain.                   *)
(*                                                                         *)
(* Transactions and registrations are named by numbers, which compare as   *)
(* hashes do; a REGISTER transaction names its registration.  Payout       *)
(* addresses and amounts are left out, and so are signatures, except for   *)
(* the key that made the one that must fit the record.                     *)
(***************************************************************************)
EXTENDS Integers, Sequences, FiniteSets

CONSTANTS
  Txs,             \* transactions, by number
  Tx,              \* Tx[t]: what t does
  Wallet,          \* coins that exist from the start
  Keys, Services,
  CollateralKey,   \* CollateralKey[c]: the key that coin c pays to
  MaxHeight,       \* bounds the chain
  Confirmations,   \* MasternodeCollateralMinConf
  Window,          \* nPQServiceWindow
  MaxHeartbeats, MinMembers, MaxMembers,
  None

Coins == Wallet \cup Txs      \* t also names the collateral output of t
Heights == 1..MaxHeight

Properties ==
  ({"collateral"} \X Coins) \cup ({"key"} \X Keys) \cup ({"service"} \X Services)

Record == [collateral : Coins, collateralHeight : Heights, registered : Heights,
           owner : Keys, operator : Keys, service : Services \cup {None},
           sequence : Nat, lastPaid : Heights \cup {0}, revived : Heights \cup {0},
           lastHeartbeat : Heights \cup {0}, revoked : BOOLEAN]

\* A transaction says which of the collateral coins it spends, and then one of
\* the four operations, or none.
Operation ==
  [mode : {"REGISTER"}, spends : SUBSET Coins, collateral : Coins,
   owner : Keys, operator : Keys, service : Services \cup {None}]
  \cup [mode : {"UPDATE"}, spends : SUBSET Coins, registration : Txs,
        sequence : Nat, operator : Keys, signer : Keys]
  \cup [mode : {"SERVICE"}, spends : SUBSET Coins, registration : Txs,
        sequence : Nat, service : Services, signer : Keys]
  \cup [mode : {"REVOKE"}, spends : SUBSET Coins, registration : Txs,
        sequence : Nat, signer : Keys]
  \cup [mode : {"TRANSFER"}, spends : SUBSET Coins]

ASSUME RegistryAssumption ==
  /\ Txs \subseteq Nat
  /\ Wallet \cap Txs = {}
  /\ CollateralKey \in [Coins -> Keys]
  /\ Tx \in [Txs -> Operation]
  /\ MaxHeight \in Nat
  /\ Confirmations \in Nat
  /\ Window \in Nat
  /\ {MaxHeartbeats, MinMembers, MaxMembers} \subseteq Nat \ {0}
  /\ None \notin Record
  /\ None \notin Txs
  /\ None \notin Services

Larger(a, b) == IF a >= b THEN a ELSE b

PropertiesOf(r) ==
  {<<"collateral", r.collateral>>, <<"key", r.owner>>, <<"key", r.operator>>,
   <<"key", CollateralKey[r.collateral]>>}
  \cup (IF r.service = None THEN {} ELSE {<<"service", r.service>>})

Registered(R) == {id \in Txs : R.record[id] # None}

\* The undo tables hold the keys they were given.
Table(T, S) == T = [k \in DOMAIN T |-> T[k]] /\ DOMAIN T \subseteq S

RegistryOK(R) ==
  /\ R = [record |-> R.record, owner |-> R.owner, undo |-> R.undo,
          beats |-> R.beats, paid |-> R.paid]
  /\ R.record \in [Txs -> Record \cup {None}]
  /\ R.owner \in [Properties -> Txs \cup {None}]
  /\ Table(R.undo, Txs)
  /\ Table(R.beats, Heights)
  /\ Table(R.paid, Heights)

\* The reverse index says who has what, and nothing else.
IndexOf(R) ==
  \A p \in Properties, id \in Txs :
    R.owner[p] = id <=> R.record[id] # None /\ p \in PropertiesOf(R.record[id])

\* CEvoDB's Write and Erase.
Write(table, key, value) ==
  [k \in DOMAIN table \cup {key} |-> IF k = key THEN value ELSE table[k]]
Drop(table, key) == [k \in DOMAIN table \ {key} |-> table[k]]

Empty == [record |-> [id \in Txs |-> None],
          owner |-> [p \in Properties |-> None],
          undo |-> <<>>, beats |-> <<>>, paid |-> <<>>]
-----------------------------------------------------------------------------
(* Maturity, service evidence and the payment queue.                       *)
MatureAt(r, height) ==
  LET start == Larger(r.registered, r.collateralHeight)
  IN  /\ Confirmations # 0
      /\ start # 0
      /\ height >= start
      /\ height - start + 1 >= Confirmations

Recent(r, height) ==
  /\ ~ r.revoked
  /\ r.service # None
  /\ MatureAt(r, height)
  /\ r.lastHeartbeat # 0
  /\ r.lastHeartbeat < height
  /\ height - r.lastHeartbeat <= Window

(* Every network but the regression test runs with service evidence from   *)
(* the registry's first block on, so a registration's grace starts when it *)
(* registers.                                                              *)
Eligible(r, height, anyHeartbeat) ==
  \/ ~ anyHeartbeat
  \/ height >= r.registered /\ height - r.registered <= Window
  \/ Recent(r, height)

Candidates(R, height) ==
  LET anyHeartbeat == \E id \in Registered(R) : Recent(R.record[id], height)
  IN  {id \in Registered(R) :
         LET r == R.record[id]
         IN  /\ ~ r.revoked
             /\ r.service # None
             /\ MatureAt(r, height)
             /\ Eligible(r, height, anyHeartbeat)}

Age(r) ==
  LET effective == Larger(r.lastPaid, r.revived)
  IN  IF effective # 0 THEN effective ELSE r.registered

Before(R, a, b) ==
  \/ Age(R.record[a]) < Age(R.record[b])
  \/ Age(R.record[a]) = Age(R.record[b]) /\ a < b

\* None when nobody can be paid.
FindPayee(R, height) ==
  LET candidates == Candidates(R, height)
  IN  IF candidates = {} THEN None
      ELSE CHOOSE id \in candidates :
             \A other \in candidates \ {id} : Before(R, id, other)
-----------------------------------------------------------------------------
(* The reverse index follows every change of a record: Erase gives up what *)
(* the old records own and Put takes what the new ones need.  change maps  *)
(* the registrations concerned to their next record, or None.              *)
\* Variant: the properties given up are those of the next record.
ErasedByNext(R, change) ==
  UNION {PropertiesOf(change[id]) : id \in {i \in DOMAIN change : change[i] # None}}

Erased(R, change) ==
  UNION {PropertiesOf(R.record[id]) : id \in DOMAIN change \cap Registered(R)}

PutBy(change, p) == {id \in DOMAIN change : change[id] # None /\ p \in PropertiesOf(change[id])}

\* What Erase and Put make sure of; they throw otherwise.
CanReplace(R, change) ==
  /\ \A id \in DOMAIN change \cap Registered(R) :
       \A p \in PropertiesOf(R.record[id]) : R.owner[p] = id
  /\ \A p \in Properties :
       \A id \in PutBy(change, p) :
         /\ PutBy(change, p) = {id}
         /\ p \notin Erased(R, change) => R.owner[p] \in {None, id}

Replace(R, change) ==
  [record |-> [id \in Txs |-> IF id \in DOMAIN change THEN change[id] ELSE R.record[id]],
   owner |-> [p \in Properties |->
                IF PutBy(change, p) # {} THEN CHOOSE id \in Txs : id \in PutBy(change, p)
                ELSE IF p \in Erased(R, change) THEN None ELSE R.owner[p]],
   undo |-> R.undo, beats |-> R.beats, paid |-> R.paid]

(* An undo entry keeps, for every registration it changed, the record      *)
(* before and (the hash of) the record after.                              *)
UndoOf(R, change) ==
  [id \in DOMAIN change |-> [before |-> R.record[id], after |-> change[id]]]

Restoring(entry) == [id \in DOMAIN entry |-> entry[id].before]

\* The registry is where the entry left it.
Follows(R, entry) == \A id \in DOMAIN entry : R.record[id] = entry[id].after
-----------------------------------------------------------------------------
(* Payment: the winner of the parent state goes to the end of the queue.   *)
Nobody == [id \in {} |-> None]

Reward(R, height) ==
  LET id == FindPayee(R, height)
  IN  IF id = None THEN Nobody
      ELSE [i \in {id} |-> [R.record[i] EXCEPT !.lastPaid = height]]

Pay(R, height) ==
  LET change == Reward(R, height)
  IN  [Replace(R, change) EXCEPT !.paid = Write(@, height, UndoOf(R, change))]

CanUndoPayment(R, height) ==
  /\ height \in DOMAIN R.paid
  /\ Follows(R, R.paid[height])
  /\ CanReplace(R, Restoring(R.paid[height]))

UndoPayment(R, height) ==
  [Replace(R, Restoring(R.paid[height])) EXCEPT !.paid = Drop(@, height)]
-----------------------------------------------------------------------------
(* Heartbeats.  One names a registration, its sequence and a block of the  *)
(* chain; the parent of the block that carries it is the one it is checked *)
(* against.  A heartbeat for a block of another chain is refused and does  *)
(* nothing; here all of them are for the active chain.                     *)
CheckContext(beat, r, parent) ==
  /\ beat.height <= parent
  /\ parent - beat.height < Larger(1, Window \div 2)
  /\ ~ r.revoked
  /\ r.service # None
  /\ beat.sequence = r.sequence
  /\ beat.height > r.lastHeartbeat
  /\ MatureAt(r, beat.height)

Verify(R, beat, parent) ==
  /\ beat.registration \in Registered(R)
  /\ CheckContext(beat, R.record[beat.registration], parent)

\* One heartbeat per registration (Decode), all verified before any is taken.
CanBeat(R, batch, parent) ==
  /\ Cardinality(batch) <= MaxHeartbeats
  /\ \A a, b \in batch : a.registration = b.registration => a = b
  /\ \A beat \in batch : Verify(R, beat, parent)

Alive(R, batch) ==
  [id \in {beat.registration : beat \in batch} |->
     [R.record[id] EXCEPT !.lastHeartbeat =
        (CHOOSE beat \in batch : beat.registration = id).height]]

Beat(R, batch, height) ==
  LET change == Alive(R, batch)
  IN  [Replace(R, change) EXCEPT !.beats = Write(@, height, UndoOf(R, change))]

CanUndoBeat(R, height) ==
  /\ height \in DOMAIN R.beats
  /\ Follows(R, R.beats[height])
  /\ CanReplace(R, Restoring(R.beats[height]))

UndoBeat(R, height) ==
  [Replace(R, Restoring(R.beats[height])) EXCEPT !.beats = Drop(@, height)]
-----------------------------------------------------------------------------
(* Transactions.  coins gives the height of each coin in the view, or 0    *)
(* when there is no such coin; height is that of the block.                *)
Target(t) == IF Tx[t].mode = "REGISTER" THEN t ELSE Tx[t].registration

\* Variant: spending a collateral leaves its registration in place.
RemovedNone(R, t) == {}

\* The registrations whose collateral t spends.
Removed(R, t) == {R.owner[<<"collateral", c>>] : c \in Tx[t].spends} \ {None}

CanRegister(R, t, coins) ==
  /\ R.record[t] = None
  /\ Tx[t].collateral \notin Tx[t].spends
  /\ Tx[t].collateral # t => coins[Tx[t].collateral] # 0

NewRecord(t, coins, height) ==
  [collateral |-> Tx[t].collateral,
   collateralHeight |-> IF Tx[t].collateral = t THEN height ELSE coins[Tx[t].collateral],
   registered |-> height,
   owner |-> Tx[t].owner, operator |-> Tx[t].operator, service |-> Tx[t].service,
   sequence |-> 0, lastPaid |-> 0, revived |-> 0, lastHeartbeat |-> 0, revoked |-> FALSE]

\* The record must be there, keep its collateral and expect this sequence.
CanChange(R, t, coins) ==
  LET id == Tx[t].registration
  IN  /\ id \in Registered(R) \ Removed(R, t)
      /\ coins[R.record[id].collateral] # 0
      /\ coins[R.record[id].collateral] = R.record[id].collateralHeight
      /\ Tx[t].sequence = R.record[id].sequence + 1

\* Variant: the operator's last heartbeat stays with the new sequence.
NextSequenceStillAlive(r, t) == [r EXCEPT !.sequence = Tx[t].sequence]

NextSequence(r, t) == [r EXCEPT !.sequence = Tx[t].sequence, !.lastHeartbeat = 0]

\* A new operator starts without a service and is not revoked.
Updated(r, t) ==
  IF Tx[t].operator = r.operator THEN NextSequence(r, t)
  ELSE [NextSequence(r, t) EXCEPT !.operator = Tx[t].operator, !.service = None,
                                  !.revoked = FALSE]

\* Variant: a service that comes back keeps its place in the payment queue.
ServedInPlace(r, t, height) == [NextSequence(r, t) EXCEPT !.service = Tx[t].service]

Served(r, t, height) ==
  [NextSequence(r, t) EXCEPT
     !.service = Tx[t].service,
     !.revived = IF r.service = None THEN height ELSE @]

Revoked(r, t) == [NextSequence(r, t) EXCEPT !.revoked = TRUE, !.service = None]

Replacement(R, t, coins, height) ==
  LET r == R.record[Tx[t].registration]
  IN  CASE Tx[t].mode = "REGISTER" -> NewRecord(t, coins, height)
        [] Tx[t].mode = "UPDATE" -> Updated(r, t)
        [] Tx[t].mode = "SERVICE" -> Served(r, t, height)
        [] Tx[t].mode = "REVOKE" -> Revoked(r, t)

\* Who may ask for the change, and in which state of the registration.
Authorised(R, t) ==
  LET r == R.record[Tx[t].registration]
  IN  CASE Tx[t].mode = "UPDATE" -> Tx[t].signer = r.owner
        [] OTHER -> ~ r.revoked /\ Tx[t].signer = r.operator

DistinctKeys(r) ==
  /\ r.owner # r.operator
  /\ CollateralKey[r.collateral] \notin {r.owner, r.operator}

\* Nothing of the new record belongs to a registration that stays.
FreeProperties(R, t, r) ==
  \A p \in PropertiesOf(r) : R.owner[p] \in {None, Target(t)} \cup Removed(R, t)

Changes(R, t, coins, height) ==
  IF Tx[t].mode = "TRANSFER" THEN [id \in Removed(R, t) |-> None]
  ELSE [id \in Removed(R, t) \cup {Target(t)} |->
          IF id = Target(t) THEN Replacement(R, t, coins, height) ELSE None]

CanApply(R, t, coins, height) ==
  /\ t \notin DOMAIN R.undo
  /\ \A c \in Tx[t].spends : coins[c] # 0
  /\ Tx[t].mode = "REGISTER" => CanRegister(R, t, coins)
  /\ Tx[t].mode \in {"UPDATE", "SERVICE", "REVOKE"} =>
       CanChange(R, t, coins) /\ Authorised(R, t)
  /\ Tx[t].mode # "TRANSFER" =>
       LET r == Replacement(R, t, coins, height)
       IN  DistinctKeys(r) /\ FreeProperties(R, t, r)

Apply(R, t, coins, height) ==
  LET change == Changes(R, t, coins, height)
  IN  [Replace(R, change) EXCEPT !.undo = Write(@, t, UndoOf(R, change))]

CanUndo(R, t) ==
  /\ t \in DOMAIN R.undo
  /\ Follows(R, R.undo[t])
  /\ \A id \in DOMAIN R.undo[t] :
       R.undo[t][id].before # None =>
         \A p \in PropertiesOf(R.undo[t][id].before) :
           R.owner[p] \in {None} \cup DOMAIN R.undo[t]
  /\ CanReplace(R, Restoring(R.undo[t]))

\* Variant: registrations the transaction displaced are not brought back.
UndoTargetOnly(R, t) ==
  [Replace(R, [id \in DOMAIN R.undo[t] \cap {t} |-> None]) EXCEPT !.undo = Drop(@, t)]

Undo(R, t) ==
  [Replace(R, Restoring(R.undo[t])) EXCEPT !.undo = Drop(@, t)]
-----------------------------------------------------------------------------
(* The finality committee of a registry state: the mature registrations in *)
(* service, with their operators' keys, or nobody when they are too few or *)
(* too many.                                                               *)
InService(R, height) ==
  {id \in Registered(R) : /\ ~ R.record[id].revoked
                          /\ R.record[id].service # None
                          /\ MatureAt(R.record[id], height)}

SelectCommittee(R, height) ==
  IF Cardinality(InService(R, height)) \in MinMembers..MaxMembers
  THEN {<<id, R.record[id].operator>> : id \in InService(R, height)}
  ELSE {}

BelowMinimum(R, height) == Cardinality(InService(R, height)) < MinMembers
=============================================================================
