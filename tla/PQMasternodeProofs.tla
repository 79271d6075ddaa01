------------------------- MODULE PQMasternodeProofs -------------------------
(***************************************************************************)
(* What Erase, Put and the undo entries of the registry guarantee, for     *)
(* every set of transactions, coins, keys and services.                    *)
(***************************************************************************)
EXTENDS PQMasternode, WellFoundedInduction, TLAPS

Sound(R) == RegistryOK(R) /\ IndexOf(R)

\* What an operation does to some registrations.
Change(change) ==
  /\ DOMAIN change \subseteq Txs
  /\ \A id \in DOMAIN change : change[id] \in Record \cup {None}

LEMMA PropertiesTyped ==
  ASSUME NEW r \in Record
  PROVE  PropertiesOf(r) \subseteq Properties
<1>1. CollateralKey \in [Coins -> Keys]
  BY RegistryAssumption
<1> QED BY <1>1 DEF Record, PropertiesOf, Properties

LEMMA ReplaceTyped ==
  ASSUME NEW R, RegistryOK(R), NEW change, Change(change)
  PROVE  /\ RegistryOK(Replace(R, change))
         /\ \A id \in Txs : Replace(R, change).record[id] =
              IF id \in DOMAIN change THEN change[id] ELSE R.record[id]
         /\ Replace(R, change).undo = R.undo
         /\ Replace(R, change).beats = R.beats
         /\ Replace(R, change).paid = R.paid
<1> DEFINE Q == Replace(R, change)
           record == [id \in Txs |-> IF id \in DOMAIN change THEN change[id] ELSE R.record[id]]
           owner == [p \in Properties |->
                  IF PutBy(change, p) # {} THEN CHOOSE id \in Txs : id \in PutBy(change, p)
                  ELSE IF p \in Erased(R, change) THEN None ELSE R.owner[p]]
<1>1. Q = [record |-> record, owner |-> owner, undo |-> R.undo,
           beats |-> R.beats, paid |-> R.paid]
  BY DEF Replace
<1>2. \A p \in Properties : owner[p] \in Txs \cup {None}
  <2> SUFFICES ASSUME NEW p \in Properties PROVE owner[p] \in Txs \cup {None}
    OBVIOUS
  <2>1. CASE PutBy(change, p) # {}
    <3>1. PutBy(change, p) \subseteq Txs
      BY DEF PutBy, Change
    <3>2. (CHOOSE id \in Txs : id \in PutBy(change, p)) \in Txs
      BY <2>1, <3>1
    <3> QED BY <2>1, <3>2
  <2>2. CASE PutBy(change, p) = {}
    <3>1. R.owner[p] \in Txs \cup {None}
      BY DEF RegistryOK
    <3> QED BY <2>2, <3>1
  <2> QED BY <2>1, <2>2
<1>3. owner \in [Properties -> Txs \cup {None}]
  BY <1>2
<1> HIDE DEF owner
<1>4. record \in [Txs -> Record \cup {None}]
  BY DEF RegistryOK, Change
<1>5. RegistryOK(Q)
  <2>1. /\ Q.record = record /\ Q.owner = owner /\ Q.undo = R.undo
        /\ Q.beats = R.beats /\ Q.paid = R.paid
    BY <1>1
  <2> HIDE DEF record, Q
  <2> QED BY <1>1, <1>3, <1>4, <2>1 DEF RegistryOK
<1> QED BY <1>1, <1>5

(* Replace keeps the reverse index exact.                                  *)
LEMMA ReplaceIndex ==
  ASSUME NEW R, Sound(R), NEW change, Change(change), CanReplace(R, change)
  PROVE  IndexOf(Replace(R, change))
<1> DEFINE Q == Replace(R, change)
<1>1. \A id \in Txs : Q.record[id] = IF id \in DOMAIN change THEN change[id] ELSE R.record[id]
  BY ReplaceTyped DEF Sound
<1>2. \A p \in Properties : Q.owner[p] =
         IF PutBy(change, p) # {} THEN CHOOSE id \in Txs : id \in PutBy(change, p)
         ELSE IF p \in Erased(R, change) THEN None ELSE R.owner[p]
  BY DEF Replace, Sound, RegistryOK
<1>3. None \notin Txs
  BY RegistryAssumption
<1>4. \A p \in Properties, id \in Txs : p \in Erased(R, change) /\ R.owner[p] = id => id \in DOMAIN change
  <2> SUFFICES ASSUME NEW p \in Properties, NEW id \in Txs, p \in Erased(R, change), R.owner[p] = id
               PROVE  id \in DOMAIN change
    OBVIOUS
  <2>1. PICK k \in DOMAIN change \cap Registered(R) : p \in PropertiesOf(R.record[k])
    BY DEF Erased
  <2>2. R.owner[p] = k
    BY <2>1 DEF Sound, IndexOf, Registered
  <2> QED BY <2>1, <2>2
<1> HIDE DEF Q
<1> SUFFICES ASSUME NEW p \in Properties, NEW id \in Txs
             PROVE  Q.owner[p] = id <=> Q.record[id] # None /\ p \in PropertiesOf(Q.record[id])
  BY DEF IndexOf, Q
<1>5. R.owner[p] = id <=> R.record[id] # None /\ p \in PropertiesOf(R.record[id])
  BY DEF Sound, IndexOf
<1>6. CASE PutBy(change, p) # {}
  <2>1. PICK k \in Txs : k \in PutBy(change, p)
    BY <1>6 DEF PutBy, Change
  <2>2. PutBy(change, p) = {k} /\ (p \notin Erased(R, change) => R.owner[p] \in {None, k})
    BY <2>1 DEF CanReplace
  <2>3. Q.owner[p] = k
    BY <1>2, <2>1, <2>2
  <2>4. CASE id \in DOMAIN change
    BY <1>1, <2>2, <2>3, <2>4 DEF PutBy
  <2>5. CASE id \notin DOMAIN change
    <3>1. id # k
      BY <2>1, <2>5 DEF PutBy
    <3>2. R.owner[p] # id
      BY <1>3, <1>4, <2>2, <2>5, <3>1
    <3> QED BY <1>1, <1>5, <2>3, <2>5, <3>1, <3>2
  <2> QED BY <2>4, <2>5
<1>7. CASE PutBy(change, p) = {} /\ p \in Erased(R, change)
  <2>1. Q.owner[p] = None
    BY <1>2, <1>7
  <2>2. CASE id \in DOMAIN change
    BY <1>1, <1>3, <1>7, <2>1, <2>2 DEF PutBy
  <2>3. CASE id \notin DOMAIN change
    BY <1>1, <1>3, <1>4, <1>5, <1>7, <2>1, <2>3
  <2> QED BY <2>2, <2>3
<1>8. CASE PutBy(change, p) = {} /\ p \notin Erased(R, change)
  <2>1. Q.owner[p] = R.owner[p]
    BY <1>2, <1>8
  <2>2. CASE id \in DOMAIN change
    <3>1. R.owner[p] # id
      BY <1>5, <1>8, <2>2 DEF Erased, Registered
    <3> QED BY <1>1, <1>8, <2>1, <2>2, <3>1 DEF PutBy
  <2>3. CASE id \notin DOMAIN change
    BY <1>1, <1>5, <2>1, <2>3
  <2> QED BY <2>2, <2>3
<1> QED BY <1>6, <1>7, <1>8

(* The records determine the reverse index.                                *)
LEMMA IndexDetermined ==
  ASSUME NEW R, NEW Q, Sound(R), Sound(Q), R.record = Q.record
  PROVE  R.owner = Q.owner
<1>1. None \notin Txs
  BY RegistryAssumption
<1>2. \A p \in Properties : R.owner[p] = Q.owner[p]
  <2> SUFFICES ASSUME NEW p \in Properties PROVE R.owner[p] = Q.owner[p]
    OBVIOUS
  <2>1. R.owner[p] \in Txs \cup {None} /\ Q.owner[p] \in Txs \cup {None}
    BY DEF Sound, RegistryOK
  <2>2. \A id \in Txs : R.owner[p] = id <=> Q.owner[p] = id
    BY DEF Sound, IndexOf
  <2> QED BY <1>1, <2>1, <2>2
<1>3. R.owner \in [Properties -> Txs \cup {None}] /\ Q.owner \in [Properties -> Txs \cup {None}]
  BY DEF Sound, RegistryOK
<1> QED BY <1>2, <1>3

-----------------------------------------------------------------------------
(* Taking a change back by the undo entry it left.                         *)

\* Q is the registry that change left, but for the undo tables.
Left(R, change, Q) ==
  /\ Sound(Q)
  /\ Q.record = Replace(R, change).record

LEMMA ChangeUndone ==
  ASSUME NEW R, Sound(R), NEW change, Change(change),
         NEW Q, Left(R, change, Q)
  PROVE  LET entry == UndoOf(R, change)
         IN  /\ Follows(Q, entry)
             /\ CanReplace(Q, Restoring(entry))
             /\ \A id \in DOMAIN entry : entry[id].before # None =>
                  \A p \in PropertiesOf(entry[id].before) :
                    Q.owner[p] \in {None} \cup DOMAIN entry
             /\ Sound(Replace(Q, Restoring(entry)))
             /\ Replace(Q, Restoring(entry)).record = R.record
             /\ Replace(Q, Restoring(entry)).owner = R.owner
<1> DEFINE entry == UndoOf(R, change)
           back == Restoring(entry)
<1>1. /\ DOMAIN entry = DOMAIN change
      /\ \A id \in DOMAIN change : entry[id].before = R.record[id] /\ entry[id].after = change[id]
  BY DEF UndoOf
<1>2. DOMAIN back = DOMAIN change /\ \A id \in DOMAIN change : back[id] = R.record[id]
  <2> HIDE DEF entry
  <2> QED BY <1>1 DEF Restoring
<1> HIDE DEF entry, back
<1>3. \A id \in Txs : Q.record[id] = IF id \in DOMAIN change THEN change[id] ELSE R.record[id]
  BY ReplaceTyped DEF Left, Sound
<1>4. None \notin Txs
  BY RegistryAssumption
<1>5. Follows(Q, entry)
  BY <1>1, <1>3 DEF Follows, Change
<1>6. \A p \in Properties, id \in Txs :
        Q.owner[p] = id /\ id \notin DOMAIN change => R.owner[p] = id
  BY <1>3 DEF Left, Sound, IndexOf
<1>7. \A p \in Properties : PutBy(back, p) =
        {id \in DOMAIN change : R.record[id] # None /\ p \in PropertiesOf(R.record[id])}
  BY <1>2 DEF PutBy
<1>8. \A p \in Properties : \A id \in PutBy(back, p) : R.owner[p] = id
  BY <1>7 DEF Sound, IndexOf, Change
<1>9. \A p \in Properties, id \in Txs : Q.owner[p] = id /\ id \in DOMAIN change => p \in Erased(Q, back)
  <2> SUFFICES ASSUME NEW p \in Properties, NEW id \in Txs, Q.owner[p] = id, id \in DOMAIN change
               PROVE  p \in Erased(Q, back)
    OBVIOUS
  <2>1. Q.record[id] # None /\ p \in PropertiesOf(Q.record[id])
    BY DEF Left, Sound, IndexOf
  <2>2. id \in DOMAIN back \cap Registered(Q)
    BY <1>2, <2>1 DEF Registered
  <2> QED BY <2>1, <2>2 DEF Erased
<1>10. CanReplace(Q, back)
  <2>1. ASSUME NEW id \in DOMAIN back \cap Registered(Q), NEW p \in PropertiesOf(Q.record[id])
        PROVE  Q.owner[p] = id
    <3>1. p \in Properties
      BY <2>1, PropertiesTyped DEF Left, Sound, RegistryOK, Registered
    <3> QED BY <2>1, <3>1 DEF Left, Sound, IndexOf, Registered
  <2>2. ASSUME NEW p \in Properties, NEW id \in PutBy(back, p)
        PROVE  PutBy(back, p) = {id} /\ (p \notin Erased(Q, back) => Q.owner[p] \in {None, id})
    <3>1. PutBy(back, p) = {id}
      BY <1>8, <2>2
    <3>2. id \in Txs
      BY <2>2, <1>2 DEF PutBy, Change
    <3>4. Q.owner[p] \in Txs \cup {None}
      BY DEF Left, Sound, RegistryOK
    <3>3. p \notin Erased(Q, back) => Q.owner[p] \in {None, id}
      BY <1>6, <1>8, <1>9, <2>2, <3>2, <3>4
    <3> QED BY <3>1, <3>3
  <2> QED BY <2>1, <2>2 DEF CanReplace
<1>11. \A id \in DOMAIN entry : entry[id].before # None =>
         \A p \in PropertiesOf(entry[id].before) : Q.owner[p] \in {None} \cup DOMAIN entry
  <2> SUFFICES ASSUME NEW id \in DOMAIN change, R.record[id] # None, NEW p \in PropertiesOf(R.record[id])
               PROVE  Q.owner[p] \in {None} \cup DOMAIN change
    BY <1>1
  <2>1. id \in Txs /\ R.record[id] \in Record
    BY DEF Change, Sound, RegistryOK
  <2>2. p \in Properties
    BY <2>1, PropertiesTyped
  <2>3. R.owner[p] = id
    BY <2>1, <2>2 DEF Sound, IndexOf
  <2>4. Q.owner[p] \in Txs \cup {None}
    BY <2>2 DEF Left, Sound, RegistryOK
  <2> QED BY <1>6, <2>2, <2>3, <2>4
<1>12. Change(back)
  BY <1>2 DEF Change, Sound, RegistryOK
<1>13. Sound(Replace(Q, back))
  BY <1>10, <1>12, ReplaceTyped, ReplaceIndex DEF Left, Sound
<1>14. Replace(Q, back).record = R.record
  <2>1. \A id \in Txs : Replace(Q, back).record[id] = R.record[id]
    BY <1>2, <1>3, <1>12, ReplaceTyped DEF Left, Sound
  <2>2. Replace(Q, back).record \in [Txs -> Record \cup {None}] /\ R.record \in [Txs -> Record \cup {None}]
    BY <1>13 DEF Sound, RegistryOK
  <2> QED BY <2>1, <2>2
<1>15. Replace(Q, back).owner = R.owner
  BY <1>13, <1>14, IndexDetermined
<1> QED BY <1>5, <1>10, <1>11, <1>13, <1>14, <1>15 DEF entry, back
-----------------------------------------------------------------------------
(* An operation changes records and notes the change in one undo table.    *)

LEMMA TableWritten ==
  ASSUME NEW T, NEW S, Table(T, S), NEW key \in S, NEW value
  PROVE  /\ Table(Write(T, key, value), S)
         /\ DOMAIN Write(T, key, value) = DOMAIN T \cup {key}
         /\ Write(T, key, value)[key] = value
         /\ key \notin DOMAIN T => Drop(Write(T, key, value), key) = T
BY DEF Table, Write, Drop

LEMMA LoggedUndo ==
  ASSUME NEW R, RegistryOK(R), NEW T, Table(T, Txs)
  PROVE  /\ RegistryOK([R EXCEPT !.undo = T])
         /\ [R EXCEPT !.undo = T].record = R.record
         /\ [R EXCEPT !.undo = T].owner = R.owner
         /\ [R EXCEPT !.undo = T].undo = T
         /\ [R EXCEPT !.undo = T].beats = R.beats
         /\ [R EXCEPT !.undo = T].paid = R.paid
<1>1. [R EXCEPT !.undo = T] =
        [record |-> R.record, owner |-> R.owner, undo |-> T, beats |-> R.beats, paid |-> R.paid]
  BY DEF RegistryOK
<1> QED BY <1>1 DEF RegistryOK

LEMMA LoggedBeats ==
  ASSUME NEW R, RegistryOK(R), NEW T, Table(T, Heights)
  PROVE  /\ RegistryOK([R EXCEPT !.beats = T])
         /\ [R EXCEPT !.beats = T].record = R.record
         /\ [R EXCEPT !.beats = T].owner = R.owner
         /\ [R EXCEPT !.beats = T].beats = T
         /\ [R EXCEPT !.beats = T].undo = R.undo
         /\ [R EXCEPT !.beats = T].paid = R.paid
<1>1. [R EXCEPT !.beats = T] =
        [record |-> R.record, owner |-> R.owner, undo |-> R.undo, beats |-> T, paid |-> R.paid]
  BY DEF RegistryOK
<1> QED BY <1>1 DEF RegistryOK

LEMMA LoggedPaid ==
  ASSUME NEW R, RegistryOK(R), NEW T, Table(T, Heights)
  PROVE  /\ RegistryOK([R EXCEPT !.paid = T])
         /\ [R EXCEPT !.paid = T].record = R.record
         /\ [R EXCEPT !.paid = T].owner = R.owner
         /\ [R EXCEPT !.paid = T].paid = T
         /\ [R EXCEPT !.paid = T].undo = R.undo
         /\ [R EXCEPT !.paid = T].beats = R.beats
<1>1. [R EXCEPT !.paid = T] =
        [record |-> R.record, owner |-> R.owner, undo |-> R.undo, beats |-> R.beats, paid |-> T]
  BY DEF RegistryOK
<1> QED BY <1>1 DEF RegistryOK

LEMMA SameRegistry ==
  ASSUME NEW R, NEW Q, RegistryOK(R), RegistryOK(Q),
         R.record = Q.record, R.owner = Q.owner, R.undo = Q.undo,
         R.beats = Q.beats, R.paid = Q.paid
  PROVE  R = Q
BY DEF RegistryOK

(* Whatever an operation may do to the records, the undo entry it leaves   *)
(* takes all of it back.                                                   *)
THEOREM UndoRevertsApply ==
  ASSUME NEW R, Sound(R), NEW change, Change(change), CanReplace(R, change),
         NEW t \in Txs, t \notin DOMAIN R.undo
  PROVE  LET Q == [Replace(R, change) EXCEPT !.undo = Write(@, t, UndoOf(R, change))]
         IN  /\ Sound(Q)
             /\ Q.record = Replace(R, change).record
             /\ DOMAIN Q.undo = DOMAIN R.undo \cup {t}
             /\ Q.beats = R.beats /\ Q.paid = R.paid
             /\ CanUndo(Q, t)
             /\ Undo(Q, t) = R
<1> DEFINE P == Replace(R, change)
           entry == UndoOf(R, change)
           T == Write(R.undo, t, entry)
           Q == [P EXCEPT !.undo = Write(@, t, entry)]
           B == Replace(Q, Restoring(entry))
<1>1. Sound(P) /\ P.undo = R.undo /\ P.beats = R.beats /\ P.paid = R.paid
  BY ReplaceTyped, ReplaceIndex DEF Sound
<1>2. Table(R.undo, Txs)
  BY DEF Sound, RegistryOK
<1> HIDE DEF P, entry
<1> DEFINE old == R.undo
<1>a. Table(old, Txs) /\ t \notin DOMAIN old
  BY <1>2
<1> HIDE DEF old
<1>b. /\ Table(Write(old, t, entry), Txs)
      /\ DOMAIN Write(old, t, entry) = DOMAIN old \cup {t}
      /\ Write(old, t, entry)[t] = entry
      /\ Drop(Write(old, t, entry), t) = old
  BY <1>a, TableWritten
<1>3. /\ Table(T, Txs) /\ DOMAIN T = DOMAIN R.undo \cup {t} /\ T[t] = entry
      /\ Drop(T, t) = R.undo
  BY <1>b DEF old
<1> HIDE DEF T
<1>4. Q = [P EXCEPT !.undo = T]
  BY <1>1 DEF T
<1> HIDE DEF Q
<1>5. /\ RegistryOK(Q) /\ Q.record = P.record /\ Q.owner = P.owner
      /\ Q.undo = T /\ Q.beats = R.beats /\ Q.paid = R.paid
  BY <1>1, <1>3, <1>4, LoggedUndo DEF Sound
<1>6. Sound(Q)
  BY <1>1, <1>5 DEF Sound, IndexOf
<1>7. Left(R, change, Q)
  BY <1>5, <1>6 DEF Left, P
<1>8. /\ Follows(Q, entry)
      /\ CanReplace(Q, Restoring(entry))
      /\ \A id \in DOMAIN entry : entry[id].before # None =>
           \A p \in PropertiesOf(entry[id].before) : Q.owner[p] \in {None} \cup DOMAIN entry
      /\ Sound(B)
      /\ B.record = R.record
      /\ B.owner = R.owner
  BY <1>7, ChangeUndone DEF entry
<1>9. CanUndo(Q, t)
  BY <1>3, <1>5, <1>8 DEF CanUndo
<1>10. Change(Restoring(entry))
  BY DEF Change, Restoring, UndoOf, entry, Sound, RegistryOK
<1>11. B.undo = Q.undo /\ B.beats = Q.beats /\ B.paid = Q.paid
  BY <1>5, <1>10, ReplaceTyped
<1> HIDE DEF B
<1>12. Undo(Q, t) = [B EXCEPT !.undo = R.undo]
  BY <1>3, <1>5, <1>11 DEF Undo, B
<1>13. Undo(Q, t) = R
  <2> DEFINE U == [B EXCEPT !.undo = R.undo]
  <2>1. /\ RegistryOK(U) /\ U.record = B.record /\ U.owner = B.owner
        /\ U.undo = R.undo /\ U.beats = B.beats /\ U.paid = B.paid
    BY <1>2, <1>8, LoggedUndo DEF Sound
  <2> HIDE DEF U
  <2>2. U = R
    BY <1>5, <1>8, <1>11, <2>1, SameRegistry DEF Sound
  <2> QED BY <1>12, <2>2 DEF U
<1> QED BY <1>3, <1>5, <1>6, <1>9, <1>13 DEF Q, P, entry

(* The same of the heartbeats of a block.                                  *)
THEOREM UndoRevertsBeat ==
  ASSUME NEW R, Sound(R), NEW change, Change(change), CanReplace(R, change),
         NEW h \in Heights, h \notin DOMAIN R.beats
  PROVE  LET Q == [Replace(R, change) EXCEPT !.beats = Write(@, h, UndoOf(R, change))]
         IN  /\ Sound(Q)
             /\ Q.record = Replace(R, change).record
             /\ DOMAIN Q.beats = DOMAIN R.beats \cup {h}
             /\ Q.undo = R.undo /\ Q.paid = R.paid
             /\ CanUndoBeat(Q, h)
             /\ UndoBeat(Q, h) = R
<1> DEFINE P == Replace(R, change)
           entry == UndoOf(R, change)
           T == Write(R.beats, h, entry)
           Q == [P EXCEPT !.beats = Write(@, h, entry)]
           B == Replace(Q, Restoring(entry))
<1>1. Sound(P) /\ P.undo = R.undo /\ P.beats = R.beats /\ P.paid = R.paid
  BY ReplaceTyped, ReplaceIndex DEF Sound
<1>2. Table(R.beats, Heights)
  BY DEF Sound, RegistryOK
<1> HIDE DEF P, entry
<1> DEFINE old == R.beats
<1>a. Table(old, Heights) /\ h \notin DOMAIN old
  BY <1>2
<1> HIDE DEF old
<1>b. /\ Table(Write(old, h, entry), Heights)
      /\ DOMAIN Write(old, h, entry) = DOMAIN old \cup {h}
      /\ Write(old, h, entry)[h] = entry
      /\ Drop(Write(old, h, entry), h) = old
  BY <1>a, TableWritten
<1>3. /\ Table(T, Heights) /\ DOMAIN T = DOMAIN R.beats \cup {h} /\ T[h] = entry
      /\ Drop(T, h) = R.beats
  BY <1>b DEF old
<1> HIDE DEF T
<1>4. Q = [P EXCEPT !.beats = T]
  BY <1>1 DEF T
<1> HIDE DEF Q
<1>5. /\ RegistryOK(Q) /\ Q.record = P.record /\ Q.owner = P.owner
      /\ Q.beats = T /\ Q.undo = R.undo /\ Q.paid = R.paid
  BY <1>1, <1>3, <1>4, LoggedBeats DEF Sound
<1>6. Sound(Q)
  BY <1>1, <1>5 DEF Sound, IndexOf
<1>7. Left(R, change, Q)
  BY <1>5, <1>6 DEF Left, P
<1>8. /\ Follows(Q, entry)
      /\ CanReplace(Q, Restoring(entry))
      /\ \A id \in DOMAIN entry : entry[id].before # None =>
           \A p \in PropertiesOf(entry[id].before) : Q.owner[p] \in {None} \cup DOMAIN entry
      /\ Sound(B)
      /\ B.record = R.record
      /\ B.owner = R.owner
  BY <1>7, ChangeUndone DEF entry
<1>9. CanUndoBeat(Q, h)
  BY <1>3, <1>5, <1>8 DEF CanUndoBeat
<1>10. Change(Restoring(entry))
  BY DEF Change, Restoring, UndoOf, entry, Sound, RegistryOK
<1>11. B.undo = Q.undo /\ B.beats = Q.beats /\ B.paid = Q.paid
  BY <1>5, <1>10, ReplaceTyped
<1> HIDE DEF B
<1>12. UndoBeat(Q, h) = [B EXCEPT !.beats = R.beats]
  BY <1>3, <1>5, <1>11 DEF UndoBeat, B
<1>13. UndoBeat(Q, h) = R
  <2> DEFINE U == [B EXCEPT !.beats = R.beats]
  <2>1. /\ RegistryOK(U) /\ U.record = B.record /\ U.owner = B.owner
        /\ U.beats = R.beats /\ U.undo = B.undo /\ U.paid = B.paid
    BY <1>2, <1>8, LoggedBeats DEF Sound
  <2> HIDE DEF U
  <2>2. U = R
    BY <1>5, <1>8, <1>11, <2>1, SameRegistry DEF Sound
  <2> QED BY <1>12, <2>2 DEF U
<1> QED BY <1>3, <1>5, <1>6, <1>9, <1>13 DEF Q, P, entry

(* And of its payment.                                                     *)
THEOREM UndoRevertsPay ==
  ASSUME NEW R, Sound(R), NEW change, Change(change), CanReplace(R, change),
         NEW h \in Heights, h \notin DOMAIN R.paid
  PROVE  LET Q == [Replace(R, change) EXCEPT !.paid = Write(@, h, UndoOf(R, change))]
         IN  /\ Sound(Q)
             /\ Q.record = Replace(R, change).record
             /\ DOMAIN Q.paid = DOMAIN R.paid \cup {h}
             /\ Q.undo = R.undo /\ Q.beats = R.beats
             /\ CanUndoPayment(Q, h)
             /\ UndoPayment(Q, h) = R
<1> DEFINE P == Replace(R, change)
           entry == UndoOf(R, change)
           T == Write(R.paid, h, entry)
           Q == [P EXCEPT !.paid = Write(@, h, entry)]
           B == Replace(Q, Restoring(entry))
<1>1. Sound(P) /\ P.undo = R.undo /\ P.beats = R.beats /\ P.paid = R.paid
  BY ReplaceTyped, ReplaceIndex DEF Sound
<1>2. Table(R.paid, Heights)
  BY DEF Sound, RegistryOK
<1> HIDE DEF P, entry
<1> DEFINE old == R.paid
<1>a. Table(old, Heights) /\ h \notin DOMAIN old
  BY <1>2
<1> HIDE DEF old
<1>b. /\ Table(Write(old, h, entry), Heights)
      /\ DOMAIN Write(old, h, entry) = DOMAIN old \cup {h}
      /\ Write(old, h, entry)[h] = entry
      /\ Drop(Write(old, h, entry), h) = old
  BY <1>a, TableWritten
<1>3. /\ Table(T, Heights) /\ DOMAIN T = DOMAIN R.paid \cup {h} /\ T[h] = entry
      /\ Drop(T, h) = R.paid
  BY <1>b DEF old
<1> HIDE DEF T
<1>4. Q = [P EXCEPT !.paid = T]
  BY <1>1 DEF T
<1> HIDE DEF Q
<1>5. /\ RegistryOK(Q) /\ Q.record = P.record /\ Q.owner = P.owner
      /\ Q.paid = T /\ Q.undo = R.undo /\ Q.beats = R.beats
  BY <1>1, <1>3, <1>4, LoggedPaid DEF Sound
<1>6. Sound(Q)
  BY <1>1, <1>5 DEF Sound, IndexOf
<1>7. Left(R, change, Q)
  BY <1>5, <1>6 DEF Left, P
<1>8. /\ Follows(Q, entry)
      /\ CanReplace(Q, Restoring(entry))
      /\ \A id \in DOMAIN entry : entry[id].before # None =>
           \A p \in PropertiesOf(entry[id].before) : Q.owner[p] \in {None} \cup DOMAIN entry
      /\ Sound(B)
      /\ B.record = R.record
      /\ B.owner = R.owner
  BY <1>7, ChangeUndone DEF entry
<1>9. CanUndoPayment(Q, h)
  BY <1>3, <1>5, <1>8 DEF CanUndoPayment
<1>10. Change(Restoring(entry))
  BY DEF Change, Restoring, UndoOf, entry, Sound, RegistryOK
<1>11. B.undo = Q.undo /\ B.beats = Q.beats /\ B.paid = Q.paid
  BY <1>5, <1>10, ReplaceTyped
<1> HIDE DEF B
<1>12. UndoPayment(Q, h) = [B EXCEPT !.paid = R.paid]
  BY <1>3, <1>5, <1>11 DEF UndoPayment, B
<1>13. UndoPayment(Q, h) = R
  <2> DEFINE U == [B EXCEPT !.paid = R.paid]
  <2>1. /\ RegistryOK(U) /\ U.record = B.record /\ U.owner = B.owner
        /\ U.paid = R.paid /\ U.undo = B.undo /\ U.beats = B.beats
    BY <1>2, <1>8, LoggedPaid DEF Sound
  <2> HIDE DEF U
  <2>2. U = R
    BY <1>5, <1>8, <1>11, <2>1, SameRegistry DEF Sound
  <2> QED BY <1>12, <2>2 DEF U
<1> QED BY <1>3, <1>5, <1>6, <1>9, <1>13 DEF Q, P, entry
-----------------------------------------------------------------------------
(* Payments, heartbeats and transactions change records within their type. *)
LEMMA LeastNat ==
  ASSUME NEW S, S \subseteq Nat, S # {}
  PROVE  \E n \in S : \A m \in S : n <= m
<1>1. IsWellFoundedOn(OpToRel(<, Nat), Nat)
  BY NatLessThanWellFounded
<1>2. PICK n \in S : \A m \in S : <<m, n>> \notin OpToRel(<, Nat)
  BY <1>1, WFMin
<1>3. \A m \in S : ~ (m < n)
  <2> SUFFICES ASSUME NEW m \in S, m < n PROVE FALSE
    OBVIOUS
  <2>1. <<m, n>> \in Nat \X Nat
    OBVIOUS
  <2>2. <<m, n>> \in OpToRel(<, Nat)
    BY <2>1 DEF OpToRel
  <2> QED BY <1>2, <2>2
<1> QED BY <1>3

LEMMA AgeNat ==
  ASSUME NEW r \in Record
  PROVE  Age(r) \in Nat
<1>1. r.lastPaid \in Nat /\ r.revived \in Nat /\ r.registered \in Nat
  BY RegistryAssumption DEF Record, Heights
<1> QED BY <1>1 DEF Age, Larger

(* The queue always has a head: the oldest candidate with the least number. *)
LEMMA PayeeIsCandidate ==
  ASSUME NEW R, RegistryOK(R), NEW h
  PROVE  /\ FindPayee(R, h) \in Candidates(R, h) \cup {None}
         /\ FindPayee(R, h) # None =>
              \A other \in Candidates(R, h) \ {FindPayee(R, h)} : Before(R, FindPayee(R, h), other)
<1> DEFINE C == Candidates(R, h)
           age(id) == Age(R.record[id])
<1>1. C \subseteq Txs /\ \A id \in C : R.record[id] \in Record
  BY DEF Candidates, Registered, RegistryOK
<1>2. \A id \in C : age(id) \in Nat
  BY <1>1, AgeNat
<1> HIDE DEF C, age
<1> SUFFICES ASSUME C # {}
             PROVE  \E id \in C : \A other \in C \ {id} : Before(R, id, other)
  BY DEF FindPayee, C
<1>3. PICK oldest \in {age(id) : id \in C} : \A a \in {age(id) : id \in C} : oldest <= a
  <2>1. {age(id) : id \in C} \subseteq Nat /\ {age(id) : id \in C} # {}
    BY <1>2
  <2> QED BY <2>1, LeastNat
<1>4. \A id \in C : oldest <= age(id)
  BY <1>3
<1> DEFINE D == {id \in C : age(id) = oldest}
<1>5. PICK id \in D : \A other \in D : id <= other
  <2>1. D \subseteq Nat /\ D # {}
    BY <1>1, <1>3, RegistryAssumption
  <2> HIDE DEF D
  <2> QED BY <2>1, LeastNat
<1>6. ASSUME NEW other \in C \ {id} PROVE Before(R, id, other)
  <2>1. age(id) = oldest /\ age(id) \in Nat /\ age(other) \in Nat /\ id \in Nat /\ other \in Nat
    BY <1>1, <1>2, <1>5, <1>6, RegistryAssumption
  <2>2. CASE age(other) = oldest
    BY <1>5, <1>6, <2>1, <2>2 DEF Before, age
  <2>3. CASE age(other) # oldest
    BY <1>4, <1>6, <2>1, <2>3 DEF Before, age
  <2> QED BY <2>2, <2>3
<1> QED BY <1>5, <1>6

LEMMA RewardTyped ==
  ASSUME NEW R, RegistryOK(R), NEW h \in Heights
  PROVE  Change(Reward(R, h))
<1> DEFINE id == FindPayee(R, h)
<1>1. CASE id = None
  BY <1>1 DEF Reward, Nobody, Change
<1>2. CASE id # None
  <2>1. id \in Txs /\ R.record[id] \in Record
    BY <1>2, PayeeIsCandidate DEF Candidates, Registered, RegistryOK
  <2> HIDE DEF id
  <2>2. [R.record[id] EXCEPT !.lastPaid = h] \in Record
    BY <2>1 DEF Record
  <2>3. Reward(R, h) = [i \in {id} |-> [R.record[i] EXCEPT !.lastPaid = h]]
    BY <1>2 DEF Reward, id
  <2> QED BY <2>1, <2>2, <2>3 DEF Change
<1> QED BY <1>1, <1>2

LEMMA AliveTyped ==
  ASSUME NEW R, RegistryOK(R), NEW parent, NEW batch,
         \A beat \in batch : Verify(R, beat, parent) /\ beat.height \in Heights
  PROVE  Change(Alive(R, batch))
<1> DEFINE ids == {beat.registration : beat \in batch}
           height(id) == (CHOOSE beat \in batch : beat.registration = id).height
<1>1. \A id \in ids : id \in Txs /\ R.record[id] \in Record
  BY DEF Verify, Registered, RegistryOK
<1>2. \A id \in ids : height(id) \in Heights
  <2> SUFFICES ASSUME NEW id \in ids PROVE height(id) \in Heights
    OBVIOUS
  <2>1. \E beat \in batch : beat.registration = id
    OBVIOUS
  <2> QED BY <2>1
<1>3. Alive(R, batch) = [id \in ids |-> [R.record[id] EXCEPT !.lastHeartbeat = height(id)]]
  BY DEF Alive
<1> HIDE DEF ids, height
<1>4. ASSUME NEW id \in ids PROVE [R.record[id] EXCEPT !.lastHeartbeat = height(id)] \in Record
  BY <1>1, <1>2, <1>4 DEF Record
<1> QED BY <1>1, <1>3, <1>4 DEF Change

LEMMA RemovedRegistered ==
  ASSUME NEW R, RegistryOK(R), NEW t \in Txs
  PROVE  Removed(R, t) \subseteq Txs
<1>1. Tx[t].spends \subseteq Coins
  BY RegistryAssumption DEF Operation
<1>2. \A c \in Tx[t].spends : <<"collateral", c>> \in Properties
  BY <1>1 DEF Properties
<1> QED BY <1>2 DEF Removed, RegistryOK

LEMMA ChangesTyped ==
  ASSUME NEW R, RegistryOK(R), NEW t \in Txs, NEW h \in Heights,
         NEW coins \in [Coins -> Heights \cup {0}], CanApply(R, t, coins, h)
  PROVE  Change(Changes(R, t, coins, h))
<1> DEFINE new == Replacement(R, t, coins, h)
<1>1. Removed(R, t) \subseteq Txs
  BY RemovedRegistered
<1>2. CASE Tx[t].mode = "TRANSFER"
  BY <1>1, <1>2 DEF Changes, Change
<1>3. CASE Tx[t].mode # "TRANSFER"
  <2>1. Tx[t] \in Operation
    BY RegistryAssumption
  <2>2. Target(t) \in Txs /\ new \in Record
    <3>1. CASE Tx[t].mode = "REGISTER"
      <4>1. /\ Tx[t].collateral \in Coins /\ Tx[t].owner \in Keys /\ Tx[t].operator \in Keys
            /\ Tx[t].service \in Services \cup {None}
        BY <2>1, <3>1 DEF Operation
      <4>2. Tx[t].collateral # t => coins[Tx[t].collateral] \in Heights
        BY <3>1, <4>1 DEF CanApply, CanRegister
      <4>3. NewRecord(t, coins, h) \in Record
        BY <4>1, <4>2 DEF NewRecord, Record
      <4> QED BY <3>1, <4>3 DEF Replacement, Target
    <3>2. CASE Tx[t].mode \in {"UPDATE", "SERVICE", "REVOKE"}
      <4> DEFINE r == R.record[Tx[t].registration]
      <4>1. /\ Tx[t].registration \in Txs /\ r \in Record /\ Tx[t].sequence \in Nat
        BY <2>1, <3>2 DEF CanApply, CanChange, Registered, RegistryOK, Operation
      <4> HIDE DEF r
      <4>2. NextSequence(r, t) \in Record
        BY <4>1 DEF NextSequence, Record
      <4>3. CASE Tx[t].mode = "UPDATE"
        <5>1. Tx[t].operator \in Keys
          BY <2>1, <4>3 DEF Operation
        <5>2. Updated(r, t) \in Record
          BY <4>2, <5>1 DEF Updated, Record
        <5> QED BY <4>1, <4>3, <5>2 DEF Replacement, Target, r
      <4>4. CASE Tx[t].mode = "SERVICE"
        <5>1. Tx[t].service \in Services
          BY <2>1, <4>4 DEF Operation
        <5>2. Served(r, t, h) \in Record
          BY <4>2, <5>1 DEF Served, Record
        <5> QED BY <4>1, <4>4, <5>2 DEF Replacement, Target, r
      <4>5. CASE Tx[t].mode = "REVOKE"
        <5>1. Revoked(r, t) \in Record
          BY <4>2 DEF Revoked, Record
        <5> QED BY <4>1, <4>5, <5>1 DEF Replacement, Target, r
      <4> QED BY <3>2, <4>3, <4>4, <4>5
    <3> QED BY <1>3, <2>1, <3>1, <3>2 DEF Operation
  <2>3. Changes(R, t, coins, h) = [id \in Removed(R, t) \cup {Target(t)} |->
          IF id = Target(t) THEN new ELSE None]
    BY <1>3 DEF Changes
  <2> HIDE DEF new
  <2> QED BY <1>1, <2>2, <2>3 DEF Change
<1> QED BY <1>2, <1>3
=============================================================================
