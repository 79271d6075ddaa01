----------------------------- MODULE PQRegistry -----------------------------
(***************************************************************************)
(* The registry as the active chain grows and shrinks: what ConnectBlock   *)
(* and DisconnectBlock (validation.cpp) make of it, step by step, inside   *)
(* the EvoDB transaction that ConnectTip and DisconnectTip commit.         *)
(*                                                                         *)
(* Connecting a block pays the next registration of the parent state,      *)
(* takes the block's heartbeats, applies its transactions in order and     *)
(* captures the committee of the resulting state.  Disconnecting it undoes *)
(* the transactions backwards, then the heartbeats, the payment and the    *)
(* snapshot.  A block that fails at any step, or is only checked           *)
(* (TestBlockValidity, VerifyDB), leaves what was committed.               *)
(*                                                                         *)
(* The unspent coins are a function of the chain here; the undo of the     *)
(* coins database is not modelled.  Every block pays masternodes.          *)
(***************************************************************************)
EXTENDS PQMasternode, SequencesExt, FiniteSetsExt

CONSTANTS
  BaseHeight,      \* the chain up to here holds no masternode transaction
  WalletHeight,    \* WalletHeight[c]: where wallet coin c was created
  MaxBlockTxs      \* bounds the transactions of a block

\* A committee snapshot, with the height of the one before it.
Snapshots == [members : SUBSET (Txs \X Keys), belowMinimum : BOOLEAN,
              prevHeight : Heights \cup {0}]

ASSUME ChainAssumption ==
  /\ BaseHeight \in Heights
  /\ WalletHeight \in [Wallet -> 1..BaseHeight]
  /\ MaxBlockTxs \in Nat
  /\ None \notin Snapshots

VARIABLES
  chain,      \* the blocks above BaseHeight, each [txs, beats]
  stage,      \* how far the block under way is
  block,      \* what of it stands in the registry
  registry,   \* the registry, in the current EvoDB transaction
  snapshots,  \* committee snapshots: [at, latest]
  saved,      \* registry and snapshots as last committed
  past,       \* history: the registry before each block and after its steps
  steps       \* history: the same for the block under way

db == <<registry, snapshots>>
vars == <<chain, stage, block, db, saved, past, steps>>

NoBlock == [txs |-> <<>>, beats |-> {}]

Connecting == {"paid", "applying", "captured"}
Disconnecting == {"undoing", "unbeaten", "unpaid", "undone"}
Stages == {"idle"} \cup Connecting \cup Disconnecting

Tip == BaseHeight + Len(chain)

\* The height of the block under way.
Height == IF stage \in Disconnecting THEN Tip ELSE Tip + 1

\* The blocks whose transactions the registry holds.
Standing ==
  IF stage \in Connecting THEN Append(chain, block)
  ELSE IF stage \in Disconnecting THEN Append(Front(chain), block)
  ELSE chain
-----------------------------------------------------------------------------
(* Unspent coins.                                                          *)
Spent(blocks, c) ==
  \E i \in DOMAIN blocks : \E t \in ToSet(blocks[i].txs) : c \in Tx[t].spends

Created(blocks, c) == {i \in DOMAIN blocks : c \in ToSet(blocks[i].txs)}

\* The height of each unspent coin in the view, 0 for the others.
CoinsIn(blocks) ==
  [c \in Coins |->
     IF Spent(blocks, c) THEN 0
     ELSE IF c \in Wallet THEN WalletHeight[c]
     ELSE Max({0} \cup {BaseHeight + i : i \in Created(blocks, c)})]
-----------------------------------------------------------------------------
(* Committee snapshots: an entry where the committee changes, each with    *)
(* the height of the one before.                                           *)
NoSnapshots == [at |-> [h \in Heights |-> None], latest |-> 0]

SnapshotOf(R, height, previous) ==
  [members |-> SelectCommittee(R, height),
   belowMinimum |-> BelowMinimum(R, height),
   prevHeight |-> previous]

\* Variant: an empty committee is never worth a snapshot.
NothingNewIfEmpty(S, R, height) ==
  IF SelectCommittee(R, height) = {} THEN TRUE
  ELSE S.latest # 0 /\ S.at[S.latest].members = SelectCommittee(R, height)

NothingNew(S, R, height) ==
  IF S.latest = 0 THEN SelectCommittee(R, height) = {}
  ELSE /\ S.at[S.latest].members = SelectCommittee(R, height)
       /\ S.at[S.latest].belowMinimum = BelowMinimum(R, height)

StoreCommittee(S, R, height) ==
  IF NothingNew(S, R, height) THEN S
  ELSE [at |-> [S.at EXCEPT ![height] = SnapshotOf(R, height, S.latest)],
        latest |-> height]

UndoSnapshot(S, height) ==
  IF S.at[height] = None THEN S
  ELSE [at |-> [S.at EXCEPT ![height] = None],
        latest |-> S.at[height].prevHeight]

\* Walks back from the latest snapshot, until one is missing; 0 is none.
SnapshotFor(S, height) ==
  LET back[h \in 0..MaxHeight] ==
        IF h <= height THEN h
        ELSE IF S.at[h] = None THEN 0
        ELSE back[S.at[h].prevHeight]
  IN  back[S.latest]

CommitteeAt(S, height) ==
  IF SnapshotFor(S, height) = 0 THEN {} ELSE S.at[SnapshotFor(S, height)].members
-----------------------------------------------------------------------------
\* The step the registry takes while a block is connected.
Advance(R) ==
  /\ registry' = R
  /\ steps' = Append(steps, R)

\* The step it takes back while one is disconnected.
Retreat(R) ==
  /\ registry' = R
  /\ steps' = Front(steps)

Init ==
  /\ chain = <<>>
  /\ stage = "idle"
  /\ block = NoBlock
  /\ registry = Empty
  /\ snapshots = NoSnapshots
  /\ saved = [registry |-> Empty, snapshots |-> NoSnapshots]
  /\ past = <<>>
  /\ steps = <<>>

PayMasternode ==
  /\ stage = "idle"
  /\ Tip < MaxHeight
  /\ CanReplace(registry, Reward(registry, Height))
  /\ stage' = "paid"
  /\ registry' = Pay(registry, Height)
  /\ steps' = <<registry, Pay(registry, Height)>>
  /\ UNCHANGED <<chain, block, snapshots, saved, past>>

\* The heartbeats are checked against the parent block, not this one.
Heartbeats == [registration : Txs, sequence : 0..Cardinality(Txs), height : Heights]

TakeHeartbeats ==
  /\ stage = "paid"
  /\ stage' = "applying"
  /\ \E batch \in SUBSET {beat \in Heartbeats : Verify(registry, beat, Tip)} :
       /\ CanBeat(registry, batch, Tip)
       /\ CanReplace(registry, Alive(registry, batch))
       /\ block' = [block EXCEPT !.beats = batch]
       /\ Advance(Beat(registry, batch, Height))
  /\ UNCHANGED <<chain, snapshots, saved, past>>

ApplyTx(t) ==
  LET coins == CoinsIn(Standing)
  IN  /\ stage = "applying"
      /\ Len(block.txs) < MaxBlockTxs
      /\ CanApply(registry, t, coins, Height)
      /\ CanReplace(registry, Changes(registry, t, coins, Height))
      /\ block' = [block EXCEPT !.txs = Append(@, t)]
      /\ Advance(Apply(registry, t, coins, Height))
      /\ UNCHANGED <<chain, stage, snapshots, saved, past>>

CaptureCommittee ==
  /\ stage = "applying"
  /\ stage' = "captured"
  /\ snapshots' = StoreCommittee(snapshots, registry, Height)
  /\ UNCHANGED <<chain, block, registry, saved, past, steps>>

Commit ==
  /\ stage' = "idle"
  /\ block' = NoBlock
  /\ steps' = <<>>
  /\ saved' = [registry |-> registry, snapshots |-> snapshots]
  /\ UNCHANGED db

ConnectTip ==
  /\ stage = "captured"
  /\ chain' = Append(chain, block)
  /\ past' = Append(past, steps)
  /\ Commit

(* The block is refused, or was only being checked, at any step.           *)
Abandon ==
  /\ stage # "idle"
  /\ stage' = "idle"
  /\ block' = NoBlock
  /\ registry' = saved.registry
  /\ snapshots' = saved.snapshots
  /\ steps' = <<>>
  /\ UNCHANGED <<chain, saved, past>>
-----------------------------------------------------------------------------
DisconnectBlock ==
  /\ stage = "idle"
  /\ chain # <<>>
  /\ stage' = "undoing"
  /\ block' = Last(chain)
  /\ steps' = Last(past)
  /\ UNCHANGED <<chain, db, saved, past>>

UndoTx ==
  /\ stage = "undoing"
  /\ block.txs # <<>>
  /\ CanUndo(registry, Last(block.txs))
  /\ block' = [block EXCEPT !.txs = Front(@)]
  /\ Retreat(Undo(registry, Last(block.txs)))
  /\ UNCHANGED <<chain, stage, snapshots, saved, past>>

UndoHeartbeats ==
  /\ stage = "undoing"
  /\ block.txs = <<>>
  /\ CanUndoBeat(registry, Height)
  /\ stage' = "unbeaten"
  /\ block' = NoBlock
  /\ Retreat(UndoBeat(registry, Height))
  /\ UNCHANGED <<chain, snapshots, saved, past>>

UndoReward ==
  /\ stage = "unbeaten"
  /\ CanUndoPayment(registry, Height)
  /\ stage' = "unpaid"
  /\ Retreat(UndoPayment(registry, Height))
  /\ UNCHANGED <<chain, block, snapshots, saved, past>>

UndoBlock ==
  /\ stage = "unpaid"
  /\ stage' = "undone"
  /\ snapshots' = UndoSnapshot(snapshots, Height)
  /\ UNCHANGED <<chain, block, registry, saved, past, steps>>

DisconnectTip ==
  /\ stage = "undone"
  /\ chain' = Front(chain)
  /\ past' = Front(past)
  /\ Commit

Next ==
  \/ PayMasternode
  \/ TakeHeartbeats
  \/ \E t \in Txs : ApplyTx(t)
  \/ CaptureCommittee
  \/ ConnectTip
  \/ Abandon
  \/ DisconnectBlock
  \/ UndoTx
  \/ UndoHeartbeats
  \/ UndoReward
  \/ UndoBlock
  \/ DisconnectTip

Spec == Init /\ [][Next]_vars
-----------------------------------------------------------------------------
Block == [txs : Seq(Txs), beats : SUBSET Heartbeats]

(* The type of the chain and of the registry, at every step of a block.    *)
TypeOK ==
  /\ chain \in Seq(Block)
  /\ block \in Block
  /\ Tip <= MaxHeight
  /\ stage \in Stages
  /\ stage \in Disconnecting => chain # <<>>
  /\ RegistryOK(registry)
  /\ Len(past) = Len(chain)

(* Erase and Put keep the reverse index exact through every change: a      *)
(* collateral, key or service is owned by a registration if and only if    *)
(* its record has it, so no two records ever share one.                    *)
IndexExact == IndexOf(registry)

\* The registry when the block of this height was the tip.
TipRegistry(height) ==
  IF height = BaseHeight THEN Empty ELSE Last(past[height - BaseHeight])

NextUndoAccepted ==
  CASE stage = "undoing" /\ block.txs # <<>> -> CanUndo(registry, Last(block.txs))
    [] stage = "undoing" /\ block.txs = <<>> -> CanUndoBeat(registry, Height)
    [] stage = "unbeaten" -> CanUndoPayment(registry, Height)
    [] OTHER -> TRUE

(* Undo, the heartbeat undo and the reward undo of DisconnectBlock each    *)
(* pass their own checks, throw nothing, and bring the registry, with all  *)
(* its undo tables, exactly back to where it was before the step of        *)
(* ConnectBlock they undo, whatever chain of blocks led there.             *)
UndoExact ==
  /\ registry = IF stage = "idle" THEN TipRegistry(Tip) ELSE Last(steps)
  /\ NextUndoAccepted

(* Whatever was connected and disconnected since, CommitteeAt answers for  *)
(* every height of the active chain with the committee that the registry   *)
(* gave when the block of that height was the tip.                         *)
CommitteeHistory ==
  stage = "idle" =>
    \A height \in BaseHeight..Tip :
      CommitteeAt(snapshots, height) = SelectCommittee(TipRegistry(height), height)

\* Whom the block of this height paid, as a set, and whom it could have paid.
PaidAt(height) == DOMAIN registry.paid[height]
Payable(height) == Candidates(TipRegistry(height - 1), height)

HasService(R, id) ==
  R.record[id] # None /\ ~ R.record[id].revoked /\ R.record[id].service # None

\* id went to the end of the queue in this block: it was paid, or its service
\* began.
Joined(id, height) ==
  \/ id \in PaidAt(height)
  \/ LET states == past[height - BaseHeight]
     IN  \E i \in 2..Len(states) :
           HasService(states[i], id) /\ ~ HasService(states[i - 1], id)

\* id could be paid at the first height and stayed in service up to the last.
Waited(id, first, last) ==
  /\ id \in Payable(first) \cap Payable(last)
  /\ \A height \in first..(last - 1) :
       \A R \in ToSet(past[height - BaseHeight]) : HasService(R, id)

(* FindPayee is a fair queue: nobody is paid before a registration that    *)
(* was already waiting when it joined the queue's end, whether it joined   *)
(* by a payment, a registration or a service that came back, and whatever  *)
(* updates and heartbeats came in between.                                 *)
PaidInTurn ==
  stage = "idle" =>
    \A first, last \in (BaseHeight + 1)..Tip :
      \A id \in PaidAt(last) :
        first < last /\ Joined(id, first) =>
          \A other \in Payable(first) \ {id} :
            Waited(other, first, last) =>
              \E height \in first..(last - 1) : other \in PaidAt(height)

(* A registration's last heartbeat is the newest that its own current      *)
(* sequence sent in a block of the active chain: an operator that took     *)
(* over, or changed its service, never lives on the heartbeats of before,  *)
(* and a reorganisation takes back those of the blocks it disconnects.     *)
Carried(id) ==
  {beat \in UNION {Standing[i].beats : i \in DOMAIN Standing} :
     beat.registration = id /\ beat.sequence = registry.record[id].sequence}

HeartbeatsCarried ==
  \A id \in Registered(registry) :
    registry.record[id].lastHeartbeat = Max({0} \cup {beat.height : beat \in Carried(id)})

(* Every registration's collateral is an unspent coin of the active chain, *)
(* confirmed at the height the registration counts its maturity from.      *)
CollateralHeld ==
  \A id \in Registered(registry) :
    /\ registry.record[id].collateralHeight # 0
    /\ CoinsIn(Standing)[registry.record[id].collateral] = registry.record[id].collateralHeight
=============================================================================
