----------------------------- MODULE PQAnchors -----------------------------
(***************************************************************************)
(* How one node keeps its chain and its finality together: the active      *)
(* chain and its flushes (validation.cpp), the anchor mirror that is part  *)
(* of chain state and the saved anchors that are never rolled back         *)
(* (pqanchors.cpp), and the commitment of a certificate that arrived by    *)
(* gossip (Manager::RecordCommitment).                                     *)
(*                                                                         *)
(* All of it runs under cs_main, so a step is what happens between two     *)
(* points where the node may die.  The blocks there are, what they extend  *)
(* and which certificate their coinbase carries are constants; the node    *)
(* learns them in any order that respects parents.  Which block of a       *)
(* height is certified is the committee's choice, one per height, each a   *)
(* child of the one before (PQFinality).  A block's work is its height.    *)
(*                                                                         *)
(* Heights count from the bootstrap block, Root.  Where a height has too   *)
(* few members for a committee finality ends, until administrators agree   *)
(* on an emergency checkpoint above it and start their nodes with that.    *)
(***************************************************************************)
EXTENDS Integers, Sequences, FiniteSets, SequencesExt, FiniteSetsExt

CONSTANTS
  Blocks,    \* the blocks above Root
  Root,      \* the block of the bootstrap anchor
  Parent,    \* Parent[b]: the block that b extends
  Carries,   \* Carries[b]: the height whose certificate b carries, or 0
  Empty,     \* the blocks after which there are too few members
  Networks,  \* what a node may find: [seeded, recovery, blocks]
  None, Broken

ASSUME TreeAssumption ==
  /\ IsFiniteSet(Blocks)
  /\ Root \notin Blocks
  /\ None \notin Blocks \cup {Root}
  /\ Parent \in [Blocks -> Blocks \cup {Root}]
  /\ Carries \in [Blocks -> 0..Cardinality(Blocks)]
  /\ Empty \subseteq Blocks
  /\ Networks \subseteq
       [seeded : BOOLEAN, recovery : Blocks \cup {None}, blocks : SUBSET Blocks]

\* What is broken is neither a mirror nor a flushed image of chain state.
ASSUME BrokenAssumption ==
  LET Mirror == Seq([height : Nat, block : Blocks, carrier : Blocks \cup {None}])
  IN  Broken \notin Mirror /\ Broken \notin [tip : Blocks \cup {Root}, mirror : Mirror]

VARIABLES
  network,   \* the network the node is on; it never changes
  chosen,    \* chosen[h]: the block the committee certified at height h
  known,     \* blocks in the index, with their data
  failed,    \* blocks marked BLOCK_FAILED_VALID
  mode,      \* "down", "starting", "up", or "refused" to start
  tip,       \* the active chain's tip
  mirror,    \* the anchors of chain state, upward: [height, block, carrier]
  target,    \* the activation under way: [to, over], or None
  disk,      \* [tip, mirror] as flushed, or Broken
  store,     \* store[h]: the block saved as anchor of height h, or None
  journal    \* the block the signing journal records as final, or None

node == <<mode, tip, mirror, target>>
vars == <<network, chosen, known, failed, node, disk, store, journal>>

Max0(S) == Max(S \cup {0})
-----------------------------------------------------------------------------
(* The block tree.  ChainOf[b]: the blocks from height 1 to b.             *)
ChainOf ==
  LET chain[b \in Blocks \cup {Root}] ==
        IF b = Root THEN <<>> ELSE Append(chain[Parent[b]], b)
  IN  [b \in Blocks \cup {Root} |-> chain[b]]

Height(b) == Len(ChainOf[b])
Heights == 1..Max0({Height(b) : b \in Blocks})
FinalityAncestor(b, h) == ChainOf[b][h]

\* Following parents leads to Root, and each block of a chain has its part.
ASSUME ChainAssumption ==
  /\ ChainOf \in [Blocks \cup {Root} -> Seq(Blocks)]
  /\ ChainOf[Root] = <<>>
  /\ \A b \in Blocks :
       /\ ChainOf[b] = Append(ChainOf[Parent[b]], b)
       /\ Height(b) <= Cardinality(Blocks)
       /\ \A h \in 1..Height(b) : ChainOf[FinalityAncestor(b, h)] = SubSeq(ChainOf[b], 1, h)

\* Administrators agree on a checkpoint where finality has come to an end.
ASSUME RecoveryAssumption ==
  \A r \in {n.recovery : n \in Networks} \ {None} :
    \E h \in 1..(Height(r) - 1) : FinalityAncestor(r, h) \in Empty

On(b, chainTip) == b = Root \/ b \in ToSet(ChainOf[chainTip])

\* The bootstrap anchor is configured, and saved at first start.
Seeded == network.seeded

\* The checkpoint that administrators approve, or None.
Recovery == network.recovery

StoreHeight == Max0({h \in Heights : store[h] # None})
StoreTip == IF StoreHeight = 0 THEN Root ELSE store[StoreHeight]
HasSavedTip == Seeded \/ StoreHeight > 0

\* Variant: only a candidate as high as the saved tip is compared with it.
AllowedUnlessAbove(b) == Height(b) >= StoreHeight => On(StoreTip, b)

\* The saved anchor there is the approved one: its marker is written with it.
Marked == Recovery # None /\ store[Height(Recovery)] = Recovery

MirrorHeight(anchors) == IF anchors = <<>> THEN 0 ELSE Last(anchors).height

IsAllowedBySavedAnchor(b) == On(StoreTip, b) \/ On(b, StoreTip)
NotFailed(b) == ToSet(ChainOf[b]) \cap failed = {}

\* Variant: the certificate is not compared with the carrier's ancestry.
CertificateVerifiesAnyValue(b, parentHeight) ==
  /\ Carries[b] = parentHeight + 1
  /\ Carries[b] < Height(b)

(* The certificate that b carries is the one its own ancestry needs: it is *)
(* for the height after the given one, and for b's own ancestor there.     *)
CertificateVerifies(b, parentHeight) ==
  /\ Carries[b] = parentHeight + 1
  /\ Carries[b] < Height(b)
  /\ chosen[Carries[b]] = FinalityAncestor(b, Carries[b])

CertificateAccepted(b, anchors) ==
  Carries[b] # 0 =>
    /\ CertificateVerifies(b, MirrorHeight(anchors))
    /\ FinalityAncestor(b, Carries[b]) \notin Empty

ConnectBlockAccepts(b) == IsAllowedBySavedAnchor(b) /\ CertificateAccepted(b, mirror)

RecordAnchor(b, anchors) ==
  IF Carries[b] = 0 THEN anchors
  ELSE Append(anchors, [height |-> Carries[b],
                        block |-> FinalityAncestor(b, Carries[b]), carrier |-> b])

(* The mirror skips to the marked checkpoint, unless it is past it.        *)
RestoreRecovery(anchors) ==
  IF MirrorHeight(anchors) >= Height(Recovery) THEN anchors
  ELSE Append(anchors, [height |-> Height(Recovery), block |-> Recovery, carrier |-> None])

RestoreAccepts(anchors) ==
  MirrorHeight(anchors) >= Height(Recovery) =>
    \E i \in DOMAIN anchors : anchors[i].block = Recovery

\* Variant: a block restores no checkpoint, and only startup does.
MirrorAfterCertificate(b, anchors) == RecordAnchor(b, anchors)

(* The mirror after b: its anchor, then the checkpoint if b is marked.     *)
MirrorAfter(b, anchors) ==
  IF Marked /\ b = Recovery THEN RestoreRecovery(RecordAnchor(b, anchors))
  ELSE RecordAnchor(b, anchors)

(* Store::Write: a height at or below the saved tip only if it is the same *)
(* anchor again.                                                           *)
StoreAccepts(b) == Height(b) > StoreHeight \/ store[Height(b)] = b
StoreWrite(b) == store' = [store EXCEPT ![Height(b)] = b]

Running == mode \in {"starting", "up"}
-----------------------------------------------------------------------------
Init ==
  /\ network \in Networks
  /\ chosen = [h \in Heights |-> None]
  /\ known = {}
  /\ failed = {}
  /\ mode = "up"
  /\ tip = Root
  /\ mirror = <<>>
  /\ target = None
  /\ disk = [tip |-> Root, mirror |-> <<>>]
  /\ store = [h \in Heights |-> None]
  /\ journal = None

(* Finality has come to a height below b that is followed by an empty one. *)
DeadEndBelow(b) ==
  \E h \in 0..(Height(b) - 2) :
    /\ h > 0 => chosen[h] = FinalityAncestor(b, h)
    /\ FinalityAncestor(b, h + 1) \in Empty

(* The committee of the height before, if there is one, certifies a block  *)
(* on what it certified there, or on the checkpoint beyond a dead end.     *)
Certify(b) ==
  /\ chosen[Height(b)] = None
  /\ Parent[b] \notin Empty
  /\ \/ Parent[b] = Root
     \/ Parent[b] = Recovery /\ DeadEndBelow(b)
     \/ Parent[b] \in ToSet(chosen)
  /\ chosen' = [chosen EXCEPT ![Height(b)] = b]
  /\ UNCHANGED <<network, known, failed, node, disk, store, journal>>

(* A block arrives.  One that carries a certificate could only be made     *)
(* once there was such a certificate.                                      *)
Learn(b) ==
  /\ Running
  /\ b \notin known
  /\ Parent[b] \in known \cup {Root}
  /\ Carries[b] # 0 => chosen[Carries[b]] # None
  /\ known' = known \cup {b}
  /\ UNCHANGED <<network, chosen, failed, node, disk, store, journal>>

Activate(b) == target' = [to |-> b, over |-> Height(tip)]

\* FindMostWorkChain: a candidate with more work than the active chain.
BetterCandidates ==
  {b \in known : /\ Height(b) > Height(tip)
                 /\ NotFailed(b)
                 /\ IsAllowedBySavedAnchor(b)}

SelectCandidate(b) ==
  /\ Running
  /\ target = None
  /\ b \in BetterCandidates
  /\ Activate(b)
  /\ UNCHANGED <<network, chosen, known, failed, mode, tip, mirror, disk, store, journal>>

(* A received carrier on a branch without more work is preferred when its  *)
(* certificate is for the height after the saved tip.                      *)
CertifiedForkCandidate(b) ==
  /\ ~ On(b, tip)
  /\ Height(b) <= Height(tip)
  /\ HasSavedTip
  /\ Height(b) > StoreHeight + 1
  /\ IsAllowedBySavedAnchor(b)
  /\ NotFailed(b)
  /\ Carries[b] # 0 /\ CertificateVerifies(b, StoreHeight)

PreferCertified(b) ==
  /\ mode = "up"
  /\ target = None
  /\ b \in known
  /\ CertifiedForkCandidate(b)
  /\ Activate(b)
  /\ UNCHANGED <<network, chosen, known, failed, mode, tip, mirror, disk, store, journal>>

(* Only a block above the saved tip, or off the active chain.              *)
InvalidateBlock(b) ==
  /\ mode = "up"
  /\ target = None
  /\ b \in known \ failed
  /\ On(b, tip) => Height(b) > StoreHeight
  /\ failed' = failed \cup {b}
  /\ IF On(b, tip) THEN Activate(Parent[b]) ELSE UNCHANGED target
  /\ UNCHANGED <<network, chosen, known, mode, tip, mirror, disk, store, journal>>
-----------------------------------------------------------------------------
(* Dying, or AbortNode: what is in memory is gone.                         *)
Die(image) ==
  /\ mode' = "down"
  /\ target' = None
  /\ disk' = image
  /\ tip' = IF image = Broken THEN Root ELSE image.tip
  /\ mirror' = IF image = Broken THEN <<>> ELSE image.mirror

MemoryImage == [tip |-> tip, mirror |-> mirror]

(* The undo of a carrier removes the anchor it recorded from the mirror,   *)
(* where it must be the last one, and never from the store.                *)
UndoAccepts(b) == Carries[b] # 0 => mirror # <<>> /\ Last(mirror).carrier = b

\* Variant: the undo leaves the mirror alone, as it does the store.
UndoNothing(b) == mirror

UndoBlock(b) == IF Carries[b] = 0 THEN mirror ELSE Front(mirror)

DisconnectRefused == Height(tip) <= StoreHeight \/ ~ UndoAccepts(tip)

(* Back to the fork.  Where that fails the node aborts, unless it was told *)
(* to invalidate a block.                                                  *)
DisconnectTip ==
  /\ target # None
  /\ ~ On(tip, target.to)
  /\ \/ /\ ~ DisconnectRefused
        /\ tip' = Parent[tip]
        /\ mirror' = UndoBlock(tip)
        /\ target' = IF tip' = target.to THEN None ELSE target
        /\ UNCHANGED <<mode, disk>>
     \/ /\ DisconnectRefused
        /\ IF On(target.to, tip)
           THEN target' = None /\ UNCHANGED <<mode, tip, mirror, disk>>
           ELSE Die(disk)
  /\ UNCHANGED <<network, chosen, known, failed, store, journal>>

NextBlock == FinalityAncestor(target.to, Height(tip) + 1)
Connecting == target # None /\ On(tip, target.to)

ConnectInvalid ==
  /\ Connecting
  /\ ~ ConnectBlockAccepts(NextBlock)
  /\ failed' = failed \cup {NextBlock}
  /\ target' = None
  /\ UNCHANGED <<network, chosen, known, mode, tip, mirror, disk, store, journal>>

(* The lock is released once the chain is better than it was.              *)
\* Variant: only a heavier chain ends the activation.
AdvanceUntilHeavier(b) ==
  /\ tip' = b
  /\ mirror' = MirrorAfter(b, mirror)
  /\ target' = IF Height(b) > target.over THEN None ELSE target
  /\ UNCHANGED mode

Advance(b) ==
  /\ tip' = b
  /\ mirror' = MirrorAfter(b, mirror)
  /\ target' = IF b = target.to \/ Height(b) > target.over THEN None ELSE target
  /\ UNCHANGED mode

ConnectTip ==
  /\ Connecting
  /\ ConnectBlockAccepts(NextBlock)
  /\ Carries[NextBlock] = 0
  /\ Advance(NextBlock)
  /\ UNCHANGED <<network, chosen, known, failed, disk, store, journal>>

(* A carrier: chain state is flushed with it, then its anchor is saved.    *)
(* The node may die, or the write fail, in between.                        *)
ConnectCarrier ==
  LET b == NextBlock
      flushed == [tip |-> b, mirror |-> MirrorAfter(b, mirror)]
      anchor == FinalityAncestor(b, Carries[b])
  IN  /\ Connecting
      /\ ConnectBlockAccepts(b)
      /\ Carries[b] # 0
      /\ \/ Die(flushed) /\ UNCHANGED store
         \/ /\ StoreAccepts(anchor)
            /\ Advance(b)
            /\ disk' = flushed
            /\ StoreWrite(anchor)
      /\ UNCHANGED <<network, chosen, known, failed, journal>>
-----------------------------------------------------------------------------
(* The height the finality manager works on, and its block on the active   *)
(* chain; none while the chain does not contain the saved tip.             *)
VotingHeight ==
  IF HasSavedTip THEN StoreHeight + 1 ELSE MirrorHeight(mirror) + 1

\* Variant: the anchor is saved without flushing the chain it is on.
RecordCommitmentUnflushed ==
  LET h == VotingHeight
      b == FinalityAncestor(tip, h)
  IN  /\ Running
      /\ target = None
      /\ On(StoreTip, tip)
      /\ h <= Height(tip)
      /\ b = chosen[h]
      /\ MirrorHeight(mirror) + 1 = h
      /\ b \notin Empty
      /\ journal # None => Height(journal) < h \/ journal = b
      /\ journal' = b
      /\ StoreWrite(b)
      /\ UNCHANGED <<network, chosen, known, failed, node, disk>>

(* A certificate for it: chain state is flushed, the journal records the   *)
(* height as final, the anchor is saved.  The journal may hold it already. *)
RecordCommitment ==
  LET h == VotingHeight
      b == FinalityAncestor(tip, h)
  IN  /\ Running
      /\ target = None
      /\ On(StoreTip, tip)
      /\ h <= Height(tip)
      /\ b = chosen[h]
      /\ MirrorHeight(mirror) + 1 = h
      /\ b \notin Empty
      /\ journal # None => Height(journal) < h \/ journal = b
      /\ journal' = b
      /\ \/ Die(MemoryImage) /\ UNCHANGED store
         \/ disk' = MemoryImage /\ UNCHANGED <<node, store>>   \* the write failed
         \/ disk' = MemoryImage /\ UNCHANGED node /\ StoreWrite(b)
      /\ UNCHANGED <<network, chosen, known, failed>>

Flush ==
  /\ Running
  /\ disk' = MemoryImage
  /\ UNCHANGED <<network, chosen, known, failed, node, store, journal>>

(* Coins and EvoDB are written one after the other.                        *)
Crash ==
  /\ Running
  /\ \/ Die(disk)
     \/ disk # MemoryImage /\ Die(Broken)
  /\ UNCHANGED <<network, chosen, known, failed, store, journal>>

Start ==
  /\ mode = "down"
  /\ disk # Broken
  /\ mode' = "starting"
  /\ UNCHANGED <<network, chosen, known, failed, tip, mirror, target, disk, store, journal>>

\* Variant: -reindex rebuilds the saved anchors too.
ReindexWiping ==
  /\ mode = "down"
  /\ mode' = "starting"
  /\ failed' = {}
  /\ tip' = Root
  /\ mirror' = <<>>
  /\ disk' = [tip |-> Root, mirror |-> <<>>]
  /\ store' = [h \in Heights |-> None]
  /\ UNCHANGED <<network, chosen, known, target, journal>>

(* -reindex keeps the saved anchors and rebuilds the rest from block files.*)
Reindex ==
  /\ mode = "down"
  /\ mode' = "starting"
  /\ failed' = {}
  /\ tip' = Root
  /\ mirror' = <<>>
  /\ disk' = [tip |-> Root, mirror |-> <<>>]
  /\ UNCHANGED <<network, chosen, known, target, store, journal>>

(* The end of ThreadImport: nothing more to activate.  The saved tip must  *)
(* be on the active chain; a checkpoint whose marker was written but not   *)
(* mirrored is completed.                                                  *)
Imported == mode = "starting" /\ target = None /\ BetterCandidates = {}

FinishStart(restored) ==
  /\ IF On(StoreTip', tip) /\ (restored => RestoreAccepts(mirror))
     THEN mode' = "up" /\ mirror' = IF restored THEN RestoreRecovery(mirror) ELSE mirror
     ELSE mode' = "refused" /\ UNCHANGED mirror
  /\ disk' = IF HasSavedTip' THEN [tip |-> tip, mirror |-> mirror'] ELSE disk
  /\ UNCHANGED <<tip, target>>

Reconcile ==
  /\ Imported
  /\ UNCHANGED <<network, chosen, known, failed, store, journal>>
  /\ FinishStart(Marked /\ StoreTip = Recovery)

(* ValidateRecovery: the saved tip and the checkpoint are on the chain and *)
(* more follows; the first use is at a dead end; the checkpoint and the    *)
(* height after it have committees.                                        *)
RecoveryValid ==
  LET h == Height(Recovery)
  IN  /\ HasSavedTip
      /\ On(StoreTip, tip)
      /\ On(Recovery, tip) /\ h < Height(tip)
      /\ h <= StoreHeight => Marked
      /\ ~ Marked => FinalityAncestor(tip, StoreHeight + 1) \in Empty
      /\ {Recovery, FinalityAncestor(tip, h + 1)} \cap Empty = {}

(* The same with -pqemergencycheckpoint.  Chain state is flushed before    *)
(* the marker is saved as an anchor, and again with the mirror; the node   *)
(* may die in between.                                                     *)
ReconcileRecovery ==
  /\ Imported
  /\ Recovery # None
  /\ UNCHANGED <<network, chosen, known, failed, journal>>
  /\ \/ ~ RecoveryValid /\ Die(MemoryImage) /\ UNCHANGED store
     \/ /\ RecoveryValid
        /\ StoreWrite(Recovery)
        /\ Die(MemoryImage) \/ FinishStart(TRUE)

Next ==
  \/ \E b \in network.blocks :
       \/ Certify(b) \/ Learn(b) \/ SelectCandidate(b)
       \/ PreferCertified(b) \/ InvalidateBlock(b)
  \/ DisconnectTip
  \/ ConnectInvalid
  \/ ConnectTip
  \/ ConnectCarrier
  \/ RecordCommitment
  \/ Flush
  \/ Crash
  \/ Start
  \/ Reindex
  \/ Reconcile
  \/ ReconcileRecovery

Spec == Init /\ [][Next]_vars
-----------------------------------------------------------------------------
TypeOK ==
  /\ network \in Networks
  /\ chosen \in [Heights -> Blocks \cup {None}]
  /\ known \subseteq Blocks
  /\ failed \subseteq Blocks
  /\ mode \in {"down", "starting", "up", "refused"}
  /\ tip \in Blocks \cup {Root}
  /\ target # None =>
       /\ target.to \in (Blocks \cup {Root}) \ {tip}
       /\ target.over \in 0..Cardinality(Blocks)
  /\ store \in [Heights -> Blocks \cup {None}]
  /\ journal \in Blocks \cup {None}

(* Chain state and its mirror never part, in memory or on disk, through    *)
(* any sequence of reorganizations: an anchor for every height up to the   *)
(* last carrier of the chain, on the chain, with the block that carried    *)
(* it.  Only the checkpoint skips heights, and a node that has one saved   *)
(* does not run without it in its mirror.                                  *)
Mirrors(m, chainTip) ==
  /\ {m[i].carrier : i \in DOMAIN m} \ {None} =
       {c \in ToSet(ChainOf[chainTip]) : Carries[c] # 0}
  /\ \A i \in DOMAIN m :
       LET below == MirrorHeight(SubSeq(m, 1, i - 1))
       IN  /\ m[i].block = FinalityAncestor(chainTip, m[i].height)
           /\ IF m[i].carrier = None
              THEN Marked /\ m[i].block = Recovery /\ m[i].height > below
              ELSE Carries[m[i].carrier] = m[i].height /\ m[i].height = below + 1

MirrorMatchesChain ==
  /\ Mirrors(mirror, tip)
  /\ disk # Broken => Mirrors(disk.mirror, disk.tip)
  /\ mode = "up" /\ Marked => \E i \in DOMAIN mirror : mirror[i].block = Recovery

(* A saved anchor is what the committee chose at its height, or what the   *)
(* administrators approved beyond a dead end, and the active chain of a    *)
(* node that has started always contains the last one.                     *)
SavedAnchorsHold ==
  /\ \A h \in Heights : store[h] \in {None, chosen[h], Recovery}
  /\ Marked => DeadEndBelow(Recovery)
  /\ mode = "up" => On(StoreTip, tip)

(* An anchor is saved only after the chain it is on: whenever the node     *)
(* dies, the flushed chain leads to the last saved anchor or can still be  *)
(* extended to it, so that a restart is never refused.                     *)
RestartAccepted ==
  /\ mode # "refused"
  /\ disk # Broken => On(StoreTip, disk.tip) \/ On(disk.tip, StoreTip)

(* No activation the node decides on needs to undo a block at or below the *)
(* saved tip, even when connecting a carrier on the way moves that tip,    *)
(* nor a carrier whose anchor is not the mirror's last: the failures of    *)
(* DisconnectTip, which abort the node, are never reached.                 *)
NeverForcedToAbort ==
  target # None /\ ~ On(tip, target.to) => ~ DisconnectRefused

(* doc/pq-only.md: "use explicit `-reindex` or `-reindex-chainstate` to    *)
(* rebuild from existing block files.  Reindex does not reset the chain".  *)
(* Connected once more from the start, with the markers now saved, the     *)
(* blocks of a running node's chain are all accepted again.                *)
ReindexKeepsChain ==
  LET replay[b \in Blocks \cup {Root}] ==
        IF b = Root THEN <<>>
        ELSE IF replay[Parent[b]] = Broken \/ ~ CertificateAccepted(b, replay[Parent[b]])
        THEN Broken
        ELSE MirrorAfter(b, replay[Parent[b]])
  IN  mode = "up" => replay[tip] # Broken

(* Saved anchors are for ever, across crashes, reorganizations and reindex.*)
SavedForEver ==
  [][/\ StoreHeight' >= StoreHeight
     /\ \A h \in Heights : store[h] # None => store'[h] = store[h]]_vars

(* doc/pq-only.md: "Nodes retain finalized checkpoints and reject          *)
(* conflicting branches. [...] After a certificate, durable anchor         *)
(* protection applies."  Once a certificate for a block has been validated *)
(* in a block of the flushed chain, the block stays on the chain of a      *)
(* running node that nobody told to invalidate a block.                    *)
CheckpointRetained ==
  [][mode = "up" /\ mode' = "up" /\ failed' = {} =>
       \A h \in 1..Len(disk.mirror) :
         On(disk.mirror[h].block, tip) => On(disk.mirror[h].block, tip')]_vars
=============================================================================
