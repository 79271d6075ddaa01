-------------------------- MODULE PQRegistryProofs --------------------------
(***************************************************************************)
(* The reverse index stays exact and every undo of DisconnectBlock is      *)
(* accepted and exact, for every chain, every set of transactions and      *)
(* every parameter of the registry.                                        *)
(*                                                                         *)
(* That the registry is consistent now says nothing about the state that   *)
(* the next undo leads to, so the invariant speaks of all the states the   *)
(* active chain went through: each one is sound, and the undo of each step *)
(* leads from the state after it to the state before it.  No undo entry    *)
(* stands for a block above the tip, so a step never overwrites one.       *)
(*                                                                         *)
(* On top of it, one part each: the snapshots give every height the        *)
(* committee of its registry, at each of those states the collaterals are  *)
(* unspent coins and the last heartbeats are those of the chain, and the   *)
(* places in the payment queue are those that the payments before gave.    *)
(***************************************************************************)
EXTENDS PQRegistry, PQMasternodeProofs, SequenceTheorems, FiniteSetTheorems

-----------------------------------------------------------------------------
(* Sequences, whatever they hold.                                          *)
IsSeq(s) == s \in Seq({s[i] : i \in DOMAIN s})

LEMMA SeqIs ==
  ASSUME NEW S, NEW s \in Seq(S)
  PROVE  IsSeq(s)
<1>1. Len(s) \in Nat /\ DOMAIN s = 1..Len(s) /\ s \in [1..Len(s) -> S]
  BY LenProperties
<1>2. s \in [1..Len(s) -> {s[i] : i \in DOMAIN s}]
  BY <1>1
<1> QED BY <1>1, <1>2, SeqDef DEF IsSeq

LEMMA SeqFacts ==
  ASSUME NEW s, IsSeq(s)
  PROVE  /\ Len(s) \in Nat
         /\ DOMAIN s = 1..Len(s)
         /\ s = <<>> <=> Len(s) = 0
         /\ Last(s) = s[Len(s)]
BY LenProperties, EmptySeq DEF IsSeq, Last

LEMMA AppendFacts ==
  ASSUME NEW s, IsSeq(s), NEW x
  PROVE  /\ IsSeq(Append(s, x))
         /\ Len(Append(s, x)) = Len(s) + 1
         /\ \A i \in 1..Len(s) : Append(s, x)[i] = s[i]
         /\ Append(s, x)[Len(s) + 1] = x
         /\ Last(Append(s, x)) = x
<1> DEFINE S == {s[i] : i \in DOMAIN s} \cup {x}
<1>1. s \in Seq(S) /\ x \in S
  BY SeqMonotonic DEF IsSeq
<1> HIDE DEF S
<1>2. /\ Append(s, x) \in Seq(S)
      /\ Len(Append(s, x)) = Len(s) + 1
      /\ \A i \in 1..Len(s) : Append(s, x)[i] = s[i]
      /\ Append(s, x)[Len(s) + 1] = x
  BY <1>1, AppendProperties
<1> QED BY <1>2, SeqIs DEF Last

LEMMA FrontFacts ==
  ASSUME NEW s, IsSeq(s), s # <<>>
  PROVE  /\ IsSeq(Front(s))
         /\ Len(Front(s)) = Len(s) - 1
         /\ \A i \in 1..(Len(s) - 1) : Front(s)[i] = s[i]
<1> DEFINE S == {s[i] : i \in DOMAIN s}
<1>1. Len(s) \in Nat \ {0} /\ DOMAIN s = 1..Len(s)
  BY SeqFacts
<1>2. \A i \in 1..(Len(s) - 1) : s[i] \in S
  BY <1>1
<1> HIDE DEF S
<1>3. /\ Front(s) \in Seq(S)
      /\ Len(Front(s)) = Len(s) - 1
      /\ \A i \in 1..(Len(s) - 1) : Front(s)[i] = s[i]
  BY <1>1, <1>2, SubSeqProperties DEF Front
<1> QED BY <1>3, SeqIs

LEMMA PairFacts ==
  ASSUME NEW x, NEW y
  PROVE  /\ IsSeq(<<x, y>>)
         /\ Len(<<x, y>>) = 2
         /\ <<x, y>>[1] = x /\ <<x, y>>[2] = y
         /\ Last(<<x, y>>) = y
<1>1. <<x, y>> \in Seq({x, y})
  OBVIOUS
<1> QED BY <1>1, SeqIs DEF Last

-----------------------------------------------------------------------------
(* The coins of a chain.                                                   *)
LEMMA MaxIs ==
  ASSUME NEW S, NEW m \in Nat, S \subseteq 0..m, S # {}
  PROVE  Max(S) \in S /\ \A n \in S : n <= Max(S)
<1>1. PICK d \in {m - n : n \in S} : \A e \in {m - n : n \in S} : d <= e
  <2> DEFINE D == {m - n : n \in S}
  <2>a. \A n \in S : m - n \in Nat
    OBVIOUS
  <2>1. D \subseteq Nat /\ D # {}
    BY <2>a
  <2> HIDE DEF D
  <2>2. \E d \in D : \A e \in D : d <= e
    BY <2>1, LeastNat
  <2> QED BY <2>2 DEF D
<1>2. PICK x \in S : d = m - x
  BY <1>1
<1>3. \A y \in S : x >= y
  <2> SUFFICES ASSUME NEW y \in S PROVE x >= y
    OBVIOUS
  <2>1. m - x <= m - y
    BY <1>1, <1>2
  <2> QED BY <1>2, <2>1
<1> QED BY <1>2, <1>3 DEF Max

LEMMA MaxNat ==
  ASSUME NEW S, NEW m \in Nat, S \subseteq 0..m, S # {}
  PROVE  Max(S) \in S
BY MaxIs

LEMMA CoinsTyped ==
  ASSUME NEW blocks, IsSeq(blocks), BaseHeight + Len(blocks) <= MaxHeight
  PROVE  CoinsIn(blocks) \in [Coins -> Heights \cup {0}]
<1>1. BaseHeight \in Nat \ {0} /\ MaxHeight \in Nat /\ BaseHeight <= MaxHeight
  BY ChainAssumption, RegistryAssumption DEF Heights
<1>2. Len(blocks) \in Nat /\ DOMAIN blocks = 1..Len(blocks)
  BY SeqFacts
<1>3. ASSUME NEW c \in Coins
      PROVE  Max({0} \cup {BaseHeight + i : i \in Created(blocks, c)}) \in Heights \cup {0}
  <2> DEFINE above == {BaseHeight + i : i \in Created(blocks, c)}
             S == {0} \cup above
  <2>a. \A i \in Created(blocks, c) : BaseHeight + i \in 0..MaxHeight
    BY <1>1, <1>2 DEF Created
  <2>b. above \subseteq 0..MaxHeight
    BY <2>a
  <2>1. S \subseteq 0..MaxHeight /\ S # {}
    BY ONLY <1>1, <2>b
  <2> HIDE DEF S
  <2>2. Max(S) \in S
    BY <1>1, <2>1, MaxNat
  <2>c. Max(S) \in 0..MaxHeight
    BY <2>1, <2>2
  <2>d. 0..MaxHeight \subseteq Heights \cup {0}
    BY <1>1 DEF Heights
  <2>3. Max(S) \in Heights \cup {0}
    BY <2>c, <2>d
  <2> QED BY <2>3 DEF S
<1>4. \A c \in Wallet : WalletHeight[c] \in Heights
  BY <1>1, ChainAssumption DEF Heights
<1> QED BY <1>3, <1>4 DEF CoinsIn

-----------------------------------------------------------------------------
(* The states a block leads the registry through.                          *)
Below(R, i, height) ==
  /\ \A h \in DOMAIN R.paid : h <= height /\ (i = 1 => h < height)
  /\ \A h \in DOMAIN R.beats : h <= height /\ (i <= 2 => h < height)

StepsOK(states, txs, height) ==
  /\ IsSeq(states)
  /\ \A i \in 1..Len(states) : Sound(states[i]) /\ Below(states[i], i, height)
  /\ Len(states) >= 2 =>
       CanUndoPayment(states[2], height) /\ UndoPayment(states[2], height) = states[1]
  /\ Len(states) >= 3 =>
       CanUndoBeat(states[3], height) /\ UndoBeat(states[3], height) = states[2]
  /\ \A i \in 1..(Len(states) - 3) :
       CanUndo(states[i + 3], txs[i]) /\ Undo(states[i + 3], txs[i]) = states[i + 2]

LEMMA StepsPrefix ==
  ASSUME NEW states, NEW txs, NEW height, StepsOK(states, txs, height),
         NEW prefix, NEW some, IsSeq(prefix), Len(prefix) <= Len(states),
         \A i \in 1..Len(prefix) : prefix[i] = states[i],
         \A i \in 1..(Len(prefix) - 3) : some[i] = txs[i]
  PROVE  StepsOK(prefix, some, height)
<1>1. Len(states) \in Nat /\ Len(prefix) \in Nat
  BY SeqFacts DEF StepsOK
<1> QED BY <1>1 DEF StepsOK

\* The registry after the first n blocks of a chain with this past.
RegistryAt(p, n) == IF n = 0 THEN Empty ELSE Last(p[n])

PastIs(p, c) ==
  /\ IsSeq(p) /\ IsSeq(c)
  /\ Len(p) = Len(c)
  /\ \A i \in 1..Len(c) :
       /\ StepsOK(p[i], c[i].txs, BaseHeight + i)
       /\ Len(p[i]) = Len(c[i].txs) + 3
       /\ p[i][1] = RegistryAt(p, i - 1)

LEMMA EmptySound == Sound(Empty) /\ DOMAIN Empty.paid = {} /\ DOMAIN Empty.beats = {}
<1>1. Empty.record = [id \in Txs |-> None] /\ Empty.owner = [p \in Properties |-> None]
      /\ Empty.undo = <<>> /\ Empty.beats = <<>> /\ Empty.paid = <<>>
  BY DEF Empty
<1>2. DOMAIN <<>> = {} /\ <<>> = [k \in DOMAIN <<>> |-> <<>>[k]]
  OBVIOUS
<1>3. RegistryOK(Empty)
  BY <1>1, <1>2 DEF RegistryOK, Table, Empty
<1>4. IndexOf(Empty)
  BY <1>1, RegistryAssumption DEF IndexOf
<1> QED BY <1>1, <1>2, <1>3, <1>4 DEF Sound

LEMMA PastTip ==
  ASSUME NEW p, NEW c, PastIs(p, c), \A i \in 1..Len(c) : IsSeq(c[i].txs)
  PROVE  /\ Sound(RegistryAt(p, Len(c)))
         /\ \A h \in DOMAIN RegistryAt(p, Len(c)).paid \cup DOMAIN RegistryAt(p, Len(c)).beats :
              h <= BaseHeight + Len(c)
<1>1. Len(c) \in Nat
  BY SeqFacts DEF PastIs
<1>2. CASE Len(c) = 0
  BY <1>2, EmptySound DEF RegistryAt
<1>3. CASE Len(c) # 0
  <2> DEFINE n == Len(p[Len(c)])
  <2>1. Len(c) \in 1..Len(c)
    BY <1>1, <1>3
  <2>2. StepsOK(p[Len(c)], c[Len(c)].txs, BaseHeight + Len(c)) /\ n = Len(c[Len(c)].txs) + 3
    BY <2>1 DEF PastIs
  <2>3. n \in 1..n
    BY <2>1, <2>2, SeqFacts
  <2>4. RegistryAt(p, Len(c)) = p[Len(c)][n]
    BY <1>3 DEF RegistryAt, Last
  <2> HIDE DEF n
  <2> QED BY <2>2, <2>3, <2>4 DEF StepsOK, Below, n
<1> QED BY <1>2, <1>3

LEMMA PastAppend ==
  ASSUME NEW p, NEW c, PastIs(p, c), NEW b, NEW states,
         StepsOK(states, b.txs, BaseHeight + Len(c) + 1), Len(states) = Len(b.txs) + 3,
         states[1] = RegistryAt(p, Len(c))
  PROVE  /\ PastIs(Append(p, states), Append(c, b))
         /\ RegistryAt(Append(p, states), Len(Append(c, b))) = Last(states)
<1> DEFINE q == Append(p, states)
           d == Append(c, b)
<1>1. IsSeq(p) /\ IsSeq(c) /\ Len(p) = Len(c) /\ Len(c) \in Nat
  BY SeqFacts DEF PastIs
<1>2. /\ IsSeq(q) /\ IsSeq(d) /\ Len(q) = Len(c) + 1 /\ Len(d) = Len(c) + 1
      /\ \A i \in 1..Len(c) : q[i] = p[i] /\ d[i] = c[i]
      /\ q[Len(c) + 1] = states /\ d[Len(c) + 1] = b
  BY <1>1, AppendFacts
<1> HIDE DEF q, d
<1>3. \A i \in 0..Len(c) : RegistryAt(q, i) = RegistryAt(p, i)
  BY <1>1, <1>2 DEF RegistryAt
<1>4. ASSUME NEW i \in 1..Len(d)
      PROVE  /\ StepsOK(q[i], d[i].txs, BaseHeight + i)
             /\ Len(q[i]) = Len(d[i].txs) + 3
             /\ q[i][1] = RegistryAt(q, i - 1)
  <2>0. BaseHeight \in Nat
    BY ChainAssumption DEF Heights
  <2>1. CASE i \in 1..Len(c)
    <3>1. i - 1 \in 0..Len(c)
      BY <1>1, <2>1
    <3> QED BY <1>2, <1>3, <2>1, <3>1 DEF PastIs
  <2>2. CASE i = Len(c) + 1
    <3>1. i - 1 = Len(c) /\ BaseHeight + i = BaseHeight + Len(c) + 1 /\ Len(c) \in 0..Len(c)
      BY <1>1, <2>0, <2>2
    <3> QED BY <1>2, <1>3, <2>2, <3>1
  <2> QED BY <1>1, <1>2, <2>1, <2>2
<1>5. RegistryAt(q, Len(d)) = Last(states)
  BY <1>1, <1>2 DEF RegistryAt
<1> QED BY <1>2, <1>4, <1>5 DEF PastIs, q, d

LEMMA PastFront ==
  ASSUME NEW p, NEW c, PastIs(p, c), c # <<>>
  PROVE  /\ PastIs(Front(p), Front(c))
         /\ RegistryAt(Front(p), Len(Front(c))) = RegistryAt(p, Len(c) - 1)
<1> DEFINE q == Front(p)
           d == Front(c)
<1>1. IsSeq(p) /\ IsSeq(c) /\ Len(p) = Len(c) /\ Len(c) \in Nat \ {0}
  BY SeqFacts DEF PastIs
<1>2. /\ IsSeq(q) /\ IsSeq(d) /\ Len(q) = Len(c) - 1 /\ Len(d) = Len(c) - 1
      /\ \A i \in 1..(Len(c) - 1) : q[i] = p[i] /\ d[i] = c[i]
  BY <1>1, SeqFacts, FrontFacts
<1> HIDE DEF q, d
<1>3. \A i \in 0..(Len(c) - 1) : RegistryAt(q, i) = RegistryAt(p, i)
  BY <1>1, <1>2 DEF RegistryAt
<1>4. ASSUME NEW i \in 1..Len(d)
      PROVE  /\ StepsOK(q[i], d[i].txs, BaseHeight + i)
             /\ Len(q[i]) = Len(d[i].txs) + 3
             /\ q[i][1] = RegistryAt(q, i - 1)
  <2>1. i \in 1..Len(c) /\ i \in 1..(Len(c) - 1) /\ i - 1 \in 0..(Len(c) - 1)
    BY <1>1, <1>2
  <2> QED BY <1>2, <1>3, <2>1 DEF PastIs
<1>5. Len(d) \in 0..(Len(c) - 1)
  BY <1>1, <1>2
<1> QED BY <1>1, <1>2, <1>3, <1>4, <1>5 DEF PastIs, q, d
-----------------------------------------------------------------------------
(* The invariant.                                                          *)
StepsLength ==
  IF stage \in {"paid", "unbeaten"} THEN 2
  ELSE IF stage \in {"unpaid", "undone"} THEN 1
  ELSE Len(block.txs) + 3

\* The block under way is this one above the first.
Number == IF stage \in Disconnecting THEN Len(chain) ELSE Len(chain) + 1

UnderWay ==
  /\ StepsOK(steps, block.txs, Height)
  /\ Len(steps) = StepsLength
  /\ registry = Last(steps)
  /\ steps[1] = RegistryAt(past, Number - 1)
  /\ stage \in {"paid", "unbeaten", "unpaid", "undone"} => block.txs = <<>>
  /\ stage \in Connecting => Tip < MaxHeight
  /\ stage \in Disconnecting => chain # <<>>

Typed ==
  /\ chain \in Seq(Block)
  /\ block \in Block
  /\ Tip <= MaxHeight
  /\ stage \in Stages

RInv ==
  /\ Typed
  /\ PastIs(past, chain)
  /\ saved.registry = RegistryAt(past, Len(chain))
  /\ stage = "idle" => registry = RegistryAt(past, Len(chain)) /\ block = NoBlock
  /\ stage # "idle" => UnderWay

LEMMA Bounds ==
  ASSUME Typed
  PROVE  /\ Len(chain) \in Nat /\ Len(block.txs) \in Nat
         /\ BaseHeight \in Nat /\ MaxHeight \in Nat /\ Tip \in Nat
         /\ IsSeq(chain) /\ IsSeq(block.txs)
         /\ \A i \in 1..Len(chain) : chain[i] \in Block /\ IsSeq(chain[i].txs)
         /\ chain = <<>> <=> Len(chain) = 0
         /\ block.txs = <<>> <=> Len(block.txs) = 0
         /\ Tip < MaxHeight => Tip + 1 \in Heights
<1>1. \A b \in Block : IsSeq(b.txs)
  BY SeqIs DEF Block
<1>2. \A i \in 1..Len(chain) : chain[i] \in Block
  BY ElementOfSeq DEF Typed
<1>3. BaseHeight \in Nat /\ BaseHeight >= 1 /\ MaxHeight \in Nat
  BY ChainAssumption, RegistryAssumption DEF Heights
<1>4. IsSeq(chain)
  BY SeqIs DEF Typed
<1>5. IsSeq(block.txs)
  BY <1>1 DEF Typed
<1>6. Len(chain) \in Nat /\ (chain = <<>> <=> Len(chain) = 0)
  BY <1>4, SeqFacts
<1>7. Len(block.txs) \in Nat /\ (block.txs = <<>> <=> Len(block.txs) = 0)
  BY <1>5, SeqFacts
<1>8. Tip \in Nat /\ (Tip < MaxHeight => Tip + 1 \in Heights)
  BY <1>3, <1>6 DEF Tip, Heights
<1> QED BY <1>1, <1>2, <1>3, <1>4, <1>5, <1>6, <1>7, <1>8

(* The current registry is sound and has no entry above the tip, or above  *)
(* the block under way.                                                    *)
LEMMA Current ==
  ASSUME RInv
  PROVE  /\ Sound(registry)
         /\ stage = "idle" => \A h \in DOMAIN registry.paid \cup DOMAIN registry.beats : h <= Tip
         /\ stage = "paid" => \A h \in DOMAIN registry.beats : h < Height
<1>1. /\ Sound(RegistryAt(past, Len(chain)))
      /\ \A h \in DOMAIN RegistryAt(past, Len(chain)).paid \cup DOMAIN RegistryAt(past, Len(chain)).beats :
           h <= Tip
  BY PastTip, Bounds DEF RInv, Tip
<1>2. CASE stage = "idle"
  BY <1>1, <1>2 DEF RInv
<1>3. CASE stage # "idle"
  <2>1. UnderWay
    BY <1>3 DEF RInv
  <2>2. Len(steps) \in 1..Len(steps)
    BY <2>1, Bounds DEF UnderWay, StepsLength, RInv
  <2>3. Sound(registry) /\ Below(registry, Len(steps), Height)
    BY <2>1, <2>2 DEF UnderWay, StepsOK, Last
  <2>4. stage = "paid" => Len(steps) = 2
    BY <2>1 DEF UnderWay, StepsLength
  <2>5. ASSUME stage = "paid" PROVE \A h \in DOMAIN registry.beats : h < Height
    <3>1. Below(registry, 2, Height)
      BY <2>3, <2>4, <2>5
    <3> QED BY <3>1 DEF Below
  <2> QED BY <1>3, <2>3, <2>5
<1> QED BY <1>2, <1>3

LEMMA InitRInv == Init => RInv
<1> SUFFICES ASSUME Init PROVE RInv
  OBVIOUS
<1>1. IsSeq(<<>>) /\ Len(<<>>) = 0 /\ <<>> \in Seq(Block) /\ <<>> \in Seq(Txs)
  BY SeqIs, EmptySeq
<1>2. PastIs(<<>>, <<>>)
  BY <1>1 DEF PastIs
<1>3. BaseHeight \in Nat /\ BaseHeight <= MaxHeight
  BY ChainAssumption, RegistryAssumption DEF Heights
<1>4. NoBlock \in Block
  BY <1>1 DEF NoBlock, Block
<1>5. Typed
  BY <1>1, <1>3, <1>4 DEF Init, Typed, Tip, Stages
<1>6. /\ saved.registry = RegistryAt(past, Len(chain)) /\ registry = RegistryAt(past, Len(chain))
  BY <1>1 DEF Init, RegistryAt
<1> QED BY <1>2, <1>5, <1>6 DEF Init, RInv

LEMMA PayRInv == RInv /\ PayMasternode => RInv'
<1> SUFFICES ASSUME RInv, PayMasternode PROVE RInv'
  OBVIOUS
<1>1. Typed /\ stage = "idle" /\ stage' = "paid" /\ Height = Tip + 1 /\ Tip < MaxHeight
      /\ Height' = Tip + 1 /\ Tip' = Tip
  BY DEF RInv, PayMasternode, Height, Tip, Disconnecting
<1> DEFINE Q == Pay(registry, Height)
<1>2. Height \in Heights /\ Height \notin DOMAIN registry.paid
  BY <1>1, Bounds, Current
<1>3. Change(Reward(registry, Height)) /\ CanReplace(registry, Reward(registry, Height))
      /\ Sound(registry)
  BY <1>2, RewardTyped, Current DEF Sound, PayMasternode
<1>4. /\ Sound(Q)
      /\ DOMAIN Q.paid = DOMAIN registry.paid \cup {Height}
      /\ Q.beats = registry.beats
      /\ CanUndoPayment(Q, Height)
      /\ UndoPayment(Q, Height) = registry
  BY <1>2, <1>3, UndoRevertsPay DEF Pay
<1> HIDE DEF Q
<1>5. steps' = <<registry, Q>> /\ registry' = Q /\ block' = NoBlock /\ NoBlock.txs = <<>>
  BY DEF PayMasternode, RInv, Q, NoBlock
<1>6. /\ IsSeq(steps') /\ Len(steps') = 2 /\ steps'[1] = registry /\ steps'[2] = Q
      /\ Last(steps') = Q
  BY <1>5, PairFacts
<1>7. Below(registry, 1, Height) /\ Below(Q, 2, Height)
  <2>1. \A h \in DOMAIN registry.paid \cup DOMAIN registry.beats : h \in Nat /\ h < Height
    BY <1>1, Current, Bounds DEF Sound, RegistryOK, Table, Heights
  <2> QED BY <1>2, <1>4, <2>1 DEF Below, Heights
<1>8. StepsOK(steps', <<>>, Height)
  <2>1. \A i \in 1..2 : i = 1 \/ i = 2
    OBVIOUS
  <2> QED BY <1>3, <1>4, <1>6, <1>7, <2>1 DEF StepsOK
<1>9. UnderWay'
  <2>1. registry = RegistryAt(past, Len(chain)) /\ Len(chain) \in Nat /\ (Len(chain) + 1) - 1 = Len(chain)
    BY <1>1, Bounds DEF RInv
  <2>2. chain' = chain /\ past' = past
    BY DEF PayMasternode
  <2> QED BY <1>1, <1>5, <1>6, <1>8, <2>1, <2>2
          DEF UnderWay, StepsLength, Number, Connecting, Disconnecting
<1> QED BY <1>1, <1>9 DEF RInv, PayMasternode, Typed, Stages, Connecting

\* The states of the block under way grow by one.
LEMMA StepsAppend ==
  ASSUME NEW states, NEW txs, NEW more, NEW height, NEW R,
         StepsOK(states, txs, height), Len(states) = 2 \/ Len(states) >= 3, Len(txs) \in Nat,
         \A i \in 1..(Len(states) - 3) : more[i] = txs[i],
         Sound(R), Below(R, Len(states) + 1, height),
         Len(states) = 2 => CanUndoBeat(R, height) /\ UndoBeat(R, height) = Last(states),
         Len(states) >= 3 =>
           /\ CanUndo(R, more[Len(states) - 2])
           /\ Undo(R, more[Len(states) - 2]) = Last(states)
  PROVE  StepsOK(Append(states, R), more, height)
<1> DEFINE longer == Append(states, R)
           n == Len(states)
<1>1. IsSeq(states) /\ n \in Nat
  BY SeqFacts DEF StepsOK
<1>a. n = 2 \/ n >= 3
  OBVIOUS
<1>2. /\ IsSeq(longer) /\ Len(longer) = n + 1
      /\ \A i \in 1..n : longer[i] = states[i]
      /\ longer[n + 1] = R /\ Last(states) = states[n]
  BY <1>1, AppendFacts DEF Last
<1> HIDE DEF longer, n
<1>3. \A i \in 1..(n + 1) : Sound(longer[i]) /\ Below(longer[i], i, height)
  <2>1. \A i \in 1..(n + 1) : i \in 1..n \/ i = n + 1
    BY <1>1
  <2> QED BY <1>2, <2>1 DEF StepsOK, n
<1>4. CanUndoPayment(longer[2], height) /\ UndoPayment(longer[2], height) = longer[1]
  <2>1. 1 \in 1..n /\ 2 \in 1..n
    BY <1>1, <1>a
  <2> QED BY <1>2, <2>1 DEF StepsOK, n
<1>5. n + 1 >= 3 => CanUndoBeat(longer[3], height) /\ UndoBeat(longer[3], height) = longer[2]
  <2>1. CASE n = 2
    <3>1. longer[3] = R /\ longer[2] = Last(states)
      BY <1>2, <2>1
    <3>2. CanUndoBeat(R, height) /\ UndoBeat(R, height) = Last(states)
      BY <2>1 DEF n
    <3> QED BY <3>1, <3>2
  <2>2. CASE n >= 3
    <3>1. 2 \in 1..n /\ 3 \in 1..n
      BY <1>1, <2>2
    <3> QED BY <1>2, <2>2, <3>1 DEF StepsOK, n
  <2> QED BY <1>a, <2>1, <2>2
<1>6. ASSUME NEW i \in 1..(n - 2)
      PROVE  CanUndo(longer[i + 3], more[i]) /\ Undo(longer[i + 3], more[i]) = longer[i + 2]
  <2>1. CASE i \in 1..(n - 3)
    <3>1. i + 3 \in 1..n /\ i + 2 \in 1..n
      BY <1>1, <2>1
    <3> QED BY <1>2, <2>1, <3>1 DEF StepsOK, n
  <2>2. CASE i = n - 2
    <3>1. i + 3 = n + 1 /\ i + 2 = n /\ n \in 1..n /\ n >= 3
      BY <1>1, <1>6, <2>2
    <3> QED BY <1>2, <2>2, <3>1 DEF n
  <2> QED BY <1>1, <1>6, <2>1, <2>2
<1>7. Len(longer) - 3 = n - 2
  BY <1>1, <1>2
<1> QED BY <1>2, <1>3, <1>4, <1>5, <1>6, <1>7 DEF StepsOK, longer

LEMMA BeatRInv == RInv /\ TakeHeartbeats => RInv'
<1> SUFFICES ASSUME RInv, TakeHeartbeats PROVE RInv'
  OBVIOUS
<1>1. Typed /\ stage = "paid" /\ stage' = "applying" /\ Height = Tip + 1 /\ Height' = Height
      /\ chain' = chain /\ saved' = saved /\ past' = past
  BY DEF RInv, TakeHeartbeats, Height, Tip, Disconnecting
<1>2. /\ UnderWay /\ Len(steps) = 2 /\ block.txs = <<>> /\ Tip < MaxHeight
  BY <1>1 DEF RInv, UnderWay, StepsLength, Connecting
<1>3. Height \in Heights
  BY <1>1, <1>2, Bounds
<1>4. PICK batch \in SUBSET {beat \in Heartbeats : Verify(registry, beat, Tip)} :
        /\ CanBeat(registry, batch, Tip)
        /\ CanReplace(registry, Alive(registry, batch))
        /\ block' = [block EXCEPT !.beats = batch]
        /\ Advance(Beat(registry, batch, Height))
  BY DEF TakeHeartbeats
<1> DEFINE Q == Beat(registry, batch, Height)
<1>5. Change(Alive(registry, batch)) /\ Sound(registry) /\ Height \notin DOMAIN registry.beats
  <2>1. \A beat \in batch : Verify(registry, beat, Tip) /\ beat.height \in Heights
    BY <1>4 DEF Heartbeats
  <2>2. Sound(registry) /\ \A h \in DOMAIN registry.beats : h < Height
    BY <1>1, Current
  <2> QED BY <1>3, <2>1, <2>2, AliveTyped DEF Sound, Heights
<1>6. /\ Sound(Q)
      /\ DOMAIN Q.beats = DOMAIN registry.beats \cup {Height}
      /\ Q.paid = registry.paid
      /\ CanUndoBeat(Q, Height)
      /\ UndoBeat(Q, Height) = registry
  BY <1>3, <1>4, <1>5, UndoRevertsBeat DEF Beat
<1> HIDE DEF Q
<1>7. registry' = Q /\ steps' = Append(steps, Q)
  BY <1>4 DEF Advance, Q
<1>8. block' \in Block /\ block'.txs = <<>>
  BY <1>1, <1>2, <1>4 DEF Typed, Block
<1>9. Below(registry, 2, Height)
  BY <1>2 DEF UnderWay, StepsOK, Last
<1>10. Below(Q, 3, Height)
  <2>1. Height \in Nat
    BY <1>3 DEF Heights
  <2> QED BY <1>6, <1>9, <2>1 DEF Below
<1>11. IsSeq(<<>>) /\ Len(<<>>) = 0
  BY SeqIs, EmptySeq
<1>12. StepsOK(steps', <<>>, Height)
  <2>1. StepsOK(steps, <<>>, Height) /\ registry = Last(steps)
    BY <1>2 DEF UnderWay
  <2>2. /\ Len(steps) + 1 = 3 /\ Len(steps) = 2 /\ ~ (Len(steps) >= 3)
        /\ \A i \in 1..(Len(steps) - 3) : FALSE
    BY <1>2
  <2>3. StepsOK(Append(steps, Q), <<>>, Height)
    <3>1. Below(Q, Len(steps) + 1, Height) /\ Len(<<>>) \in Nat
      BY <1>10, <1>11, <2>2
    <3>2. CanUndoBeat(Q, Height) /\ UndoBeat(Q, Height) = Last(steps) /\ Sound(Q)
      BY <1>6, <2>1
    <3> QED BY <2>1, <2>2, <3>1, <3>2, StepsAppend
  <2> QED BY <1>7, <2>3
<1>13. Len(steps') = 3 /\ Last(steps') = Q /\ steps'[1] = steps[1]
  <2>1. IsSeq(steps) /\ 1 \in 1..Len(steps)
    BY <1>2 DEF UnderWay, StepsOK
  <2>2. /\ Len(Append(steps, Q)) = Len(steps) + 1
        /\ Append(steps, Q)[1] = steps[1]
        /\ Last(Append(steps, Q)) = Q
    BY <2>1, AppendFacts
  <2> QED BY <1>2, <1>7, <2>2
<1>14. UnderWay'
  BY <1>1, <1>2, <1>7, <1>8, <1>11, <1>12, <1>13
     DEF UnderWay, StepsLength, Number, Connecting, Disconnecting, Tip
<1> QED BY <1>1, <1>8, <1>14 DEF RInv, Typed, Stages, Connecting, Tip

LEMMA StandingCoins ==
  ASSUME RInv, stage = "applying"
  PROVE  CoinsIn(Standing) \in [Coins -> Heights \cup {0}]
<1>1. Tip + 1 <= MaxHeight /\ IsSeq(chain) /\ Len(chain) \in Nat /\ BaseHeight \in Nat
  BY Bounds DEF RInv, UnderWay, Connecting
<1>2. Standing = Append(chain, block)
  BY DEF Standing, Connecting
<1>3. IsSeq(Standing) /\ Len(Standing) = Len(chain) + 1
  BY <1>1, <1>2, AppendFacts
<1>4. BaseHeight + Len(Standing) <= MaxHeight
  BY <1>1, <1>3 DEF Tip
<1> QED BY <1>3, <1>4, CoinsTyped

LEMMA ApplyRInv == ASSUME NEW t \in Txs PROVE RInv /\ ApplyTx(t) => RInv'
<1> SUFFICES ASSUME RInv, ApplyTx(t) PROVE RInv'
  OBVIOUS
<1>1. Typed /\ stage = "applying" /\ stage' = "applying" /\ Height = Tip + 1 /\ Height' = Height
      /\ chain' = chain /\ saved' = saved /\ past' = past
  BY DEF RInv, ApplyTx, Height, Tip, Disconnecting
<1>2. UnderWay /\ Len(steps) = Len(block.txs) + 3 /\ Tip < MaxHeight /\ Len(block.txs) \in Nat
  BY <1>1, Bounds DEF RInv, UnderWay, StepsLength, Connecting
<1>3. Height \in Heights
  BY <1>1, <1>2, Bounds
<1> DEFINE coins == CoinsIn(Standing)
           Q == Apply(registry, t, coins, Height)
           more == Append(block.txs, t)
<1>4. coins \in [Coins -> Heights \cup {0}]
  BY <1>1, StandingCoins
<1> HIDE DEF coins
<1>5. /\ CanApply(registry, t, coins, Height)
      /\ CanReplace(registry, Changes(registry, t, coins, Height))
      /\ block' = [block EXCEPT !.txs = more]
      /\ registry' = Q /\ steps' = Append(steps, Q)
  BY DEF ApplyTx, Advance, coins
<1>6. Sound(registry) /\ Change(Changes(registry, t, coins, Height))
  BY <1>3, <1>4, <1>5, Current, ChangesTyped DEF Sound
<1>7. /\ Sound(Q)
      /\ Q.beats = registry.beats
      /\ Q.paid = registry.paid
      /\ CanUndo(Q, t)
      /\ Undo(Q, t) = registry
  <2>1. t \notin DOMAIN registry.undo
    BY <1>5 DEF CanApply
  <2> QED BY <1>5, <1>6, <2>1, UndoRevertsApply DEF Apply
<1> HIDE DEF Q
<1>8. /\ IsSeq(block.txs) /\ IsSeq(more) /\ Len(more) = Len(block.txs) + 1
      /\ \A i \in 1..Len(block.txs) : more[i] = block.txs[i]
      /\ more[Len(block.txs) + 1] = t
  BY <1>1, Bounds, AppendFacts
<1>9. block' \in Block /\ block'.txs = more
  BY <1>1, <1>5, AppendProperties DEF Typed, Block
<1> HIDE DEF more
<1>10. Below(Q, Len(steps) + 1, Height)
  <2>1. Len(steps) \in 1..Len(steps)
    BY <1>2
  <2>2. Below(registry, Len(steps), Height)
    BY <1>2, <2>1 DEF UnderWay, StepsOK, Last
  <2> QED BY <1>2, <1>7, <2>2 DEF Below
<1>11. StepsOK(steps', more, Height)
  <2>1. StepsOK(steps, block.txs, Height) /\ registry = Last(steps)
    BY <1>2 DEF UnderWay
  <2>2. Len(steps) - 3 = Len(block.txs) /\ Len(steps) - 2 = Len(block.txs) + 1
        /\ Len(steps) >= 3 /\ Len(steps) # 2
    BY <1>2
  <2>3. StepsOK(Append(steps, Q), more, Height)
    BY <1>2, <1>7, <1>8, <1>10, <2>1, <2>2, StepsAppend
  <2> QED BY <1>5, <2>3
<1>12. Len(steps') = Len(more) + 3 /\ Last(steps') = Q /\ steps'[1] = steps[1]
  <2>1. IsSeq(steps) /\ 1 \in 1..Len(steps)
    BY <1>2 DEF UnderWay, StepsOK
  <2> QED BY <1>2, <1>5, <1>8, <2>1, AppendFacts
<1>13. UnderWay'
  BY <1>1, <1>2, <1>5, <1>9, <1>11, <1>12
     DEF UnderWay, StepsLength, Number, Connecting, Disconnecting, Tip
<1> QED BY <1>1, <1>9, <1>13 DEF RInv, Typed, Stages, Connecting, Tip

LEMMA CaptureRInv == RInv /\ CaptureCommittee => RInv'
<1> SUFFICES ASSUME RInv, CaptureCommittee PROVE RInv'
  OBVIOUS
<1>1. /\ stage = "applying" /\ stage' = "captured" /\ chain' = chain /\ block' = block
      /\ registry' = registry /\ saved' = saved /\ past' = past /\ steps' = steps
  BY DEF CaptureCommittee
<1>2. UnderWay'
  BY <1>1 DEF RInv, UnderWay, StepsLength, Number, Height, Tip, Connecting, Disconnecting
<1> QED BY <1>1, <1>2 DEF RInv, Typed, Tip, Stages, Connecting

LEMMA ConnectRInv == RInv /\ ConnectTip => RInv'
<1> SUFFICES ASSUME RInv, ConnectTip PROVE RInv'
  OBVIOUS
<1>1. /\ stage = "captured" /\ stage' = "idle" /\ block' = NoBlock /\ registry' = registry
      /\ chain' = Append(chain, block) /\ past' = Append(past, steps)
      /\ saved'.registry = registry
  BY DEF ConnectTip, Commit, db
<1>2. UnderWay /\ Tip < MaxHeight /\ Typed /\ PastIs(past, chain)
  BY <1>1 DEF RInv, UnderWay, Connecting
<1>3. Len(chain) \in Nat /\ BaseHeight \in Nat /\ MaxHeight \in Nat /\ IsSeq(chain)
  BY <1>2, Bounds
<1>4. /\ StepsOK(steps, block.txs, BaseHeight + Len(chain) + 1)
      /\ Len(steps) = Len(block.txs) + 3
      /\ steps[1] = RegistryAt(past, Len(chain))
      /\ registry = Last(steps)
  BY <1>1, <1>2, <1>3 DEF UnderWay, StepsLength, Number, Height, Tip, Disconnecting
<1>5. PastIs(past', chain') /\ RegistryAt(past', Len(chain')) = registry
  BY <1>1, <1>2, <1>4, PastAppend
<1>6. Len(chain') = Len(chain) + 1 /\ chain' \in Seq(Block)
  BY <1>1, <1>2, <1>3, AppendFacts, AppendProperties DEF Typed
<1>7. Tip' <= MaxHeight
  BY <1>2, <1>3, <1>6 DEF Tip
<1>8. NoBlock \in Block
  BY EmptySeq DEF NoBlock, Block
<1> QED BY <1>1, <1>5, <1>6, <1>7, <1>8 DEF RInv, Typed, Stages

LEMMA AbandonRInv == RInv /\ Abandon => RInv'
<1> SUFFICES ASSUME RInv, Abandon PROVE RInv'
  OBVIOUS
<1>1. /\ stage' = "idle" /\ block' = NoBlock /\ registry' = saved.registry
      /\ chain' = chain /\ saved' = saved /\ past' = past
  BY DEF Abandon
<1>2. NoBlock \in Block
  BY EmptySeq DEF NoBlock, Block
<1> QED BY <1>1, <1>2 DEF RInv, Typed, Tip, Stages

LEMMA DisconnectBlockRInv == RInv /\ DisconnectBlock => RInv'
<1> SUFFICES ASSUME RInv, DisconnectBlock PROVE RInv'
  OBVIOUS
<1>1. /\ stage = "idle" /\ chain # <<>> /\ stage' = "undoing" /\ block' = Last(chain)
      /\ steps' = Last(past) /\ chain' = chain /\ registry' = registry /\ saved' = saved
      /\ past' = past
  BY DEF DisconnectBlock, db
<1>2. Typed /\ PastIs(past, chain) /\ registry = RegistryAt(past, Len(chain))
  BY <1>1 DEF RInv
<1>3. Len(chain) \in 1..Len(chain) /\ Len(chain) # 0
  BY <1>1, <1>2, Bounds
<1>4. block' = chain[Len(chain)] /\ steps' = past[Len(chain)] /\ registry = Last(steps')
  BY <1>1, <1>2, <1>3 DEF Last, RegistryAt, PastIs
<1>5. block' \in Block
  BY <1>2, <1>3, <1>4, Bounds
<1>6. Height' = Tip /\ Number' = Len(chain) /\ StepsLength' = Len(block'.txs) + 3 /\ Tip' = Tip
  BY <1>1 DEF Height, Number, StepsLength, Tip, Disconnecting
<1>7. UnderWay'
  BY <1>1, <1>2, <1>3, <1>4, <1>6 DEF UnderWay, PastIs, Tip, Connecting
<1> QED BY <1>1, <1>2, <1>5, <1>6, <1>7 DEF RInv, Typed, Stages, Disconnecting

(* A step back while a block is disconnected.                              *)
LEMMA Stepped ==
  ASSUME RInv, stage \in Disconnecting, stage' \in Disconnecting,
         chain' = chain, saved' = saved, past' = past,
         steps' = Front(steps), block' \in Block,
         Len(steps) >= 2, Len(steps) - 1 = StepsLength',
         registry' = steps[Len(steps) - 1],
         stage' \in {"unbeaten", "unpaid", "undone"} => block'.txs = <<>>,
         \A i \in 1..(Len(steps) - 4) : block'.txs[i] = block.txs[i]
  PROVE  RInv'
<1>1. UnderWay /\ Typed
  BY DEF RInv, Disconnecting
<1>2. IsSeq(steps) /\ Len(steps) \in Nat /\ steps # <<>>
  BY <1>1, SeqFacts DEF UnderWay, StepsOK
<1>3. /\ IsSeq(steps') /\ Len(steps') = Len(steps) - 1
      /\ \A i \in 1..(Len(steps) - 1) : steps'[i] = steps[i]
  BY <1>2, FrontFacts
<1>4. Last(steps') = steps[Len(steps) - 1] /\ steps'[1] = steps[1]
  BY <1>2, <1>3 DEF Last
<1>5. /\ Height' = Height /\ Tip' = Tip /\ Number' = Number
  BY DEF Height, Tip, Number
<1>6. StepsOK(steps', block'.txs, Height)
  <2>1. /\ StepsOK(steps, block.txs, Height)
        /\ Len(steps') <= Len(steps)
        /\ \A i \in 1..Len(steps') : steps'[i] = steps[i]
        /\ \A i \in 1..(Len(steps') - 3) : block'.txs[i] = block.txs[i]
    BY <1>1, <1>2, <1>3 DEF UnderWay
  <2> QED BY <1>3, <2>1, StepsPrefix
<1>7. UnderWay'
  BY <1>1, <1>3, <1>4, <1>5, <1>6 DEF UnderWay, Connecting, Disconnecting
<1> QED BY <1>5, <1>7 DEF RInv, Typed, Stages, Disconnecting

LEMMA UndoTxRInv == RInv /\ UndoTx => RInv'
<1> SUFFICES ASSUME RInv, UndoTx PROVE RInv'
  OBVIOUS
<1>1. /\ stage = "undoing" /\ stage' = "undoing" /\ block.txs # <<>>
      /\ block' = [block EXCEPT !.txs = Front(block.txs)]
      /\ registry' = Undo(registry, Last(block.txs)) /\ steps' = Front(steps)
      /\ chain' = chain /\ saved' = saved /\ past' = past
  BY DEF UndoTx, Retreat
<1>2. UnderWay /\ Typed /\ Len(steps) = Len(block.txs) + 3
  BY <1>1 DEF RInv, UnderWay, StepsLength
<1> DEFINE n == Len(block.txs)
<1>3. n \in Nat \ {0} /\ IsSeq(block.txs)
  BY <1>1, <1>2, Bounds
<1>4. /\ Len(Front(block.txs)) = n - 1
      /\ \A i \in 1..(n - 1) : Front(block.txs)[i] = block.txs[i]
      /\ Last(block.txs) = block.txs[n]
  BY <1>1, <1>3, FrontFacts DEF Last
<1>5. Front(block.txs) \in Seq(Txs)
  <2>1. block.txs \in Seq(Txs) /\ block.txs # <<>>
    BY <1>1, <1>2 DEF Typed, Block
  <2>2. \A i \in 1..(n - 1) : block.txs[i] \in Txs
    BY <1>3, <2>1, ElementOfSeq
  <2> QED BY <1>3, <2>2, SubSeqProperties DEF Front
<1>6. block' \in Block /\ block'.txs = Front(block.txs)
  BY <1>1, <1>2, <1>5 DEF Typed, Block
<1>7. registry' = steps[Len(steps) - 1]
  <2>1. n \in 1..(Len(steps) - 3) /\ n + 3 = Len(steps) /\ n + 2 = Len(steps) - 1
    BY <1>2, <1>3
  <2>2. Undo(steps[n + 3], block.txs[n]) = steps[n + 2]
    BY <1>2, <2>1 DEF UnderWay, StepsOK
  <2> QED BY <1>1, <1>2, <1>4, <2>1, <2>2 DEF UnderWay, Last
<1>8. Len(steps) - 1 = StepsLength' /\ Len(steps) >= 2 /\ Len(steps) - 4 = n - 1
  BY <1>1, <1>2, <1>3, <1>4, <1>6 DEF StepsLength
<1> QED BY <1>1, <1>4, <1>6, <1>7, <1>8, Stepped DEF Disconnecting

LEMMA UndoHeartbeatsRInv == RInv /\ UndoHeartbeats => RInv'
<1> SUFFICES ASSUME RInv, UndoHeartbeats PROVE RInv'
  OBVIOUS
<1>1. /\ stage = "undoing" /\ stage' = "unbeaten" /\ block.txs = <<>> /\ block' = NoBlock
      /\ registry' = UndoBeat(registry, Height) /\ steps' = Front(steps)
      /\ chain' = chain /\ saved' = saved /\ past' = past
  BY DEF UndoHeartbeats, Retreat
<1>2. UnderWay /\ Len(steps) = 3
  BY <1>1, EmptySeq DEF RInv, UnderWay, StepsLength
<1>3. registry' = steps[2]
  BY <1>1, <1>2 DEF UnderWay, StepsOK, Last
<1>4. NoBlock \in Block /\ NoBlock.txs = <<>> /\ StepsLength' = 2
  BY <1>1, EmptySeq DEF NoBlock, Block, StepsLength
<1>5. \A i \in 1..(Len(steps) - 4) : FALSE
  BY <1>2
<1> QED BY <1>1, <1>2, <1>3, <1>4, <1>5, Stepped DEF Disconnecting

LEMMA UndoRewardRInv == RInv /\ UndoReward => RInv'
<1> SUFFICES ASSUME RInv, UndoReward PROVE RInv'
  OBVIOUS
<1>1. /\ stage = "unbeaten" /\ stage' = "unpaid" /\ block' = block
      /\ registry' = UndoPayment(registry, Height) /\ steps' = Front(steps)
      /\ chain' = chain /\ saved' = saved /\ past' = past
  BY DEF UndoReward, Retreat
<1>2. UnderWay /\ Len(steps) = 2 /\ block.txs = <<>> /\ block \in Block
  BY <1>1 DEF RInv, UnderWay, StepsLength, Typed
<1>3. registry' = steps[1]
  BY <1>1, <1>2 DEF UnderWay, StepsOK, Last
<1>4. StepsLength' = 1
  BY <1>1 DEF StepsLength
<1>5. \A i \in 1..(Len(steps) - 4) : FALSE
  BY <1>2
<1> QED BY <1>1, <1>2, <1>3, <1>4, <1>5, Stepped DEF Disconnecting

LEMMA UndoBlockRInv == RInv /\ UndoBlock => RInv'
<1> SUFFICES ASSUME RInv, UndoBlock PROVE RInv'
  OBVIOUS
<1>1. /\ stage = "unpaid" /\ stage' = "undone" /\ chain' = chain /\ block' = block
      /\ registry' = registry /\ saved' = saved /\ past' = past /\ steps' = steps
  BY DEF UndoBlock
<1>2. UnderWay'
  BY <1>1 DEF RInv, UnderWay, StepsLength, Number, Height, Tip, Connecting, Disconnecting
<1> QED BY <1>1, <1>2 DEF RInv, Typed, Tip, Stages, Disconnecting

LEMMA DisconnectRInv == RInv /\ DisconnectTip => RInv'
<1> SUFFICES ASSUME RInv, DisconnectTip PROVE RInv'
  OBVIOUS
<1>1. /\ stage = "undone" /\ stage' = "idle" /\ block' = NoBlock /\ registry' = registry
      /\ chain' = Front(chain) /\ past' = Front(past) /\ saved'.registry = registry
  BY DEF DisconnectTip, Commit, db
<1>2. UnderWay /\ Typed /\ PastIs(past, chain) /\ chain # <<>>
  BY <1>1 DEF RInv, UnderWay, Disconnecting
<1>3. Len(chain) \in Nat \ {0} /\ BaseHeight \in Nat /\ MaxHeight \in Nat /\ IsSeq(chain)
  BY <1>2, Bounds
<1>4. registry = RegistryAt(past, Len(chain) - 1)
  BY <1>1, <1>2 DEF UnderWay, StepsLength, Number, Disconnecting, Last
<1>5. PastIs(past', chain') /\ RegistryAt(past', Len(chain')) = registry
  BY <1>1, <1>2, <1>4, PastFront
<1>6. Len(chain') = Len(chain) - 1 /\ chain' \in Seq(Block)
  <2>1. \A i \in 1..(Len(chain) - 1) : chain[i] \in Block
    BY <1>2, <1>3, Bounds
  <2>2. Front(chain) \in Seq(Block)
    BY <1>3, <2>1, SubSeqProperties DEF Front
  <2> QED BY <1>1, <1>2, <1>3, <2>2, FrontFacts
<1>7. Tip' <= MaxHeight
  BY <1>2, <1>3, <1>6 DEF Tip, Typed
<1>8. NoBlock \in Block
  BY EmptySeq DEF NoBlock, Block
<1> QED BY <1>1, <1>5, <1>6, <1>7, <1>8 DEF RInv, Typed, Stages

LEMMA NextRInv == RInv /\ [Next]_vars => RInv'
<1> SUFFICES ASSUME RInv, [Next]_vars PROVE RInv'
  OBVIOUS
<1>1. CASE Next
  BY <1>1, PayRInv, BeatRInv, ApplyRInv, CaptureRInv, ConnectRInv, AbandonRInv,
     DisconnectBlockRInv, UndoTxRInv, UndoHeartbeatsRInv, UndoRewardRInv, UndoBlockRInv,
     DisconnectRInv DEF Next
<1>2. CASE UNCHANGED vars
  <2>1. /\ chain' = chain /\ stage' = stage /\ block' = block /\ registry' = registry
        /\ saved' = saved /\ past' = past /\ steps' = steps
    BY <1>2 DEF vars, db
  <2> QED BY <2>1 DEF RInv, Typed, UnderWay, StepsLength, Number, Height, Tip
<1> QED BY <1>1, <1>2

LEMMA RInvHolds == Spec => []RInv
BY InitRInv, NextRInv, PTL DEF Spec
-----------------------------------------------------------------------------
(* The registry and the chain keep their types.                            *)
THEOREM TypeCorrect == Spec => []TypeOK
<1>1. RInv => TypeOK
  <2> SUFFICES ASSUME RInv PROVE TypeOK
    OBVIOUS
  <2>1. RegistryOK(registry)
    BY Current DEF Sound
  <2>2. stage \in Disconnecting => chain # <<>>
    BY DEF RInv, UnderWay, Disconnecting
  <2> QED BY <2>1, <2>2 DEF TypeOK, RInv, Typed, PastIs
<1> QED BY <1>1, RInvHolds, PTL

(* The reverse index is exact: Erase and Put never leave a collateral, key *)
(* or service with a registration that has it not, or without one.         *)
THEOREM IndexStaysExact == Spec => []IndexExact
<1>1. RInv => IndexExact
  BY Current DEF Sound, IndexExact
<1> QED BY <1>1, RInvHolds, PTL

(* Every undo of DisconnectBlock is accepted and restores the registry of  *)
(* before the step it undoes, whatever was connected and disconnected.     *)
THEOREM UndoIsExact == Spec => []UndoExact
<1>1. RInv => UndoExact
  <2> SUFFICES ASSUME RInv PROVE UndoExact
    OBVIOUS
  <2>1. Typed /\ PastIs(past, chain) /\ Len(chain) \in Nat /\ BaseHeight \in Nat
    BY Bounds DEF RInv
  <2>2. TipRegistry(Tip) = RegistryAt(past, Len(chain))
    BY <2>1 DEF TipRegistry, RegistryAt, Tip
  <2>3. registry = IF stage = "idle" THEN TipRegistry(Tip) ELSE Last(steps)
    BY <2>2 DEF RInv, UnderWay
  <2>4. NextUndoAccepted
    <3>1. CASE stage = "undoing" /\ block.txs # <<>>
      <4> DEFINE n == Len(block.txs)
      <4>1. UnderWay /\ Len(steps) = n + 3 /\ n \in Nat \ {0}
        BY <2>1, <3>1, Bounds DEF RInv, UnderWay, StepsLength
      <4>2. n \in 1..(Len(steps) - 3) /\ registry = steps[n + 3]
        BY <4>1 DEF UnderWay, Last
      <4>3. CanUndo(registry, Last(block.txs))
        BY <4>1, <4>2 DEF UnderWay, StepsOK, Last
      <4> QED BY <3>1, <4>3 DEF NextUndoAccepted
    <3>2. CASE stage = "undoing" /\ block.txs = <<>>
      <4>1. UnderWay /\ Len(steps) = 3
        BY <3>2, EmptySeq DEF RInv, UnderWay, StepsLength
      <4>2. CanUndoBeat(registry, Height)
        BY <4>1 DEF UnderWay, StepsOK, Last
      <4> QED BY <3>2, <4>2 DEF NextUndoAccepted
    <3>3. CASE stage = "unbeaten"
      <4>1. UnderWay /\ Len(steps) = 2
        BY <3>3 DEF RInv, UnderWay, StepsLength
      <4>2. CanUndoPayment(registry, Height)
        BY <4>1 DEF UnderWay, StepsOK, Last
      <4> QED BY <3>3, <4>2 DEF NextUndoAccepted
    <3>4. CASE stage \notin {"undoing", "unbeaten"}
      BY <3>4 DEF NextUndoAccepted
    <3> QED BY <3>1, <3>2, <3>3, <3>4
  <2> QED BY <2>3, <2>4 DEF UndoExact
<1> QED BY <1>1, RInvHolds, PTL

-----------------------------------------------------------------------------
(* Committee snapshots.  Those stored after n blocks of a chain are in the *)
(* range of these blocks, linked downwards, and the last one at or below a *)
(* height answers for it; where there is none the committee is empty.      *)
Stored(S) == {h \in Heights : S.at[h] # None}

\* h is the last of these heights up to this one.
LastOf(stored, height, h) ==
  /\ h \in stored
  /\ h <= height
  /\ \A g \in stored : g <= height => g <= h

\* h is the last of these heights, 0 when there are none.
Latest(stored, h) == IF h = 0 THEN stored = {} ELSE h \in stored /\ \A g \in stored : g <= h

SnapshotsOf(S, committee, n) ==
  /\ S = [at |-> S.at, latest |-> S.latest]
  /\ S.at \in [Heights -> Snapshots \cup {None}]
  /\ S.latest \in Heights \cup {0}
  /\ \A h \in Stored(S) : BaseHeight < h /\ h <= BaseHeight + n
  /\ Latest(Stored(S), S.latest)
  /\ \A h \in Stored(S) : Latest({g \in Stored(S) : g < h}, S.at[h].prevHeight)
  /\ \A i \in 0..n :
       /\ \A h \in Stored(S) : LastOf(Stored(S), BaseHeight + i, h) => S.at[h].members = committee[i]
       /\ (\A h \in Stored(S) : BaseHeight + i < h) => committee[i] = {}

LEMMA NobodySelected == ASSUME NEW height PROVE SelectCommittee(Empty, height) = {}
<1>1. InService(Empty, height) = {}
  BY DEF InService, Registered, Empty
<1>2. Cardinality({}) = 0 /\ MinMembers \in Nat \ {0} /\ MaxMembers \in Nat
  BY FS_EmptySet, RegistryAssumption
<1> QED BY <1>1, <1>2 DEF SelectCommittee

LEMMA CommitteeTyped ==
  ASSUME NEW R, RegistryOK(R), NEW height
  PROVE  SelectCommittee(R, height) \in SUBSET (Txs \X Keys) /\ BelowMinimum(R, height) \in BOOLEAN
<1>1. \A id \in InService(R, height) : id \in Txs /\ R.record[id] \in Record
  BY DEF InService, Registered, RegistryOK
<1>2. \A id \in InService(R, height) : R.record[id].operator \in Keys
  BY <1>1 DEF Record
<1> QED BY <1>1, <1>2 DEF SelectCommittee, BelowMinimum

(* StoreCommittee brings the snapshots up to the next block.               *)
LEMMA StoreKeeps ==
  ASSUME NEW S, NEW C, NEW n \in Nat, SnapshotsOf(S, C, n), NEW D,
         \A i \in 0..n : D[i] = C[i],
         NEW R, RegistryOK(R), BaseHeight + n + 1 \in Heights,
         D[n + 1] = SelectCommittee(R, BaseHeight + n + 1)
  PROVE  SnapshotsOf(StoreCommittee(S, R, BaseHeight + n + 1), D, n + 1)
<1> DEFINE height == BaseHeight + n + 1
           T == StoreCommittee(S, R, height)
<1>0. BaseHeight \in Nat /\ Heights \subseteq Nat \ {0} /\ BaseHeight \in Heights
  BY ChainAssumption DEF Heights
<1>a. Stored(S) \subseteq Heights /\ \A h \in Stored(S) : S.at[h] \in Snapshots
  BY DEF Stored, SnapshotsOf
<1>b. height \in Nat /\ height > BaseHeight /\ height \notin Stored(S) /\ height \in Heights
  BY <1>0 DEF SnapshotsOf
<1>c. \A i \in 0..(n + 1) : i \in 0..n \/ i = n + 1
  OBVIOUS
<1>1. CASE NothingNew(S, R, height)
  <2>1. T = S
    BY <1>1 DEF StoreCommittee
  <2>2. S.latest = 0 => D[n + 1] = {} /\ Stored(S) = {}
    BY <1>1 DEF NothingNew, SnapshotsOf, Latest
  <2>3. S.latest # 0 => S.at[S.latest].members = D[n + 1] /\ S.latest \in Stored(S)
                        /\ \A g \in Stored(S) : g <= S.latest
    BY <1>1 DEF NothingNew, SnapshotsOf, Latest
  <2>4. ASSUME NEW i \in 0..(n + 1)
        PROVE  /\ \A h \in Stored(S) : LastOf(Stored(S), BaseHeight + i, h) => S.at[h].members = D[i]
               /\ (\A h \in Stored(S) : BaseHeight + i < h) => D[i] = {}
    <3>1. CASE i \in 0..n
      BY <3>1 DEF SnapshotsOf
    <3>2. CASE i = n + 1
      <4>1. \A h \in Stored(S) : h <= BaseHeight + i /\ h \in Nat
        BY <1>0, <1>a, <3>2 DEF SnapshotsOf
      <4>2. CASE S.latest = 0
        BY <2>2, <3>2, <4>2
      <4>3. CASE S.latest # 0
        <5>1. S.latest <= BaseHeight + i /\ S.latest \in Nat /\ S.latest \in Stored(S)
          BY <2>3, <4>1, <4>3
        <5>2. ~ (BaseHeight + i < S.latest)
          BY <1>0, <5>1
        <5>3. ASSUME NEW h \in Stored(S), LastOf(Stored(S), BaseHeight + i, h)
              PROVE  h = S.latest
          <6>1. h <= S.latest /\ S.latest <= h
            BY <2>3, <4>3, <5>1, <5>3 DEF LastOf
          <6> QED BY <4>1, <5>1, <6>1
        <5> QED BY <2>3, <3>2, <4>3, <5>1, <5>2, <5>3
      <4> QED BY <4>2, <4>3
    <3> QED BY <1>c, <3>1, <3>2
  <2>5. \A h \in Stored(S) : BaseHeight < h /\ h <= BaseHeight + (n + 1)
    BY <1>0, <1>a DEF SnapshotsOf
  <2> QED BY <2>1, <2>4, <2>5 DEF SnapshotsOf
<1>2. CASE ~ NothingNew(S, R, height)
  <2> DEFINE new == SnapshotOf(R, height, S.latest)
  <2>1. T = [at |-> [S.at EXCEPT ![height] = new], latest |-> height]
    BY <1>2 DEF StoreCommittee
  <2>2. new \in Snapshots /\ new.members = D[n + 1] /\ new.prevHeight = S.latest /\ new # None
    <3>1. new \in Snapshots
      BY CommitteeTyped DEF SnapshotOf, Snapshots, SnapshotsOf
    <3>2. None \notin Snapshots
      BY ChainAssumption
    <3> QED BY <3>1, <3>2 DEF SnapshotOf
  <2> HIDE DEF new
  <2>3. /\ T = [at |-> T.at, latest |-> T.latest]
        /\ T.at \in [Heights -> Snapshots \cup {None}]
        /\ T.latest = height
        /\ T.at[height] = new
        /\ \A h \in Heights \ {height} : T.at[h] = S.at[h]
    BY <1>b, <2>1, <2>2 DEF SnapshotsOf
  <2> HIDE DEF T
  <2>4. Stored(T) = Stored(S) \cup {height}
    BY <1>b, <2>2, <2>3 DEF Stored
  <2>5. \A g \in Stored(S) : g \in Nat /\ g < height /\ g # height
    BY <1>0, <1>a DEF SnapshotsOf
  <2>6. Latest(Stored(T), T.latest)
    BY <1>0, <1>b, <2>3, <2>4, <2>5 DEF Latest
  <2>7. ASSUME NEW h \in Stored(T)
        PROVE  Latest({g \in Stored(T) : g < h}, T.at[h].prevHeight)
    <3>1. CASE h = height
      <4>1. {g \in Stored(T) : g < h} = Stored(S)
        BY <1>b, <2>4, <2>5, <3>1
      <4> QED BY <2>2, <2>3, <3>1, <4>1 DEF SnapshotsOf
    <3>2. CASE h \in Stored(S)
      <4>1. {g \in Stored(T) : g < h} = {g \in Stored(S) : g < h}
        BY <1>b, <2>4, <2>5, <3>2
      <4>2. T.at[h] = S.at[h]
        BY <1>a, <2>3, <2>5, <3>2
      <4> QED BY <3>2, <4>1, <4>2 DEF SnapshotsOf
    <3> QED BY <2>4, <3>1, <3>2
  <2>8. ASSUME NEW i \in 0..(n + 1)
        PROVE  /\ \A h \in Stored(T) : LastOf(Stored(T), BaseHeight + i, h) => T.at[h].members = D[i]
               /\ (\A h \in Stored(T) : BaseHeight + i < h) => D[i] = {}
    <3>1. CASE i \in 0..n
      <4>1. ~ (height <= BaseHeight + i) /\ BaseHeight + i < height
        BY <1>0, <3>1
      <4>2. ASSUME NEW h \in Stored(T), LastOf(Stored(T), BaseHeight + i, h)
            PROVE  T.at[h].members = D[i]
        <5>1. h \in Stored(S) /\ LastOf(Stored(S), BaseHeight + i, h)
          BY <2>4, <4>1, <4>2 DEF LastOf
        <5>2. S.at[h].members = C[i]
          BY <3>1, <5>1 DEF SnapshotsOf
        <5> QED BY <1>a, <2>3, <2>5, <3>1, <5>1, <5>2
      <4>3. ASSUME \A h \in Stored(T) : BaseHeight + i < h
            PROVE  D[i] = {}
        <5>1. C[i] = {}
          BY <2>4, <3>1, <4>3 DEF SnapshotsOf
        <5> QED BY <3>1, <5>1
      <4> QED BY <4>2, <4>3
    <3>2. CASE i = n + 1
      <4>1. BaseHeight + i = height /\ ~ (height < height) /\ height <= height
        BY <1>0, <3>2
      <4>2. \A h \in Stored(T) : LastOf(Stored(T), BaseHeight + i, h) => h = height
        BY <1>b, <2>4, <2>5, <4>1 DEF LastOf
      <4> QED BY <2>2, <2>3, <2>4, <3>2, <4>1, <4>2
    <3> QED BY <1>c, <3>1, <3>2
  <2>9. \A h \in Stored(T) : BaseHeight < h /\ h <= BaseHeight + (n + 1)
    <3>1. BaseHeight + (n + 1) = height
      BY <1>0
    <3> QED BY <1>0, <1>b, <2>4, <2>5, <3>1 DEF SnapshotsOf
  <2>10. T.latest \in Heights \cup {0}
    BY <1>b, <2>3
  <2>11. SnapshotsOf(T, D, n + 1)
    BY <2>3, <2>6, <2>7, <2>8, <2>9, <2>10 DEF SnapshotsOf
  <2> QED BY <2>11 DEF T
<1> QED BY <1>1, <1>2

(* UndoSnapshot takes the last block's snapshot back.                      *)
LEMMA UndoKeeps ==
  ASSUME NEW S, NEW C, NEW n \in Nat \ {0}, SnapshotsOf(S, C, n),
         BaseHeight + n \in Heights, NEW D, \A i \in 0..(n - 1) : D[i] = C[i]
  PROVE  SnapshotsOf(UndoSnapshot(S, BaseHeight + n), D, n - 1)
<1> DEFINE height == BaseHeight + n
           T == UndoSnapshot(S, height)
<1>0. BaseHeight \in Nat /\ Heights \subseteq Nat \ {0} /\ height \in Nat /\ height \in Heights
  BY ChainAssumption DEF Heights
<1>a. Stored(S) \subseteq Heights /\ \A h \in Stored(S) : S.at[h] \in Snapshots
  BY DEF Stored, SnapshotsOf
<1>b. \A h \in Stored(S) : h \in Nat /\ h <= height
  BY <1>0, <1>a DEF SnapshotsOf
<1>c. \A i \in 0..(n - 1) : i \in 0..n /\ BaseHeight + i < height /\ ~ (height <= BaseHeight + i)
  BY <1>0
<1>d. Stored(T) = Stored(S) \ {height}
      /\ T = [at |-> T.at, latest |-> T.latest]
      /\ T.at \in [Heights -> Snapshots \cup {None}]
      /\ \A h \in Heights \ {height} : T.at[h] = S.at[h]
  <2>1. CASE S.at[height] = None
    BY <2>1, <1>0 DEF UndoSnapshot, Stored, SnapshotsOf
  <2>2. CASE S.at[height] # None
    <3>1. T = [at |-> [S.at EXCEPT ![height] = None], latest |-> S.at[height].prevHeight]
      BY <2>2 DEF UndoSnapshot
    <3>2. /\ T = [at |-> T.at, latest |-> T.latest]
          /\ T.at \in [Heights -> Snapshots \cup {None}]
          /\ T.at[height] = None
          /\ \A h \in Heights \ {height} : T.at[h] = S.at[h]
      BY <1>0, <3>1 DEF SnapshotsOf
    <3> QED BY <1>0, <3>2 DEF Stored
  <2> QED BY <2>1, <2>2
<1>e. T.latest \in Heights \cup {0} /\ Latest(Stored(T), T.latest)
  <2>1. CASE S.at[height] = None
    <3>1. T = S
      BY <2>1 DEF UndoSnapshot
    <3> QED BY <3>1 DEF SnapshotsOf
  <2>2. CASE S.at[height] # None
    <3>1. T.latest = S.at[height].prevHeight
      BY <2>2 DEF UndoSnapshot
    <3>2. height \in Stored(S)
      BY <1>0, <2>2 DEF Stored
    <3>3. {g \in Stored(S) : g < height} = Stored(T)
      BY <1>0, <1>b, <1>d
    <3> QED BY <1>a, <3>1, <3>2, <3>3 DEF SnapshotsOf, Snapshots
  <2> QED BY <2>1, <2>2
<1> HIDE DEF T
<1>1. ASSUME NEW h \in Stored(T)
      PROVE  /\ h \in Stored(S) /\ T.at[h] = S.at[h]
             /\ BaseHeight < h /\ h <= BaseHeight + (n - 1)
             /\ Latest({g \in Stored(T) : g < h}, T.at[h].prevHeight)
  <2>1. h \in Stored(S) /\ T.at[h] = S.at[h] /\ h # height /\ h <= height /\ h \in Nat
    BY <1>a, <1>b, <1>d
  <2>2. {g \in Stored(T) : g < h} = {g \in Stored(S) : g < h}
    BY <1>0, <1>b, <1>d, <2>1
  <2>3. Latest({g \in Stored(S) : g < h}, S.at[h].prevHeight) /\ BaseHeight < h
    BY <2>1 DEF SnapshotsOf
  <2>4. h <= BaseHeight + (n - 1)
    BY <1>0, <2>1
  <2>5. Latest({g \in Stored(T) : g < h}, T.at[h].prevHeight)
    BY <2>1, <2>2, <2>3
  <2> QED BY <2>1, <2>3, <2>4, <2>5
<1>2. ASSUME NEW i \in 0..(n - 1)
      PROVE  /\ \A h \in Stored(T) : LastOf(Stored(T), BaseHeight + i, h) => T.at[h].members = D[i]
             /\ (\A h \in Stored(T) : BaseHeight + i < h) => D[i] = {}
  <2>1. i \in 0..n /\ BaseHeight + i < height /\ ~ (height <= BaseHeight + i)
    BY <1>c
  <2>2. ASSUME NEW h \in Stored(T), LastOf(Stored(T), BaseHeight + i, h)
        PROVE  T.at[h].members = D[i]
    <3>1. LastOf(Stored(S), BaseHeight + i, h)
      BY <1>d, <2>1, <2>2 DEF LastOf
    <3> QED BY <1>1, <2>1, <3>1 DEF SnapshotsOf
  <2>3. ASSUME \A h \in Stored(T) : BaseHeight + i < h
        PROVE  D[i] = {}
    <3>1. \A h \in Stored(S) : BaseHeight + i < h
      BY <1>d, <2>1, <2>3
    <3>2. C[i] = {}
      BY <2>1, <3>1 DEF SnapshotsOf
    <3> QED BY <3>2
  <2> QED BY <2>2, <2>3
<1>3. SnapshotsOf(T, D, n - 1)
  BY <1>1, <1>2, <1>d, <1>e DEF SnapshotsOf
<1> QED BY <1>3 DEF T

(* The walk back from the latest snapshot finds the one that answers.      *)
LEMMA SnapshotsAnswer ==
  ASSUME NEW S, NEW C, NEW n \in Nat, SnapshotsOf(S, C, n), BaseHeight + n <= MaxHeight,
         NEW i \in 0..n
  PROVE  CommitteeAt(S, BaseHeight + i) = C[i]
<1> DEFINE height == BaseHeight + i
           Back(f) == f = [h \in 0..MaxHeight |->
                             IF h <= height THEN h
                             ELSE IF S.at[h] = None THEN 0
                             ELSE f[S.at[h].prevHeight]]
           back == CHOOSE f : Back(f)
<1>0. BaseHeight \in Nat /\ MaxHeight \in Nat /\ height \in 0..MaxHeight /\ Heights = 1..MaxHeight
  BY ChainAssumption, RegistryAssumption DEF Heights
<1>1. SnapshotFor(S, height) = back[S.latest]
  BY DEF SnapshotFor
<1>2. /\ Stored(S) \subseteq 1..MaxHeight
      /\ S.latest \in 0..MaxHeight
      /\ \A h \in Stored(S) : S.at[h] \in Snapshots /\ S.at[h].prevHeight \in 0..MaxHeight
      /\ \A h \in 1..MaxHeight : S.at[h] = None <=> h \notin Stored(S)
  BY <1>0 DEF Stored, SnapshotsOf, Snapshots
<1>3. PICK low \in 0..MaxHeight :
        /\ low = 0 => \A g \in Stored(S) : height < g
        /\ low # 0 => LastOf(Stored(S), height, low)
  <2> DEFINE under == {0} \cup {g \in Stored(S) : g <= height}
             low == Max(under)
  <2>1. under \subseteq 0..MaxHeight /\ under # {}
    BY <1>0, <1>2
  <2>2. low \in under /\ \A g \in under : g <= low
    BY ONLY <1>0, <2>1, MaxIs
  <2>3. low \in 0..MaxHeight
    BY <2>1, <2>2
  <2>4. low = 0 => \A g \in Stored(S) : height < g
    BY <1>0, <1>2, <2>2
  <2>5. low # 0 => LastOf(Stored(S), height, low)
    BY <2>2 DEF LastOf
  <2> QED BY <2>3, <2>4, <2>5
<1> HIDE DEF height
<1> DEFINE answer == [h \in 0..MaxHeight |->
                        IF h <= height THEN h ELSE IF h \notin Stored(S) THEN 0 ELSE low]
<1>4. ASSUME NEW h \in Stored(S), ~ (h <= height)
      PROVE  /\ S.at[h].prevHeight \in 0..MaxHeight /\ S.at[h].prevHeight < h
             /\ answer[S.at[h].prevHeight] = low
  <2> DEFINE prev == S.at[h].prevHeight
  <2>1. Latest({g \in Stored(S) : g < h}, prev) /\ prev \in 0..MaxHeight /\ h \in 1..MaxHeight
    BY <1>2 DEF SnapshotsOf
  <2> SUFFICES prev \in 0..MaxHeight /\ prev < h /\ answer[prev] = low
    OBVIOUS
  <2> HIDE DEF prev
  <2>2. \A g \in Stored(S) : g <= height => g < h
    BY <1>0, <1>2, <1>4, <2>1
  <2>3. CASE prev = 0
    <3>1. \A g \in Stored(S) : ~ (g < h)
      BY <2>1, <2>3 DEF Latest
    <3>2. low = 0
      BY <1>3, <2>2, <3>1 DEF LastOf
    <3> QED BY <1>0, <2>1, <2>3, <3>2
  <2>4. CASE prev # 0
    <3>1. prev \in Stored(S) /\ prev < h /\ \A g \in Stored(S) : g < h => g <= prev
      BY <2>1, <2>4 DEF Latest
    <3>2. CASE prev <= height
      <4>1. low # 0
        BY <1>0, <1>3, <3>1, <3>2, <2>1
      <4>2. low <= prev /\ prev <= low
        BY <1>3, <2>2, <3>1, <3>2, <4>1 DEF LastOf
      <4>3. low = prev
        BY <2>1, <4>2
      <4> QED BY <2>1, <3>1, <3>2, <4>3
    <3>3. CASE ~ (prev <= height)
      BY <2>1, <3>1, <3>3
    <3> QED BY <3>2, <3>3
  <2> QED BY <2>3, <2>4
<1>5. \A h \in 0..MaxHeight : ~ (h <= height) => h \in 1..MaxHeight
  BY <1>0
<1>6. Back(answer)
  <2>1. \A h \in 0..MaxHeight :
          answer[h] = IF h <= height THEN h
                      ELSE IF S.at[h] = None THEN 0 ELSE answer[S.at[h].prevHeight]
    BY <1>2, <1>4, <1>5
  <2> QED BY <2>1
<1>7. Back(back)
  BY <1>6
<1> HIDE DEF back
<1>8. \A h \in 0..MaxHeight : back[h] = answer[h]
  <2> SUFFICES ASSUME NEW w \in 0..MaxHeight, back[w] # answer[w] PROVE FALSE
    OBVIOUS
  <2> DEFINE wrong == {h \in 0..MaxHeight : back[h] # answer[h]}
  <2>1. PICK b \in wrong : \A h \in wrong : b <= h
    <3>1. wrong \subseteq Nat /\ wrong # {}
      OBVIOUS
    <3> HIDE DEF wrong
    <3> QED BY <3>1, LeastNat
  <2>2. b \in 0..MaxHeight /\ back[b] # answer[b]
    OBVIOUS
  <2>3. back[b] = IF b <= height THEN b
                  ELSE IF S.at[b] = None THEN 0 ELSE back[S.at[b].prevHeight]
    BY <1>7, <2>2
  <2>4. ~ (b <= height) /\ b \in Stored(S)
    BY <1>2, <1>5, <2>2, <2>3
  <2> DEFINE prev == S.at[b].prevHeight
  <2>5. prev \in 0..MaxHeight /\ prev < b /\ answer[prev] = low
    BY <1>4, <2>4
  <2>6. back[prev] = answer[prev]
    BY <2>1, <2>2, <2>5
  <2> QED BY <1>2, <2>2, <2>3, <2>4, <2>5, <2>6
<1>9. SnapshotFor(S, height) = low
  <2>1. Latest(Stored(S), S.latest) /\ S.latest \in 0..MaxHeight
    BY <1>2 DEF SnapshotsOf
  <2>2. back[S.latest] = answer[S.latest]
    BY <1>8, <2>1
  <2>3. CASE S.latest = 0
    <3>1. Stored(S) = {} /\ low = 0
      BY <1>3, <2>1, <2>3 DEF Latest, LastOf
    <3> QED BY <1>0, <1>1, <2>1, <2>2, <2>3, <3>1
  <2>4. CASE S.latest # 0 /\ S.latest <= height
    <3>1. S.latest \in Stored(S) /\ \A g \in Stored(S) : g <= S.latest
      BY <2>1, <2>4 DEF Latest
    <3>2. low # 0
      BY <1>0, <1>3, <2>1, <2>4, <3>1
    <3>3. low <= S.latest /\ S.latest <= low
      BY <1>3, <2>4, <3>1, <3>2 DEF LastOf
    <3> QED BY <1>1, <2>1, <2>2, <2>4, <3>3
  <2>5. CASE S.latest # 0 /\ ~ (S.latest <= height)
    <3>1. S.latest \in Stored(S)
      BY <2>1, <2>5 DEF Latest
    <3> QED BY <1>1, <2>1, <2>2, <2>5, <3>1
  <2> QED BY <2>3, <2>4, <2>5
<1>10. CASE low = 0
  <2>1. C[i] = {}
    BY <1>3, <1>10 DEF SnapshotsOf, height
  <2> QED BY <1>9, <1>10, <2>1 DEF CommitteeAt, height
<1>11. CASE low # 0
  <2>1. low \in Stored(S) /\ LastOf(Stored(S), BaseHeight + i, low)
    BY <1>3, <1>11 DEF LastOf, height
  <2>2. S.at[low].members = C[i]
    BY <2>1 DEF SnapshotsOf
  <2> QED BY <1>9, <1>11, <2>2 DEF CommitteeAt, height
<1> QED BY <1>10, <1>11

-----------------------------------------------------------------------------
(* The snapshots follow the chain: those in the current transaction are    *)
(* for the committed chain until the block under way has captured its      *)
(* committee or given its own back.                                        *)
Committees(p, n) == [i \in 0..n |-> SelectCommittee(RegistryAt(p, i), BaseHeight + i)]

SInv ==
  /\ SnapshotsOf(saved.snapshots, Committees(past, Len(chain)), Len(chain))
  /\ stage \notin {"captured", "undone"} => snapshots = saved.snapshots
  /\ stage = "captured" =>
       SnapshotsOf(snapshots, Committees(Append(past, steps), Len(chain) + 1), Len(chain) + 1)
  /\ stage = "undone" =>
       SnapshotsOf(snapshots, Committees(past, Len(chain) - 1), Len(chain) - 1)

LEMMA CommitteesOf ==
  ASSUME NEW p, NEW n, NEW i \in 0..n
  PROVE  Committees(p, n)[i] = SelectCommittee(RegistryAt(p, i), BaseHeight + i)
BY DEF Committees

LEMMA InitSInv == Init => SInv
<1> SUFFICES ASSUME Init PROVE SInv
  OBVIOUS
<1>1. Len(chain) = 0 /\ past = <<>> /\ stage = "idle" /\ snapshots = NoSnapshots
      /\ saved.snapshots = NoSnapshots
  BY EmptySeq DEF Init
<1>2. NoSnapshots = [at |-> NoSnapshots.at, latest |-> NoSnapshots.latest]
      /\ NoSnapshots.latest = 0 /\ NoSnapshots.at \in [Heights -> Snapshots \cup {None}]
      /\ Stored(NoSnapshots) = {}
  BY DEF NoSnapshots, Stored
<1>3. \A i \in 0..0 : i = 0 /\ Committees(past, 0)[i] = {}
  BY CommitteesOf, NobodySelected DEF RegistryAt
<1>4. SnapshotsOf(NoSnapshots, Committees(past, 0), 0)
  BY <1>2, <1>3 DEF SnapshotsOf, Latest
<1> QED BY <1>1, <1>4 DEF SInv

LEMMA CaptureSInv == RInv /\ SInv /\ CaptureCommittee => SInv'
<1> SUFFICES ASSUME RInv, SInv, CaptureCommittee PROVE SInv'
  OBVIOUS
<1>1. /\ stage = "applying" /\ stage' = "captured" /\ chain' = chain /\ registry' = registry
      /\ saved' = saved /\ past' = past /\ steps' = steps
      /\ snapshots' = StoreCommittee(snapshots, registry, Height)
  BY DEF CaptureCommittee
<1>2. UnderWay /\ Typed /\ PastIs(past, chain)
  BY <1>1 DEF RInv
<1>3. Len(chain) \in Nat /\ BaseHeight \in Nat /\ Height \in Heights
      /\ Height = BaseHeight + Len(chain) + 1
  BY <1>1, <1>2, Bounds DEF UnderWay, Connecting, Height, Tip, Disconnecting
<1> DEFINE n == Len(chain)
           C == Committees(past, n)
           D == Committees(Append(past, steps), n + 1)
<1>4. /\ \A i \in 0..n : RegistryAt(Append(past, steps), i) = RegistryAt(past, i)
      /\ RegistryAt(Append(past, steps), n + 1) = registry
  <2>1. IsSeq(past) /\ Len(past) = n
    BY <1>2 DEF PastIs
  <2>2. /\ \A i \in 1..n : Append(past, steps)[i] = past[i]
        /\ Append(past, steps)[n + 1] = steps
    BY <2>1, AppendFacts
  <2>3. n + 1 # 0 /\ \A i \in 0..n : i = 0 \/ i \in 1..n
    BY <1>3
  <2>4. registry = Last(steps)
    BY <1>2 DEF UnderWay
  <2> QED BY <2>2, <2>3, <2>4 DEF RegistryAt
<1>5. /\ \A i \in 0..n : D[i] = C[i]
      /\ D[n + 1] = SelectCommittee(registry, Height)
  <2>1. \A i \in 0..n : i \in 0..(n + 1)
    BY <1>3
  <2>2. n + 1 \in 0..(n + 1) /\ BaseHeight + (n + 1) = Height
    BY <1>3
  <2> QED BY <1>4, <2>1, <2>2, CommitteesOf
<1>6. RegistryOK(registry)
  BY Current DEF Sound
<1>7. SnapshotsOf(snapshots, C, n)
  BY <1>1 DEF SInv
<1> HIDE DEF C, D
<1>8. SnapshotsOf(snapshots', D, n + 1)
  BY <1>1, <1>3, <1>5, <1>6, <1>7, StoreKeeps
<1> QED BY <1>1, <1>8 DEF SInv, D

LEMMA UndoBlockSInv == RInv /\ SInv /\ UndoBlock => SInv'
<1> SUFFICES ASSUME RInv, SInv, UndoBlock PROVE SInv'
  OBVIOUS
<1>1. /\ stage = "unpaid" /\ stage' = "undone" /\ chain' = chain
      /\ saved' = saved /\ past' = past
      /\ snapshots' = UndoSnapshot(snapshots, Height)
  BY DEF UndoBlock
<1>2. Typed /\ chain # <<>> /\ Len(chain) \in Nat \ {0} /\ BaseHeight \in Nat
      /\ Tip \in Heights /\ Height = BaseHeight + Len(chain)
  <2>1. Typed /\ chain # <<>>
    BY <1>1 DEF RInv, UnderWay, Disconnecting
  <2>2. Len(chain) \in Nat \ {0} /\ BaseHeight \in Nat /\ MaxHeight \in Nat /\ Tip <= MaxHeight
    BY <2>1, Bounds DEF Typed
  <2> QED BY <1>1, <2>1, <2>2 DEF Heights, Height, Tip, Disconnecting
<1> DEFINE n == Len(chain)
           C == Committees(past, n)
           D == Committees(past, n - 1)
<1>3. \A i \in 0..(n - 1) : D[i] = C[i]
  <2>1. \A i \in 0..(n - 1) : i \in 0..n
    BY <1>2
  <2> QED BY <2>1, CommitteesOf
<1>4. SnapshotsOf(snapshots, C, n)
  BY <1>1 DEF SInv
<1> HIDE DEF C, D
<1>5. SnapshotsOf(snapshots', D, n - 1)
  BY <1>1, <1>2, <1>3, <1>4, UndoKeeps DEF Tip
<1> QED BY <1>1, <1>5 DEF SInv, D

LEMMA ConnectSInv == RInv /\ SInv /\ ConnectTip => SInv'
<1> SUFFICES ASSUME RInv, SInv, ConnectTip PROVE SInv'
  OBVIOUS
<1>1. /\ stage = "captured" /\ stage' = "idle" /\ chain' = Append(chain, block)
      /\ past' = Append(past, steps)
      /\ saved'.snapshots = snapshots /\ snapshots' = snapshots
  BY DEF ConnectTip, Commit, db
<1>2. Len(chain') = Len(chain) + 1
  BY <1>1, Bounds, AppendFacts DEF RInv
<1> QED BY <1>1, <1>2 DEF SInv

LEMMA DisconnectSInv == RInv /\ SInv /\ DisconnectTip => SInv'
<1> SUFFICES ASSUME RInv, SInv, DisconnectTip PROVE SInv'
  OBVIOUS
<1>1. /\ stage = "undone" /\ stage' = "idle" /\ chain' = Front(chain) /\ past' = Front(past)
      /\ saved'.snapshots = snapshots /\ snapshots' = snapshots
  BY DEF DisconnectTip, Commit, db
<1>2. Typed /\ chain # <<>> /\ PastIs(past, chain)
  BY <1>1 DEF RInv, UnderWay, Disconnecting
<1>3. /\ Len(chain) \in Nat \ {0} /\ Len(chain') = Len(chain) - 1
      /\ IsSeq(past) /\ Len(past) = Len(chain)
  BY <1>1, <1>2, Bounds, FrontFacts DEF PastIs
<1>4. \A i \in 1..(Len(chain) - 1) : past'[i] = past[i]
  BY <1>1, <1>3, FrontFacts, SeqFacts
<1>5. \A i \in 0..(Len(chain) - 1) : RegistryAt(past', i) = RegistryAt(past, i)
  BY <1>3, <1>4 DEF RegistryAt
<1>6. Committees(past', Len(chain) - 1) = Committees(past, Len(chain) - 1)
  BY <1>5 DEF Committees
<1> QED BY <1>1, <1>3, <1>6 DEF SInv

LEMMA NextSInv == RInv /\ SInv /\ [Next]_vars => SInv'
<1> SUFFICES ASSUME RInv, SInv, [Next]_vars PROVE SInv'
  OBVIOUS
<1>1. CASE /\ chain' = chain /\ past' = past /\ saved' = saved
           /\ snapshots' = saved.snapshots \/ (snapshots' = snapshots /\ stage' # "captured"
                                               /\ stage \notin {"captured", "undone"})
           /\ stage' \notin {"captured", "undone"}
  BY <1>1 DEF SInv
<1>2. CASE PayMasternode
  BY <1>1, <1>2 DEF PayMasternode
<1>3. CASE TakeHeartbeats
  BY <1>1, <1>3 DEF TakeHeartbeats
<1>4. ASSUME NEW t \in Txs, ApplyTx(t) PROVE SInv'
  BY <1>1, <1>4 DEF ApplyTx
<1>5. CASE CaptureCommittee
  BY <1>5, CaptureSInv
<1>6. CASE ConnectTip
  BY <1>6, ConnectSInv
<1>7. CASE Abandon
  BY <1>1, <1>7 DEF Abandon
<1>8. CASE DisconnectBlock
  BY <1>1, <1>8 DEF DisconnectBlock, db
<1>9. CASE UndoTx
  BY <1>1, <1>9 DEF UndoTx
<1>10. CASE UndoHeartbeats
  BY <1>1, <1>10 DEF UndoHeartbeats
<1>11. CASE UndoReward
  BY <1>1, <1>11 DEF UndoReward
<1>12. CASE UndoBlock
  BY <1>12, UndoBlockSInv
<1>13. CASE DisconnectTip
  BY <1>13, DisconnectSInv
<1>14. CASE UNCHANGED vars
  <2>1. /\ chain' = chain /\ stage' = stage /\ snapshots' = snapshots
        /\ saved' = saved /\ past' = past /\ steps' = steps
    BY <1>14 DEF vars, db
  <2> QED BY <2>1 DEF SInv
<1> QED BY <1>2, <1>3, <1>4, <1>5, <1>6, <1>7, <1>8, <1>9, <1>10, <1>11, <1>12, <1>13, <1>14 DEF Next

LEMMA SInvHolds == Spec => [](RInv /\ SInv)
<1>1. RInv /\ SInv /\ [Next]_vars => RInv' /\ SInv'
  BY NextRInv, NextSInv
<1>2. Init => RInv /\ SInv
  BY InitRInv, InitSInv
<1> QED BY <1>1, <1>2, PTL DEF Spec

(* CommitteeAt answers for every height of the active chain with the       *)
(* committee of the registry that the block of that height left, whatever  *)
(* StoreCommittee and UndoSnapshot wrote and took back on the way.         *)
THEOREM CommitteesRemembered == Spec => []CommitteeHistory
<1>1. RInv /\ SInv => CommitteeHistory
  <2> SUFFICES ASSUME RInv, SInv, stage = "idle", NEW height \in BaseHeight..Tip
               PROVE  CommitteeAt(snapshots, height) = SelectCommittee(TipRegistry(height), height)
    BY DEF CommitteeHistory
  <2> DEFINE n == Len(chain)
             i == height - BaseHeight
  <2>1. n \in Nat /\ BaseHeight \in Nat /\ Tip <= MaxHeight /\ PastIs(past, chain)
    BY Bounds DEF RInv, Typed
  <2>2. i \in 0..n /\ height = BaseHeight + i
    BY <2>1 DEF Tip
  <2>3. SnapshotsOf(snapshots, Committees(past, n), n)
    BY DEF SInv
  <2>4. CommitteeAt(snapshots, BaseHeight + i) = Committees(past, n)[i]
    BY <2>1, <2>2, <2>3, SnapshotsAnswer DEF Tip
  <2>5. TipRegistry(height) = RegistryAt(past, i)
    BY <2>1, <2>2 DEF TipRegistry, RegistryAt
  <2> QED BY <2>2, <2>4, <2>5, CommitteesOf
<1> QED BY <1>1, SInvHolds, PTL

-----------------------------------------------------------------------------
(* Coins and heartbeats.  A state of the registry is seen against the      *)
(* blocks it has taken: where says in which of them a transaction stands,  *)
(* and beats which heartbeats they carried.                                *)
Took(where, t) == where[t] # {}

SpentIn(where, c) == \E t \in Txs : Took(where, t) /\ c \in Tx[t].spends

\* The height of a coin in the view of such a state.
CoinAt(where, c) ==
  IF SpentIn(where, c) THEN 0
  ELSE IF c \in Wallet THEN WalletHeight[c]
  ELSE Max({0} \cup {BaseHeight + i : i \in where[c]})

OwnBeats(beats, id, r) ==
  {beat \in beats : beat.registration = id /\ beat.sequence = r.sequence}

Backed(R, where, beats) ==
  /\ DOMAIN R.undo = {t \in Txs : Took(where, t)}
  /\ Registered(R) \subseteq DOMAIN R.undo
  /\ \A t \in DOMAIN R.undo : \A c \in Tx[t].spends : c \in Wallet \/ Took(where, c)
  /\ \A id \in Registered(R) :
       CoinAt(where, R.record[id].collateral) = R.record[id].collateralHeight
  /\ \A beat \in beats :
       beat.registration \in DOMAIN R.undo /\ beat.sequence \in Nat /\ beat.height \in Heights
  /\ \A id \in Registered(R) :
       /\ \A beat \in beats : beat.registration = id => beat.sequence <= R.record[id].sequence
       /\ R.record[id].lastHeartbeat =
            Max({0} \cup {beat.height : beat \in OwnBeats(beats, id, R.record[id])})

\* The blocks of c up to number n that hold t, and what they carried.
BlocksWith(c, n, t) == {i \in 1..n : t \in ToSet(c[i].txs)}
BeatsOf(c, n) == UNION {c[i].beats : i \in 1..n}

\* What state j of block b, the n-th, has taken.
First(txs, k) == {txs[m] : m \in 1..k}
WhereAt(c, b, n, j) ==
  [t \in Txs |-> BlocksWith(c, n - 1, t) \cup {i \in {n} : t \in First(b.txs, j - 3)}]
BeatsAt(c, b, n, j) == BeatsOf(c, n - 1) \cup (IF j >= 3 THEN b.beats ELSE {})

StepsBacked(states, c, b, n) ==
  \A j \in 1..Len(states) : Backed(states[j], WhereAt(c, b, n, j), BeatsAt(c, b, n, j))

QInv ==
  /\ \A n \in 1..Len(chain) : StepsBacked(past[n], chain, chain[n], n)
  /\ stage # "idle" => StepsBacked(steps, chain, block, Number)
  /\ stage \in {"paid", "unbeaten", "unpaid", "undone"} => block.beats = {}

LEMMA MaxOf ==
  ASSUME NEW S, S \subseteq Nat, NEW x \in S, \A y \in S : y <= x
  PROVE  Max(S) = x
<1> DEFINE m == Max(S)
<1>1. m \in S /\ \A y \in S : m >= y
  BY DEF Max
<1>2. m \in Nat /\ x \in Nat /\ m >= x /\ m <= x
  BY <1>1
<1> QED BY <1>2

(* The records after each operation.                                       *)
LEMMA PaidRecords ==
  ASSUME NEW R, Sound(R), NEW h \in Heights
  PROVE  LET Q == Pay(R, h)
         IN  /\ Q.undo = R.undo
             /\ \A id \in Txs :
                  \/ /\ Q.record[id] = R.record[id]
                     /\ id \notin DOMAIN Reward(R, h)
                  \/ /\ R.record[id] \in Record
                     /\ Q.record[id] = [R.record[id] EXCEPT !.lastPaid = h]
                     /\ id \in DOMAIN Reward(R, h)
<1> DEFINE change == Reward(R, h)
           Q == Pay(R, h)
<1>1. Change(change)
  BY RewardTyped DEF Sound
<1>2. \A id \in DOMAIN change :
        R.record[id] \in Record /\ change[id] = [R.record[id] EXCEPT !.lastPaid = h]
  <2>1. CASE FindPayee(R, h) = None
    BY <2>1 DEF Reward, Nobody
  <2>2. CASE FindPayee(R, h) # None
    <3>1. R.record[FindPayee(R, h)] \in Record
      BY <2>2, PayeeIsCandidate DEF Candidates, Registered, Sound, RegistryOK
    <3> QED BY <2>2, <3>1 DEF Reward
  <2> QED BY <2>1, <2>2
<1>3. Q.record = Replace(R, change).record /\ Q.undo = Replace(R, change).undo
  BY DEF Pay, Replace
<1> HIDE DEF change, Q
<1>4. /\ \A id \in Txs : Q.record[id] = IF id \in DOMAIN change THEN change[id] ELSE R.record[id]
      /\ Q.undo = R.undo
  BY <1>1, <1>3, ReplaceTyped DEF Sound
<1>5. \A id \in Txs :
        \/ /\ Q.record[id] = R.record[id]
           /\ id \notin DOMAIN change
        \/ /\ R.record[id] \in Record
           /\ Q.record[id] = [R.record[id] EXCEPT !.lastPaid = h]
           /\ id \in DOMAIN change
  BY <1>2, <1>4
<1> QED BY <1>4, <1>5 DEF Q, change

LEMMA BeatenRecords ==
  ASSUME NEW R, Sound(R), NEW h \in Heights, NEW parent, NEW batch,
         CanBeat(R, batch, parent), \A beat \in batch : beat.height \in Heights
  PROVE  LET Q == Beat(R, batch, h)
         IN  /\ Q.undo = R.undo
             /\ \A id \in Txs :
                  \/ /\ Q.record[id] = R.record[id]
                     /\ \A beat \in batch : beat.registration # id
                  \/ /\ R.record[id] \in Record
                     /\ \E beat \in batch :
                          /\ beat.registration = id
                          /\ \A other \in batch : other.registration = id => other = beat
                          /\ Verify(R, beat, parent)
                          /\ Q.record[id] = [R.record[id] EXCEPT !.lastHeartbeat = beat.height]
<1> DEFINE change == Alive(R, batch)
           Q == Beat(R, batch, h)
<1>1. Change(change)
  BY AliveTyped DEF Sound, CanBeat
<1>2. DOMAIN change = {beat.registration : beat \in batch}
  BY DEF Alive
<1>3. ASSUME NEW id \in DOMAIN change
      PROVE  /\ R.record[id] \in Record
             /\ \E beat \in batch :
                  /\ beat.registration = id
                  /\ \A other \in batch : other.registration = id => other = beat
                  /\ Verify(R, beat, parent)
                  /\ change[id] = [R.record[id] EXCEPT !.lastHeartbeat = beat.height]
  <2> DEFINE own == CHOOSE beat \in batch : beat.registration = id
  <2>1. own \in batch /\ own.registration = id
    BY <1>2
  <2>2. change[id] = [R.record[id] EXCEPT !.lastHeartbeat = own.height]
    BY <1>2 DEF Alive
  <2>3. Verify(R, own, parent) /\ \A other \in batch : other.registration = id => other = own
    BY <2>1 DEF CanBeat
  <2> HIDE DEF own
  <2>4. R.record[id] \in Record
    BY <2>1, <2>3 DEF Verify, Registered, Sound, RegistryOK
  <2> QED BY <2>1, <2>2, <2>3, <2>4
<1>4. Q.record = Replace(R, change).record /\ Q.undo = Replace(R, change).undo
  BY DEF Beat, Replace
<1> HIDE DEF change, Q
<1>5. /\ \A id \in Txs : Q.record[id] = IF id \in DOMAIN change THEN change[id] ELSE R.record[id]
      /\ Q.undo = R.undo
  BY <1>1, <1>4, ReplaceTyped DEF Sound
<1>6. ASSUME NEW id \in Txs
      PROVE  \/ /\ Q.record[id] = R.record[id]
                /\ \A beat \in batch : beat.registration # id
             \/ /\ R.record[id] \in Record
                /\ \E beat \in batch :
                     /\ beat.registration = id
                     /\ \A other \in batch : other.registration = id => other = beat
                     /\ Verify(R, beat, parent)
                     /\ Q.record[id] = [R.record[id] EXCEPT !.lastHeartbeat = beat.height]
  <2>1. CASE id \in DOMAIN change
    <3>1. Q.record[id] = change[id]
      BY <1>5, <2>1
    <3>2. R.record[id] \in Record
      BY <1>3, <2>1
    <3>3. PICK beat \in batch :
            /\ beat.registration = id
            /\ \A other \in batch : other.registration = id => other = beat
            /\ Verify(R, beat, parent)
            /\ change[id] = [R.record[id] EXCEPT !.lastHeartbeat = beat.height]
      BY <1>3, <2>1
    <3> QED BY <3>1, <3>2, <3>3
  <2>2. CASE id \notin DOMAIN change
    BY <1>2, <1>5, <2>2
  <2> QED BY <2>1, <2>2
<1> QED BY <1>5, <1>6 DEF Q

\* A transaction starts a registration, moves one to its next sequence, or
\* leaves all of them alone, apart from those whose collateral it spends.
LEMMA AppliedRecords ==
  ASSUME NEW R, Sound(R), NEW t \in Txs, NEW h \in Heights,
         NEW coins \in [Coins -> Heights \cup {0}], CanApply(R, t, coins, h)
  PROVE  LET Q == Apply(R, t, coins, h)
         IN  /\ DOMAIN Q.undo = DOMAIN R.undo \cup {t}
             /\ \A id \in Txs :
                  \/ Q.record[id] = None
                  \/ /\ Q.record[id] = R.record[id]
                     /\ R.record[id].collateral \notin Tx[t].spends
                  \/ /\ id = t /\ R.record[id] = None
                     /\ Tx[t].collateral \in Coins
                     /\ Tx[t].collateral \notin Tx[t].spends
                     /\ Tx[t].collateral # t => coins[Tx[t].collateral] # 0
                     /\ Q.record[id] = NewRecord(t, coins, h)
                  \/ /\ R.record[id] \in Record
                     /\ R.record[id].collateral \notin Tx[t].spends
                     /\ Q.record[id].collateral = R.record[id].collateral
                     /\ Q.record[id].collateralHeight = R.record[id].collateralHeight
                     /\ Q.record[id].sequence = R.record[id].sequence + 1
                     /\ Q.record[id].lastHeartbeat = 0
                     /\ \/ Q.record[id] = Updated(R.record[id], t)
                        \/ Q.record[id] = Served(R.record[id], t, h) /\ ~ R.record[id].revoked
                        \/ Q.record[id] = Revoked(R.record[id], t)
<1> DEFINE change == Changes(R, t, coins, h)
           Q == Apply(R, t, coins, h)
<1>1. Change(change)
  BY ChangesTyped DEF Sound
<1>2. Q.record = Replace(R, change).record
      /\ Q.undo = Write(Replace(R, change).undo, t, UndoOf(R, change))
  BY DEF Apply, Replace
<1>3. /\ \A id \in Txs : Q.record[id] = IF id \in DOMAIN change THEN change[id] ELSE R.record[id]
      /\ DOMAIN Q.undo = DOMAIN R.undo \cup {t}
  <2> HIDE DEF change, Q
  <2> QED BY <1>1, <1>2, ReplaceTyped DEF Sound, Write
<1>4. ASSUME NEW id \in Txs, R.record[id] # None, R.record[id].collateral \in Tx[t].spends
      PROVE  id \in Removed(R, t)
  <2>1. R.record[id] \in Record
    BY <1>4 DEF Sound, RegistryOK
  <2>2. <<"collateral", R.record[id].collateral>> \in PropertiesOf(R.record[id])
    BY DEF PropertiesOf
  <2>3. R.owner[<<"collateral", R.record[id].collateral>>] = id
    BY <1>4, <2>1, <2>2, PropertiesTyped DEF Sound, IndexOf
  <2>4. id # None
    BY RegistryAssumption
  <2> QED BY <1>4, <2>3, <2>4 DEF Removed
<1>5. DOMAIN change = IF Tx[t].mode = "TRANSFER" THEN Removed(R, t) ELSE Removed(R, t) \cup {Target(t)}
  BY DEF Changes
<1>6. \A id \in Removed(R, t) :
        Tx[t].mode = "TRANSFER" \/ id # Target(t) => id \in DOMAIN change /\ change[id] = None
  BY DEF Changes
<1>7. Tx[t].mode # "TRANSFER" => Target(t) \in DOMAIN change
        /\ change[Target(t)] = Replacement(R, t, coins, h)
  BY DEF Changes
<1> HIDE DEF change, Q
<1> SUFFICES ASSUME NEW id \in Txs
             PROVE
                  \/ Q.record[id] = None
                  \/ /\ Q.record[id] = R.record[id]
                     /\ R.record[id].collateral \notin Tx[t].spends
                  \/ /\ id = t /\ R.record[id] = None
                     /\ Tx[t].collateral \in Coins
                     /\ Tx[t].collateral \notin Tx[t].spends
                     /\ Tx[t].collateral # t => coins[Tx[t].collateral] # 0
                     /\ Q.record[id] = NewRecord(t, coins, h)
                  \/ /\ R.record[id] \in Record
                     /\ R.record[id].collateral \notin Tx[t].spends
                     /\ Q.record[id].collateral = R.record[id].collateral
                     /\ Q.record[id].collateralHeight = R.record[id].collateralHeight
                     /\ Q.record[id].sequence = R.record[id].sequence + 1
                     /\ Q.record[id].lastHeartbeat = 0
                     /\ \/ Q.record[id] = Updated(R.record[id], t)
                        \/ Q.record[id] = Served(R.record[id], t, h) /\ ~ R.record[id].revoked
                        \/ Q.record[id] = Revoked(R.record[id], t)
  BY <1>3 DEF Q
<1>8. CASE id \notin DOMAIN change
  <2>1. Q.record[id] = R.record[id] /\ id \notin Removed(R, t)
    BY <1>3, <1>5, <1>8
  <2> QED BY <1>4, <2>1
<1>9. CASE id \in DOMAIN change /\ (Tx[t].mode = "TRANSFER" \/ id # Target(t))
  <2>1. change[id] = None
    BY <1>5, <1>6, <1>9
  <2> QED BY <1>3, <1>9, <2>1
<1>10. CASE id = Target(t) /\ Tx[t].mode = "REGISTER"
  <2>1. id = t /\ CanRegister(R, t, coins) /\ Q.record[id] = NewRecord(t, coins, h)
    BY <1>3, <1>7, <1>10 DEF Target, CanApply, Replacement
  <2>2. Tx[t].collateral \in Coins
    BY <1>10, RegistryAssumption DEF Operation
  <2> QED BY <2>1, <2>2 DEF CanRegister
<1>11. CASE id = Target(t) /\ Tx[t].mode \notin {"TRANSFER", "REGISTER"}
  <2>1. Tx[t].mode \in {"UPDATE", "SERVICE", "REVOKE"}
    BY <1>11, RegistryAssumption DEF Operation
  <2> DEFINE r == R.record[id]
  <2>2. id = Tx[t].registration /\ CanChange(R, t, coins)
    BY <1>11, <2>1 DEF Target, CanApply
  <2>3. r \in Record /\ r # None /\ id \notin Removed(R, t) /\ Tx[t].sequence = r.sequence + 1
    BY <2>2 DEF CanChange, Registered, Sound, RegistryOK
  <2>4. Q.record[id] = Replacement(R, t, coins, h)
    BY <1>3, <1>7, <1>11
  <2>5. /\ NextSequence(r, t).collateral = r.collateral
        /\ NextSequence(r, t).collateralHeight = r.collateralHeight
        /\ NextSequence(r, t).sequence = r.sequence + 1
        /\ NextSequence(r, t).lastHeartbeat = 0
        /\ NextSequence(r, t) \in Record
    <3>1. Tx[t].sequence \in Nat
      BY <2>1, RegistryAssumption DEF Operation
    <3> QED BY <2>3, <3>1 DEF NextSequence, Record
  <2>6. Replacement(R, t, coins, h) = IF Tx[t].mode = "UPDATE" THEN Updated(r, t)
                                      ELSE IF Tx[t].mode = "SERVICE" THEN Served(r, t, h)
                                      ELSE Revoked(r, t)
    BY <2>1, <2>2 DEF Replacement
  <2>7. r.collateral \notin Tx[t].spends
    BY <1>4, <2>3
  <2> HIDE DEF r
  <2> DEFINE Next1(q) == /\ q.collateral = r.collateral
                         /\ q.collateralHeight = r.collateralHeight
                         /\ q.sequence = r.sequence + 1
                         /\ q.lastHeartbeat = 0
  <2>8. Next1(Updated(r, t))
    BY <2>5 DEF Updated, Record
  <2>9. Next1(Served(r, t, h))
    BY <2>5 DEF Served, Record
  <2>10. Next1(Revoked(r, t))
    BY <2>5 DEF Revoked, Record
  <2>11. Next1(Q.record[id])
    BY <2>4, <2>6, <2>8, <2>9, <2>10
  <2>12. \/ Q.record[id] = Updated(r, t)
         \/ Q.record[id] = Served(r, t, h) /\ ~ r.revoked
         \/ Q.record[id] = Revoked(r, t)
    <3>1. Tx[t].mode = "SERVICE" => ~ r.revoked
      BY <2>1, <2>2 DEF CanApply, Authorised, r
    <3> QED BY <2>1, <2>4, <2>6, <3>1
  <2> QED BY <2>3, <2>7, <2>11, <2>12 DEF r
<1> QED BY <1>5, <1>8, <1>9, <1>10, <1>11

-----------------------------------------------------------------------------
(* Each step keeps the registry backed.                                    *)
Placed(where) ==
  /\ where = [t \in Txs |-> where[t]]
  /\ \A t \in Txs : where[t] \subseteq 1..MaxHeight

LEMMA CoinCreated ==
  ASSUME NEW where, Placed(where), NEW c \in Txs, NEW i \in 1..MaxHeight,
         where[c] = {i}, ~ SpentIn(where, c)
  PROVE  CoinAt(where, c) = BaseHeight + i
<1>1. c \notin Wallet /\ BaseHeight \in Nat /\ MaxHeight \in Nat
  BY RegistryAssumption, ChainAssumption DEF Heights
<1>2. CoinAt(where, c) = Max({0} \cup {BaseHeight + i})
  BY <1>1 DEF CoinAt
<1>3. {0} \cup {BaseHeight + i} \subseteq Nat
  BY <1>1
<1>4. \A y \in {0} \cup {BaseHeight + i} : y <= BaseHeight + i
  BY <1>1
<1>5. Max({0} \cup {BaseHeight + i}) = BaseHeight + i
  BY ONLY <1>3, <1>4, MaxOf
<1> QED BY <1>2, <1>5

\* What a state is backed by does not depend on who was paid.
LEMMA PayBacked ==
  ASSUME NEW R, Sound(R), NEW h \in Heights, NEW where, NEW beats, Backed(R, where, beats)
  PROVE  Backed(Pay(R, h), where, beats)
<1> DEFINE Q == Pay(R, h)
<1>1. /\ Q.undo = R.undo
      /\ \A id \in Txs :
           \/ Q.record[id] = R.record[id]
           \/ /\ R.record[id] \in Record
              /\ Q.record[id] = [R.record[id] EXCEPT !.lastPaid = h]
  BY PaidRecords
<1> HIDE DEF Q
<1>2. None \notin Record
  BY RegistryAssumption
<1>3. \A id \in Registered(Q) :
        /\ id \in Registered(R)
        /\ Q.record[id].collateral = R.record[id].collateral
        /\ Q.record[id].collateralHeight = R.record[id].collateralHeight
        /\ Q.record[id].sequence = R.record[id].sequence
        /\ Q.record[id].lastHeartbeat = R.record[id].lastHeartbeat
  BY <1>1, <1>2 DEF Registered, Record
<1>4. \A id \in Registered(Q) : OwnBeats(beats, id, Q.record[id]) = OwnBeats(beats, id, R.record[id])
  BY <1>3 DEF OwnBeats
<1>5. Backed(Q, where, beats)
  BY <1>1, <1>3, <1>4 DEF Backed
<1> QED BY <1>5 DEF Q

LEMMA BeatBacked ==
  ASSUME NEW R, Sound(R), NEW h \in Heights, NEW where, NEW beats, Backed(R, where, beats),
         NEW parent, NEW batch \in SUBSET Heartbeats, CanBeat(R, batch, parent)
  PROVE  Backed(Beat(R, batch, h), where, beats \cup batch)
<1> DEFINE Q == Beat(R, batch, h)
           more == beats \cup batch
<1>0. \A beat \in Heartbeats : beat.height \in Heights /\ beat.height \in Nat
  BY DEF Heartbeats, Heights
<1>1. /\ Q.undo = R.undo
      /\ \A id \in Txs :
           \/ /\ Q.record[id] = R.record[id]
              /\ \A beat \in batch : beat.registration # id
           \/ /\ R.record[id] \in Record
              /\ \E beat \in batch :
                   /\ beat.registration = id
                   /\ \A other \in batch : other.registration = id => other = beat
                   /\ Verify(R, beat, parent)
                   /\ Q.record[id] = [R.record[id] EXCEPT !.lastHeartbeat = beat.height]
  <2>1. \A beat \in batch : beat.height \in Heights
    BY <1>0
  <2> QED BY <2>1, BeatenRecords
<1> HIDE DEF Q
<1>2. None \notin Record
  BY RegistryAssumption
<1>3. ASSUME NEW id \in Registered(Q)
      PROVE  /\ id \in Registered(R)
             /\ Q.record[id].collateral = R.record[id].collateral
             /\ Q.record[id].collateralHeight = R.record[id].collateralHeight
             /\ Q.record[id].sequence = R.record[id].sequence
             /\ \A beat \in more : beat.registration = id => beat.sequence <= Q.record[id].sequence
             /\ Q.record[id].lastHeartbeat =
                  Max({0} \cup {beat.height : beat \in OwnBeats(more, id, Q.record[id])})
  <2>1. id \in Txs
    BY DEF Registered
  <2>2. CASE Q.record[id] = R.record[id] /\ \A beat \in batch : beat.registration # id
    <3>1. id \in Registered(R)
      BY <2>2 DEF Registered
    <3>2. OwnBeats(more, id, Q.record[id]) = OwnBeats(beats, id, R.record[id])
      BY <2>2 DEF OwnBeats
    <3> QED BY <2>2, <3>1, <3>2 DEF Backed
  <2>3. CASE ~ (Q.record[id] = R.record[id] /\ \A beat \in batch : beat.registration # id)
    <3> DEFINE r == R.record[id]
    <3>1. r \in Record
      BY <1>1, <2>1, <2>3
    <3>2. PICK beat \in batch :
            /\ beat.registration = id
            /\ \A other \in batch : other.registration = id => other = beat
            /\ Verify(R, beat, parent)
            /\ Q.record[id] = [r EXCEPT !.lastHeartbeat = beat.height]
      BY <1>1, <2>1, <2>3
    <3>3. /\ id \in Registered(R)
          /\ Q.record[id].collateral = r.collateral
          /\ Q.record[id].collateralHeight = r.collateralHeight
          /\ Q.record[id].sequence = r.sequence
          /\ Q.record[id].lastHeartbeat = beat.height
      BY <1>2, <2>1, <3>1, <3>2 DEF Registered, Record
    <3>4. beat.sequence = r.sequence /\ beat.height > r.lastHeartbeat
      BY <3>2 DEF Verify, CheckContext
    <3> HIDE DEF r
    <3> DEFINE old == {0} \cup {b.height : b \in OwnBeats(beats, id, r)}
               new == {0} \cup {b.height : b \in OwnBeats(more, id, Q.record[id])}
    <3>5. OwnBeats(more, id, Q.record[id]) = OwnBeats(beats, id, r) \cup {beat}
      BY <3>2, <3>3, <3>4 DEF OwnBeats
    <3>6. old \subseteq 0..MaxHeight /\ old # {} /\ MaxHeight \in Nat
      <4>1. \A b \in OwnBeats(beats, id, r) : b.height \in Heights
        BY <1>0 DEF OwnBeats, Backed
      <4> QED BY <4>1, RegistryAssumption DEF Heights
    <3>7. Max(old) = r.lastHeartbeat
      BY <3>3 DEF Backed, r
    <3>8. \A y \in old : y <= r.lastHeartbeat /\ r.lastHeartbeat \in 0..MaxHeight
      <4> HIDE DEF old
      <4> QED BY <3>6, <3>7, MaxIs
    <3>9. new = old \cup {beat.height} /\ beat.height \in Nat
      BY <1>0, <3>5
    <3> HIDE DEF old, new
    <3>10. Max(new) = beat.height
      <4>a. 0..MaxHeight \subseteq Nat
        BY <3>6
      <4>1. new \subseteq Nat /\ beat.height \in new
        BY <3>6, <3>9, <4>a
      <4>2. \A y \in new : y <= beat.height
        BY <3>4, <3>6, <3>8, <3>9
      <4> QED BY ONLY <4>1, <4>2, MaxOf
    <3>11. \A b \in more : b.registration = id => b.sequence <= r.sequence
      <4>1. r.sequence \in Nat
        BY <3>1 DEF Record, r
      <4>2. \A b \in beats : b.registration = id => b.sequence <= r.sequence
        BY <3>3 DEF Backed, r
      <4> QED BY <3>2, <3>4, <4>1, <4>2
    <3> QED BY <3>3, <3>10, <3>11 DEF new, r
  <2> QED BY <2>2, <2>3
<1>4. \A beat \in more : beat.registration \in DOMAIN R.undo
        /\ beat.sequence \in Nat /\ beat.height \in Heights
  <2>1. \A beat \in batch : beat.registration \in Registered(R)
        /\ beat.sequence = R.record[beat.registration].sequence
    BY DEF CanBeat, Verify, CheckContext
  <2>2. \A id \in Registered(R) : R.record[id].sequence \in Nat
    BY DEF Registered, Record, Sound, RegistryOK
  <2> QED BY <1>0, <2>1, <2>2 DEF Backed
<1> HIDE DEF more
<1>5. Backed(Q, where, more)
  BY <1>1, <1>3, <1>4 DEF Backed
<1> QED BY <1>5 DEF Q, more

LEMMA ApplyBacked ==
  ASSUME NEW R, Sound(R), NEW t \in Txs, NEW i \in 1..MaxHeight, BaseHeight + i \in Heights,
         NEW where, Placed(where), NEW beats, Backed(R, where, beats),
         NEW coins \in [Coins -> Heights \cup {0}],
         \A c \in Coins : coins[c] = CoinAt(where, c),
         CanApply(R, t, coins, BaseHeight + i),
         NEW further, Placed(further), further[t] = where[t] \cup {i},
         \A s \in Txs \ {t} : further[s] = where[s]
  PROVE  Backed(Apply(R, t, coins, BaseHeight + i), further, beats)
<1> DEFINE h == BaseHeight + i
           Q == Apply(R, t, coins, h)
<1>0. /\ Wallet \cap Txs = {} /\ None \notin Record /\ Tx[t].spends \subseteq Coins
      /\ Coins = Wallet \cup Txs
  BY RegistryAssumption DEF Operation, Coins
<1>1. /\ DOMAIN Q.undo = DOMAIN R.undo \cup {t}
      /\ \A id \in Txs :
           \/ Q.record[id] = None
           \/ /\ Q.record[id] = R.record[id]
              /\ R.record[id].collateral \notin Tx[t].spends
           \/ /\ id = t /\ R.record[id] = None
              /\ Tx[t].collateral \in Coins
              /\ Tx[t].collateral \notin Tx[t].spends
              /\ Tx[t].collateral # t => coins[Tx[t].collateral] # 0
              /\ Q.record[id] = NewRecord(t, coins, h)
           \/ /\ R.record[id] \in Record
              /\ R.record[id].collateral \notin Tx[t].spends
              /\ Q.record[id].collateral = R.record[id].collateral
              /\ Q.record[id].collateralHeight = R.record[id].collateralHeight
              /\ Q.record[id].sequence = R.record[id].sequence + 1
              /\ Q.record[id].lastHeartbeat = 0
  BY AppliedRecords
<1> HIDE DEF Q
<1>2. t \notin DOMAIN R.undo /\ where[t] = {} /\ ~ Took(where, t)
  BY DEF CanApply, Backed, Took
<1>3. \A s \in Txs : Took(further, s) <=> s = t \/ Took(where, s)
  BY DEF Took
<1>4. \A c \in Tx[t].spends : c \in Wallet \/ Took(where, c)
  <2> SUFFICES ASSUME NEW c \in Tx[t].spends, c \notin Wallet, ~ Took(where, c) PROVE FALSE
    OBVIOUS
  <2>1. c \in Txs /\ where[c] = {} /\ coins[c] = CoinAt(where, c) /\ coins[c] # 0
    BY <1>0 DEF Took, CanApply
  <2>2. {0} \cup {BaseHeight + k : k \in where[c]} = {0}
    BY <2>1
  <2>3. Max({0}) = 0
    BY MaxOf
  <2> QED BY <2>1, <2>2, <2>3 DEF CoinAt
<1>5. \A c : SpentIn(further, c) <=> SpentIn(where, c) \/ c \in Tx[t].spends
  BY <1>3 DEF SpentIn
<1>6. \A c \in Coins : c # t /\ c \notin Tx[t].spends => CoinAt(further, c) = CoinAt(where, c)
  BY <1>0, <1>5 DEF CoinAt
<1>7. t \notin Tx[t].spends /\ ~ SpentIn(where, t)
  <2>1. t \notin Wallet
    BY <1>0
  <2>2. \A s \in Txs : Took(where, s) => t \notin Tx[s].spends
    BY <1>2, <2>1 DEF Backed
  <2> QED BY <1>2, <1>4, <2>1, <2>2 DEF SpentIn
<1>8. CoinAt(further, t) = h
  BY <1>2, <1>5, <1>7, CoinCreated
<1>9. \A id \in Registered(R) : R.record[id].collateral # t /\ R.record[id] \in Record
  <2> SUFFICES ASSUME NEW id \in Registered(R), R.record[id].collateral = t PROVE FALSE
    BY DEF Registered, Sound, RegistryOK
  <2>1. CoinAt(where, t) = R.record[id].collateralHeight /\ R.record[id] \in Record
    BY DEF Backed, Registered, Sound, RegistryOK
  <2>2. {0} \cup {BaseHeight + k : k \in where[t]} = {0}
    BY <1>2
  <2>3. Max({0}) = 0
    BY MaxOf
  <2>4. CoinAt(where, t) = 0
    BY <1>0, <2>2, <2>3 DEF CoinAt
  <2>5. R.record[id].collateralHeight # 0
    BY <2>1 DEF Record, Heights
  <2> QED BY <2>1, <2>4, <2>5
<1>10. Max({0}) = 0
  BY MaxOf
<1>11. ASSUME NEW id \in Registered(Q)
       PROVE  /\ id \in DOMAIN Q.undo
              /\ CoinAt(further, Q.record[id].collateral) = Q.record[id].collateralHeight
              /\ \A beat \in beats : beat.registration = id => beat.sequence <= Q.record[id].sequence
              /\ Q.record[id].lastHeartbeat =
                   Max({0} \cup {beat.height : beat \in OwnBeats(beats, id, Q.record[id])})
  <2>0. id \in Txs /\ Q.record[id] # None
    BY DEF Registered
  <2>1. CASE Q.record[id] = R.record[id] /\ R.record[id].collateral \notin Tx[t].spends
    <3>1. id \in Registered(R)
      BY <2>0, <2>1 DEF Registered
    <3>2. R.record[id].collateral \in Coins /\ R.record[id].collateral # t
      BY <1>9, <3>1 DEF Record
    <3>3. CoinAt(further, R.record[id].collateral) = R.record[id].collateralHeight
      BY <1>6, <2>1, <3>1, <3>2 DEF Backed
    <3> QED BY <1>1, <2>1, <3>1, <3>3 DEF Backed
  <2>2. CASE /\ id = t /\ R.record[id] = None
             /\ Tx[t].collateral \in Coins
             /\ Tx[t].collateral \notin Tx[t].spends
             /\ Tx[t].collateral # t => coins[Tx[t].collateral] # 0
             /\ Q.record[id] = NewRecord(t, coins, h)
    <3>1. /\ Q.record[id].collateral = Tx[t].collateral
          /\ Q.record[id].collateralHeight =
               IF Tx[t].collateral = t THEN h ELSE coins[Tx[t].collateral]
          /\ Q.record[id].lastHeartbeat = 0
      BY <2>2 DEF NewRecord
    <3>2. CoinAt(further, Tx[t].collateral) = Q.record[id].collateralHeight
      BY <1>6, <1>8, <2>2, <3>1
    <3>3. \A beat \in beats : beat.registration # id
      BY <1>2, <2>2 DEF Backed
    <3>4. {0} \cup {beat.height : beat \in OwnBeats(beats, id, Q.record[id])} = {0}
      BY <3>3 DEF OwnBeats
    <3> QED BY <1>1, <1>10, <2>2, <3>1, <3>2, <3>3, <3>4
  <2>3. CASE /\ R.record[id] \in Record
             /\ R.record[id].collateral \notin Tx[t].spends
             /\ Q.record[id].collateral = R.record[id].collateral
             /\ Q.record[id].collateralHeight = R.record[id].collateralHeight
             /\ Q.record[id].sequence = R.record[id].sequence + 1
             /\ Q.record[id].lastHeartbeat = 0
    <3>1. id \in Registered(R)
      BY <1>0, <2>0, <2>3 DEF Registered
    <3>2. R.record[id].collateral \in Coins /\ R.record[id].collateral # t
          /\ R.record[id].sequence \in Nat
      BY <1>9, <3>1 DEF Record
    <3>3. CoinAt(further, Q.record[id].collateral) = Q.record[id].collateralHeight
      BY <1>6, <2>3, <3>1, <3>2 DEF Backed
    <3>4. \A beat \in beats : beat.registration = id =>
             beat.sequence \in Nat /\ beat.sequence <= R.record[id].sequence
      BY <3>1 DEF Backed
    <3>5. \A beat \in beats : beat.registration = id =>
             beat.sequence <= Q.record[id].sequence /\ beat.sequence # Q.record[id].sequence
      BY <2>3, <3>2, <3>4
    <3>6. {0} \cup {beat.height : beat \in OwnBeats(beats, id, Q.record[id])} = {0}
      BY <3>5 DEF OwnBeats
    <3>7. id \in DOMAIN Q.undo
      BY <1>1, <3>1 DEF Backed
    <3> QED BY <1>10, <2>3, <3>3, <3>5, <3>6, <3>7
  <2> QED BY <1>1, <2>0, <2>1, <2>2, <2>3
<1>12. DOMAIN Q.undo = {s \in Txs : Took(further, s)}
  BY <1>1, <1>3 DEF Backed
<1>13. \A s \in DOMAIN Q.undo : \A c \in Tx[s].spends : c \in Wallet \/ Took(further, c)
  <2>1. \A c \in Coins : Took(where, c) /\ c \notin Wallet => Took(further, c)
    BY <1>0, <1>3
  <2>2. \A s \in Txs : Tx[s].spends \subseteq Coins
    BY RegistryAssumption DEF Operation
  <2>3. \A s \in DOMAIN Q.undo : s \in Txs
    BY <1>12
  <2> QED BY <1>1, <1>4, <2>1, <2>2, <2>3 DEF Backed
<1>14. \A beat \in beats : beat.registration \in DOMAIN Q.undo
         /\ beat.sequence \in Nat /\ beat.height \in Heights
  BY <1>1 DEF Backed
<1>15. Backed(Q, further, beats)
  BY <1>11, <1>12, <1>13, <1>14 DEF Backed
<1> QED BY <1>15 DEF Q

-----------------------------------------------------------------------------
(* The same, from the blocks that stand in the registry.                   *)
Blocks(e) == IsSeq(e) /\ \A i \in 1..Len(e) : e[i] \in Block /\ IsSeq(e[i].txs)

WhereIn(e) == [t \in Txs |-> BlocksWith(e, Len(e), t)]
BeatsIn(e) == BeatsOf(e, Len(e))

LEMMA TxsOf ==
  ASSUME NEW e, Blocks(e), NEW i \in 1..Len(e)
  PROVE  /\ ToSet(e[i].txs) = First(e[i].txs, Len(e[i].txs))
         /\ ToSet(e[i].txs) \subseteq Txs
<1>1. e[i] \in Block /\ DOMAIN e[i].txs = 1..Len(e[i].txs)
  BY SeqFacts DEF Blocks
<1>2. \A k \in DOMAIN e[i].txs : e[i].txs[k] \in Txs
  BY <1>1, ElementOfSeq DEF Block
<1> QED BY <1>1, <1>2 DEF ToSet, First

LEMMA WhereBefore ==
  ASSUME NEW c, NEW b, NEW n, NEW j \in {1, 2}
  PROVE  /\ WhereAt(c, b, n, j) = [t \in Txs |-> BlocksWith(c, n - 1, t)]
         /\ BeatsAt(c, b, n, j) = BeatsOf(c, n - 1)
<1>1. First(b.txs, j - 3) = {} /\ ~ (j >= 3)
  BY DEF First
<1> QED BY <1>1 DEF WhereAt, BeatsAt

LEMMA WhereOf ==
  ASSUME NEW e, Blocks(e), Len(e) # 0,
         NEW c, \A i \in 1..(Len(e) - 1) : c[i] = e[i],
         NEW j \in Nat,
         \/ j = Len(e[Len(e)].txs) + 3
         \/ j \in {1, 2} /\ e[Len(e)].txs = <<>> /\ e[Len(e)].beats = {}
  PROVE  /\ WhereIn(e) = WhereAt(c, e[Len(e)], Len(e), j)
         /\ BeatsIn(e) = BeatsAt(c, e[Len(e)], Len(e), j)
<1> DEFINE n == Len(e)
           b == e[n]
<1>1. n \in Nat \ {0} /\ n \in 1..n /\ \A i \in 1..n : i = n \/ i \in 1..(n - 1)
  BY SeqFacts DEF Blocks
<1>2. \A i \in 1..(n - 1) : i \in 1..n /\ i # n
  BY <1>1
<1>3. ToSet(b.txs) = First(b.txs, j - 3) /\ (j >= 3 \/ b.beats = {})
  <2>1. ToSet(b.txs) = First(b.txs, Len(b.txs)) /\ Len(b.txs) \in Nat
    BY <1>1, TxsOf, SeqFacts DEF Blocks
  <2>2. CASE j = Len(b.txs) + 3
    <3>1. j - 3 = Len(b.txs) /\ j >= 3
      BY <2>1, <2>2
    <3> QED BY <2>1, <3>1
  <2>3. CASE j \in {1, 2} /\ b.txs = <<>> /\ b.beats = {}
    <3>1. First(b.txs, j - 3) = {} /\ First(b.txs, Len(b.txs)) = {}
      BY <2>3, EmptySeq DEF First
    <3> QED BY <2>1, <2>3, <3>1
  <2> QED BY <2>2, <2>3
<1>4. ASSUME NEW t \in Txs
      PROVE  BlocksWith(e, n, t) = BlocksWith(c, n - 1, t) \cup {i \in {n} : t \in First(b.txs, j - 3)}
  BY <1>1, <1>2, <1>3 DEF BlocksWith
<1>5. BeatsOf(e, n) = BeatsOf(c, n - 1) \cup (IF j >= 3 THEN b.beats ELSE {})
  <2>1. BeatsOf(e, n) = BeatsOf(c, n - 1) \cup b.beats
    <3>1. {e[i].beats : i \in 1..n} = {c[i].beats : i \in 1..(n - 1)} \cup {b.beats}
      <4>1. \A i \in 1..(n - 1) : e[i].beats = c[i].beats
        OBVIOUS
      <4>2. ASSUME NEW i \in 1..n
            PROVE  e[i].beats \in {c[k].beats : k \in 1..(n - 1)} \cup {b.beats}
        <5>1. CASE i = n
          BY <5>1
        <5>2. CASE i \in 1..(n - 1)
          BY <4>1, <5>2
        <5> QED BY <1>1, <5>1, <5>2
      <4>3. \A i \in 1..(n - 1) : c[i].beats \in {e[k].beats : k \in 1..n}
        BY <1>2, <4>1
      <4>4. b.beats \in {e[k].beats : k \in 1..n}
        BY <1>1
      <4> HIDE DEF n, b
      <4> QED BY <4>2, <4>3, <4>4
    <3> QED BY <3>1 DEF BeatsOf
  <2> QED BY <1>3, <2>1
<1> QED BY <1>4, <1>5 DEF WhereIn, WhereAt, BeatsIn, BeatsAt

LEMMA CoinsOf ==
  ASSUME NEW e, Blocks(e), NEW c \in Coins
  PROVE  CoinsIn(e)[c] = CoinAt(WhereIn(e), c)
<1>1. DOMAIN e = 1..Len(e)
  BY SeqFacts DEF Blocks
<1>2. \A t \in Txs : WhereIn(e)[t] = {i \in DOMAIN e : t \in ToSet(e[i].txs)}
  BY <1>1 DEF WhereIn, BlocksWith
<1>3. \A i \in DOMAIN e : ToSet(e[i].txs) \subseteq Txs
  BY <1>1, TxsOf
<1>4. Spent(e, c) <=> SpentIn(WhereIn(e), c)
  <2>1. ASSUME NEW i \in DOMAIN e, NEW t \in ToSet(e[i].txs), c \in Tx[t].spends
        PROVE  SpentIn(WhereIn(e), c)
    BY <1>2, <1>3, <2>1 DEF SpentIn, Took
  <2>2. ASSUME NEW t \in Txs, Took(WhereIn(e), t), c \in Tx[t].spends
        PROVE  Spent(e, c)
    BY <1>2, <2>2 DEF Spent, Took
  <2> QED BY <2>1, <2>2 DEF Spent, SpentIn
<1>5. c \notin Wallet => c \in Txs /\ Created(e, c) = WhereIn(e)[c]
  BY <1>2 DEF Coins, Created
<1> QED BY <1>4, <1>5 DEF CoinsIn, CoinAt

LEMMA StandingIs ==
  ASSUME RInv
  PROVE  /\ Blocks(chain)
         /\ Blocks(Standing)
         /\ BaseHeight + Len(Standing) <= MaxHeight
         /\ stage = "idle" => Standing = chain
         /\ stage # "idle" =>
              /\ Len(Standing) = Number /\ Number \in Nat \ {0}
              /\ Standing[Number] = block
              /\ \A i \in 1..(Number - 1) : Standing[i] = chain[i]
              /\ BaseHeight + Number = Height
<1>1. /\ Typed /\ Len(chain) \in Nat /\ BaseHeight \in Nat /\ MaxHeight \in Nat
      /\ IsSeq(chain) /\ IsSeq(block.txs) /\ block \in Block
      /\ Tip <= MaxHeight /\ Tip = BaseHeight + Len(chain)
      /\ stage \in Stages
  BY Bounds DEF RInv, Typed, Tip
<1>2. Blocks(chain)
  BY <1>1, Bounds DEF Blocks
<1>3. CASE stage = "idle"
  BY <1>1, <1>2, <1>3 DEF Standing, Connecting, Disconnecting
<1>4. CASE stage \in Connecting
  <2>1. stage \notin Disconnecting /\ stage # "idle"
    BY <1>4 DEF Connecting, Disconnecting
  <2>2. Standing = Append(chain, block) /\ Number = Len(chain) + 1 /\ Tip < MaxHeight
        /\ Height = Tip + 1
    BY <1>4, <2>1 DEF Standing, Number, RInv, UnderWay, Height
  <2>3. /\ IsSeq(Standing) /\ Len(Standing) = Len(chain) + 1
        /\ \A i \in 1..Len(chain) : Standing[i] = chain[i]
        /\ Standing[Len(chain) + 1] = block
    BY <1>1, <2>2, AppendFacts
  <2>4. \A i \in 1..Len(Standing) : i \in 1..Len(chain) \/ i = Len(chain) + 1
    BY <1>1, <2>3
  <2>5. Blocks(Standing)
    BY <1>1, <1>2, <2>3, <2>4 DEF Blocks
  <2> QED BY <1>1, <1>2, <2>1, <2>2, <2>3, <2>5
<1>5. CASE stage \in Disconnecting
  <2>1. stage \notin Connecting /\ stage # "idle"
    BY <1>5 DEF Connecting, Disconnecting
  <2>2. Standing = Append(Front(chain), block) /\ Number = Len(chain) /\ chain # <<>>
        /\ Height = Tip
    BY <1>5, <2>1 DEF Standing, Number, RInv, UnderWay, Height
  <2>3. /\ IsSeq(Front(chain)) /\ Len(Front(chain)) = Len(chain) - 1
        /\ \A i \in 1..(Len(chain) - 1) : Front(chain)[i] = chain[i]
        /\ Len(chain) # 0
    BY <1>1, <2>2, FrontFacts, SeqFacts
  <2>4. /\ IsSeq(Standing) /\ Len(Standing) = Len(chain)
        /\ \A i \in 1..(Len(chain) - 1) : Standing[i] = chain[i]
        /\ Standing[Len(chain)] = block
    BY <1>1, <2>2, <2>3, AppendFacts
  <2>5. \A i \in 1..Len(Standing) : i \in 1..Len(chain)
          /\ (i \in 1..(Len(chain) - 1) \/ i = Len(chain))
    BY <1>1, <2>4
  <2>6. Blocks(Standing)
    BY <1>1, <1>2, <2>4, <2>5 DEF Blocks
  <2> QED BY <1>1, <1>2, <2>1, <2>2, <2>3, <2>4, <2>6
<1> QED BY <1>1, <1>3, <1>4, <1>5 DEF Stages

LEMMA EmptyBacked == Backed(Empty, [t \in Txs |-> {}], {})
<1>1. Registered(Empty) = {} /\ DOMAIN Empty.undo = {}
  BY DEF Registered, Empty
<1> QED BY <1>1 DEF Backed, Took

(* The current registry is backed by the blocks that stand in it.          *)
LEMMA StandingBacked ==
  ASSUME RInv, QInv
  PROVE  Backed(registry, WhereIn(Standing), BeatsIn(Standing))
<1>0. Blocks(chain) /\ Blocks(Standing) /\ Len(chain) \in Nat
  BY StandingIs, Bounds DEF RInv
<1>1. CASE stage = "idle" /\ Len(chain) = 0
  <2>1. registry = Empty /\ Standing = chain
    BY <1>1, StandingIs DEF RInv, RegistryAt
  <2>2. WhereIn(chain) = [t \in Txs |-> {}] /\ BeatsIn(chain) = {}
    BY <1>1 DEF WhereIn, BlocksWith, BeatsIn, BeatsOf
  <2> QED BY <2>1, <2>2, EmptyBacked
<1>2. CASE stage = "idle" /\ Len(chain) # 0
  <2> DEFINE n == Len(chain)
             j == Len(chain[n].txs) + 3
  <2>1. Standing = chain /\ registry = Last(past[n]) /\ PastIs(past, chain) /\ n \in 1..n
    BY <1>0, <1>2, StandingIs DEF RInv, RegistryAt
  <2>2. Len(past[n]) = j /\ j \in Nat /\ j >= 3
    <3>1. Len(chain[n].txs) \in Nat
      BY <1>0, <2>1, SeqFacts DEF Blocks
    <3>2. Len(past[n]) = Len(chain[n].txs) + 3
      BY <2>1 DEF PastIs
    <3> DEFINE k == Len(chain[n].txs)
    <3> HIDE DEF k
    <3>3. k \in Nat /\ Len(past[n]) = k + 3
      BY <3>1, <3>2 DEF k
    <3>4. Len(past[n]) = k + 3 /\ k + 3 \in Nat /\ k + 3 >= 3
      BY <3>3
    <3> QED BY <3>4 DEF k
  <2>3. j \in 1..Len(past[n]) /\ registry = past[n][j]
    BY <2>1, <2>2 DEF Last
  <2>4. Backed(registry, WhereAt(chain, chain[n], n, j), BeatsAt(chain, chain[n], n, j))
    BY <2>1, <2>3 DEF QInv, StepsBacked
  <2>5. /\ WhereIn(chain) = WhereAt(chain, chain[n], n, j)
        /\ BeatsIn(chain) = BeatsAt(chain, chain[n], n, j)
    BY <1>0, <1>2, <2>2, WhereOf
  <2> QED BY <2>1, <2>4, <2>5
<1>3. CASE stage # "idle"
  <2> DEFINE j == Len(steps)
  <2>1. /\ UnderWay /\ j = StepsLength /\ registry = Last(steps)
    BY <1>3 DEF RInv, UnderWay
  <2>2. /\ Len(Standing) = Number /\ Number \in Nat \ {0} /\ Standing[Number] = block
        /\ \A i \in 1..(Number - 1) : chain[i] = Standing[i]
    BY <1>3, StandingIs
  <2>3. \/ j = Len(block.txs) + 3
        \/ j \in {1, 2} /\ block.txs = <<>> /\ block.beats = {}
    BY <2>1 DEF StepsLength, UnderWay, QInv
  <2>4. j \in Nat /\ j >= 1
    <3>1. Len(block.txs) \in Nat
      BY Bounds DEF RInv
    <3> HIDE DEF j
    <3> QED BY <2>3, <3>1
  <2>5. Backed(registry, WhereAt(chain, block, Number, j), BeatsAt(chain, block, Number, j))
    <3>1. j \in 1..Len(steps) /\ registry = steps[j]
      BY <2>1, <2>4 DEF Last
    <3> QED BY <1>3, <3>1 DEF QInv, StepsBacked
  <2>6. /\ WhereIn(Standing) = WhereAt(chain, block, Number, j)
        /\ BeatsIn(Standing) = BeatsAt(chain, block, Number, j)
    BY <1>0, <2>2, <2>3, <2>4, WhereOf
  <2> QED BY <2>5, <2>6
<1> QED BY <1>1, <1>2, <1>3

-----------------------------------------------------------------------------
(* Every action keeps QInv.                                                *)
LEMMA BackedPrefix ==
  ASSUME NEW states, NEW c, NEW b, NEW n, StepsBacked(states, c, b, n), Len(states) \in Nat,
         NEW some, Len(some) \in Nat, Len(some) <= Len(states),
         \A j \in 1..Len(some) : some[j] = states[j],
         NEW d, \A i \in 1..(n - 1) : d[i] = c[i],
         NEW a, \A m \in 1..(Len(some) - 3) : a.txs[m] = b.txs[m],
         Len(some) >= 3 => a.beats = b.beats
  PROVE  StepsBacked(some, d, a, n)
<1> SUFFICES ASSUME NEW j \in 1..Len(some)
             PROVE  Backed(some[j], WhereAt(d, a, n, j), BeatsAt(d, a, n, j))
  BY DEF StepsBacked
<1>1. j \in 1..Len(states) /\ some[j] = states[j]
  OBVIOUS
<1>2. First(a.txs, j - 3) = First(b.txs, j - 3)
  <2>1. \A m \in 1..(j - 3) : a.txs[m] = b.txs[m]
    OBVIOUS
  <2> QED BY <2>1 DEF First
<1>3. \A t \in Txs : BlocksWith(d, n - 1, t) = BlocksWith(c, n - 1, t)
  BY DEF BlocksWith
<1>4. BeatsOf(d, n - 1) = BeatsOf(c, n - 1)
  <2>1. {d[i].beats : i \in 1..(n - 1)} = {c[i].beats : i \in 1..(n - 1)}
    OBVIOUS
  <2> QED BY <2>1 DEF BeatsOf
<1>5. WhereAt(d, a, n, j) = WhereAt(c, b, n, j)
  BY <1>2, <1>3 DEF WhereAt
<1>6. BeatsAt(d, a, n, j) = BeatsAt(c, b, n, j)
  BY <1>4 DEF BeatsAt
<1> QED BY <1>1, <1>5, <1>6 DEF StepsBacked

LEMMA BackedAppend ==
  ASSUME NEW states, IsSeq(states), NEW c, NEW b, NEW n, StepsBacked(states, c, b, n),
         NEW a, \A m \in 1..(Len(states) - 3) : a.txs[m] = b.txs[m],
         Len(states) >= 3 => a.beats = b.beats,
         NEW R, Backed(R, WhereAt(c, a, n, Len(states) + 1), BeatsAt(c, a, n, Len(states) + 1))
  PROVE  StepsBacked(Append(states, R), c, a, n)
<1>1. /\ Len(states) \in Nat
      /\ Len(Append(states, R)) = Len(states) + 1
      /\ \A i \in 1..Len(states) : Append(states, R)[i] = states[i]
      /\ Append(states, R)[Len(states) + 1] = R
  BY SeqFacts, AppendFacts
<1>2. StepsBacked(states, c, a, n)
  <2>1. Len(states) <= Len(states)
    BY <1>1
  <2> QED BY <1>1, <2>1, BackedPrefix
<1>3. \A j \in 1..(Len(states) + 1) : j \in 1..Len(states) \/ j = Len(states) + 1
  BY <1>1
<1> QED BY <1>1, <1>2, <1>3 DEF StepsBacked

LEMMA InitQInv == Init => QInv
BY EmptySeq DEF Init, QInv

\* The blocks below the tip keep their history.
LEMMA ChainKept ==
  ASSUME QInv, chain' = chain, past' = past
  PROVE  \A n \in 1..Len(chain') : StepsBacked(past'[n], chain', chain'[n], n)
BY DEF QInv

LEMMA PayQInv == RInv /\ QInv /\ PayMasternode => QInv'
<1> SUFFICES ASSUME RInv, QInv, PayMasternode PROVE QInv'
  OBVIOUS
<1> DEFINE Q == Pay(registry, Height)
           n == Len(chain) + 1
<1>1. /\ stage = "idle" /\ stage' = "paid" /\ block' = block /\ block = NoBlock
      /\ chain' = chain /\ past' = past /\ steps' = <<registry, Q>> /\ Tip < MaxHeight
  BY DEF PayMasternode, RInv
<1>2. Height \in Heights /\ Sound(registry) /\ n - 1 = Len(chain) /\ Number' = n
  BY <1>1, Bounds, Current DEF RInv, Height, Number, Disconnecting
<1>3. Backed(registry, WhereIn(chain), BeatsIn(chain))
  BY <1>1, StandingBacked, StandingIs
<1>4. Backed(Q, WhereIn(chain), BeatsIn(chain))
  BY <1>2, <1>3, PayBacked
<1>5. \A j \in {1, 2} : /\ WhereAt(chain, block, n, j) = WhereIn(chain)
                        /\ BeatsAt(chain, block, n, j) = BeatsIn(chain)
  BY <1>2, WhereBefore DEF WhereIn, BeatsIn
<1> HIDE DEF Q, n
<1>6. Len(steps') = 2 /\ steps'[1] = registry /\ steps'[2] = Q
  BY <1>1, PairFacts
<1>7. \A j \in 1..2 : j = 1 \/ j = 2
  OBVIOUS
<1>8. StepsBacked(steps', chain', block', n)
  BY <1>1, <1>3, <1>4, <1>5, <1>6, <1>7 DEF StepsBacked
<1>9. block'.beats = {}
  BY <1>1 DEF NoBlock
<1> QED BY <1>1, <1>2, <1>8, <1>9, ChainKept DEF QInv

LEMMA BeatQInv == RInv /\ QInv /\ TakeHeartbeats => QInv'
<1> SUFFICES ASSUME RInv, QInv, TakeHeartbeats PROVE QInv'
  OBVIOUS
<1>1. /\ stage = "paid" /\ stage' = "applying" /\ chain' = chain /\ past' = past
      /\ UnderWay /\ Len(steps) = 2 /\ block.txs = <<>> /\ Tip < MaxHeight /\ Typed
  BY DEF TakeHeartbeats, RInv, UnderWay, StepsLength, Connecting
<1>2. Height \in Heights /\ Sound(registry) /\ Number' = Number
      /\ Number = Len(chain) + 1 /\ Len(chain) \in Nat
  BY <1>1, Bounds, Current DEF Height, Number, Disconnecting
<1>3. PICK batch \in SUBSET {beat \in Heartbeats : Verify(registry, beat, Tip)} :
        /\ CanBeat(registry, batch, Tip)
        /\ block' = [block EXCEPT !.beats = batch]
        /\ steps' = Append(steps, Beat(registry, batch, Height))
  BY DEF TakeHeartbeats, Advance
<1>4. block'.txs = <<>> /\ block'.beats = batch
  BY <1>1, <1>3 DEF Typed, Block
<1>5. IsSeq(steps) /\ registry = steps[2]
  BY <1>1 DEF UnderWay, StepsOK, Last
<1>6. Backed(registry, WhereAt(chain, block, Number, 2), BeatsAt(chain, block, Number, 2))
  BY <1>1, <1>5 DEF QInv, StepsBacked
<1> DEFINE Q == Beat(registry, batch, Height)
           where == WhereAt(chain, block, Number, 2)
           beats == BeatsAt(chain, block, Number, 2)
<1>7. Backed(Q, where, beats \cup batch)
  <2>1. batch \in SUBSET Heartbeats
    BY <1>3
  <2> HIDE DEF where, beats
  <2> QED BY <1>2, <1>3, <1>6, <2>1, BeatBacked DEF where, beats
<1>8. WhereAt(chain, block', Number, 3) = where /\ BeatsAt(chain, block', Number, 3) = beats \cup batch
  <2>1. First(block'.txs, 3 - 3) = {}
    BY DEF First
  <2>2. WhereAt(chain, block', Number, 3) = [t \in Txs |-> BlocksWith(chain, Number - 1, t)]
    BY <2>1 DEF WhereAt
  <2>3. BeatsAt(chain, block', Number, 3) = BeatsOf(chain, Number - 1) \cup batch
    BY <1>4 DEF BeatsAt
  <2> QED BY <2>2, <2>3, WhereBefore
<1> HIDE DEF Q, where, beats
<1>9. Backed(Q, WhereAt(chain, block', Number, Len(steps) + 1), BeatsAt(chain, block', Number, Len(steps) + 1))
  <2>1. Len(steps) + 1 = 3
    BY <1>1
  <2> QED BY <1>7, <1>8, <2>1
<1>10. StepsBacked(Append(steps, Q), chain, block', Number)
  <2>1. StepsBacked(steps, chain, block, Number)
    BY <1>1 DEF QInv
  <2>2. (\A m \in 1..(Len(steps) - 3) : block'.txs[m] = block.txs[m]) /\ ~ (Len(steps) >= 3)
    BY <1>1
  <2> QED BY <1>5, <1>9, <2>1, <2>2, BackedAppend
<1> QED BY <1>1, <1>2, <1>3, <1>10, ChainKept DEF QInv, Q

LEMMA ApplyQInv == ASSUME NEW t \in Txs PROVE RInv /\ QInv /\ ApplyTx(t) => QInv'
<1> SUFFICES ASSUME RInv, QInv, ApplyTx(t) PROVE QInv'
  OBVIOUS
<1> DEFINE coins == CoinsIn(Standing)
           k == Len(block.txs)
           j == Len(steps)
           n == Number
<1>1. /\ stage = "applying" /\ stage' = "applying" /\ chain' = chain /\ past' = past
      /\ block' = [block EXCEPT !.txs = Append(block.txs, t)]
      /\ CanApply(registry, t, coins, Height)
      /\ steps' = Append(steps, Apply(registry, t, coins, Height))
      /\ UnderWay /\ j = k + 3 /\ Tip < MaxHeight /\ Typed
  BY DEF ApplyTx, Advance, RInv, UnderWay, StepsLength, Connecting
<1>2. /\ Height \in Heights /\ Sound(registry) /\ Number' = Number
      /\ n = Len(chain) + 1 /\ Len(chain) \in Nat /\ k \in Nat
      /\ Height = BaseHeight + n /\ BaseHeight \in Nat /\ MaxHeight \in Nat
      /\ n \in 1..MaxHeight
  <2>1. /\ Height = Tip + 1 /\ Number' = Number /\ n = Len(chain) + 1 /\ Tip = BaseHeight + Len(chain)
    BY <1>1 DEF Height, Number, Tip, Disconnecting
  <2>2. Len(chain) \in Nat /\ BaseHeight \in Nat /\ MaxHeight \in Nat /\ k \in Nat /\ Height \in Heights
    BY <1>1, <2>1, Bounds
  <2>3. Height = BaseHeight + n /\ n \in 1..MaxHeight
    <3> DEFINE m == Len(chain)
    <3> HIDE DEF m, n
    <3>1. m \in Nat /\ n = m + 1 /\ Height = (BaseHeight + m) + 1 /\ BaseHeight + m < MaxHeight
      BY <1>1, <2>1, <2>2 DEF m, n, Tip
    <3> QED BY <2>2, <3>1
  <2>4. Sound(registry)
    BY Current
  <2> QED BY <2>1, <2>2, <2>3, <2>4
<1>3. /\ IsSeq(block.txs) /\ block'.beats = block.beats
      /\ block'.txs = Append(block.txs, t)
      /\ Len(block'.txs) = k + 1 /\ block'.txs[k + 1] = t
      /\ \A m \in 1..k : block'.txs[m] = block.txs[m]
  BY <1>1, Bounds, AppendFacts DEF Typed, Block
<1>4. Blocks(Standing) /\ Len(Standing) = n /\ Standing[n] = block
      /\ \A i \in 1..(n - 1) : chain[i] = Standing[i]
  BY <1>1, StandingIs
<1> DEFINE where == WhereAt(chain, block, n, j)
           beats == BeatsAt(chain, block, n, j)
           further == WhereAt(chain, block', n, j + 1)
<1>5. WhereIn(Standing) = where /\ BeatsIn(Standing) = beats
  <2>1. j \in Nat /\ j = Len(Standing[Len(Standing)].txs) + 3 /\ Len(Standing) # 0
    <3> HIDE DEF j, k, n
    <3>1. j \in Nat /\ n # 0
      BY <1>1, <1>2
    <3> QED BY <1>1, <1>4, <3>1 DEF k
  <2>2. Standing[Len(Standing)] = block /\ Len(Standing) = n
        /\ \A i \in 1..(Len(Standing) - 1) : chain[i] = Standing[i]
    BY <1>4
  <2> HIDE DEF j, n
  <2>3. /\ WhereIn(Standing) = WhereAt(chain, Standing[Len(Standing)], Len(Standing), j)
        /\ BeatsIn(Standing) = BeatsAt(chain, Standing[Len(Standing)], Len(Standing), j)
    BY <1>4, <2>1, <2>2, WhereOf
  <2> QED BY <2>2, <2>3
<1>6. Backed(registry, where, beats)
  BY <1>5, StandingBacked
<1>7. \A c \in Coins : coins[c] = CoinAt(where, c)
  BY <1>4, <1>5, CoinsOf
<1>8. coins \in [Coins -> Heights \cup {0}]
  BY <1>1, StandingCoins
<1>9. j - 3 = k /\ (j + 1) - 3 = k + 1 /\ j >= 3 /\ j + 1 >= 3
  <2>1. j = k + 3 /\ k \in Nat
    BY <1>1, <1>2
  <2> HIDE DEF j, k
  <2> QED BY <2>1
<1>10. First(block'.txs, k + 1) = First(block.txs, k) \cup {t}
  <2>1. \A m \in 1..(k + 1) : m \in 1..k \/ m = k + 1
    BY <1>2
  <2>2. \A m \in 1..k : m \in 1..(k + 1)
    BY <1>2
  <2>3. k + 1 \in 1..(k + 1)
    BY <1>2
  <2> QED BY <1>3, <2>1, <2>2, <2>3 DEF First
<1>11. further[t] = where[t] \cup {n} /\ \A s \in Txs \ {t} : further[s] = where[s]
  BY <1>9, <1>10 DEF WhereAt
<1>12. BeatsAt(chain, block', n, j + 1) = beats
  BY <1>3, <1>9 DEF BeatsAt
<1>13. Placed(where) /\ Placed(further)
  <2>1. \A i \in 1..(n - 1) : i \in 1..MaxHeight
    BY <1>2
  <2>2. \A s \in Txs : BlocksWith(chain, n - 1, s) \subseteq 1..MaxHeight
    BY <2>1 DEF BlocksWith
  <2> QED BY <1>2, <2>2 DEF Placed, WhereAt
<1> DEFINE Q == Apply(registry, t, coins, BaseHeight + n)
<1>14. Backed(Q, further, beats)
  <2> HIDE DEF coins, where, further, beats, n, j, k
  <2> QED BY <1>1, <1>2, <1>6, <1>7, <1>8, <1>11, <1>13, ApplyBacked
<1> HIDE DEF Q
<1>15. StepsBacked(Append(steps, Q), chain, block', n)
  <2>1. StepsBacked(steps, chain, block, n) /\ IsSeq(steps)
    BY <1>1 DEF QInv, UnderWay, StepsOK
  <2>2. \A m \in 1..(j - 3) : block'.txs[m] = block.txs[m]
    BY <1>3, <1>9
  <2>3. Backed(Q, WhereAt(chain, block', n, j + 1), BeatsAt(chain, block', n, j + 1))
    BY <1>12, <1>14
  <2> QED BY <1>3, <2>1, <2>2, <2>3, BackedAppend
<1>16. steps' = Append(steps, Q)
  BY <1>1, <1>2 DEF Q
<1> QED BY <1>1, <1>2, <1>15, <1>16, ChainKept DEF QInv

LEMMA ConnectQInv == RInv /\ QInv /\ ConnectTip => QInv'
<1> SUFFICES ASSUME RInv, QInv, ConnectTip PROVE QInv'
  OBVIOUS
<1> DEFINE n == Len(chain) + 1
<1>1. /\ stage = "captured" /\ stage' = "idle"
      /\ chain' = Append(chain, block) /\ past' = Append(past, steps)
  BY DEF ConnectTip, Commit
<1>2. /\ UnderWay /\ PastIs(past, chain) /\ Number = n /\ Len(chain) \in Nat /\ IsSeq(chain)
  BY <1>1, Bounds DEF RInv, Number, Disconnecting
<1>3. IsSeq(past) /\ Len(past) = Len(chain) /\ IsSeq(steps) /\ Len(steps) \in Nat
  BY <1>2, SeqFacts DEF PastIs, UnderWay, StepsOK
<1>4. /\ Len(chain') = n /\ \A i \in 1..Len(chain) : chain'[i] = chain[i] /\ past'[i] = past[i]
      /\ chain'[n] = block /\ past'[n] = steps
  BY <1>1, <1>2, <1>3, AppendFacts
<1>5. StepsBacked(past'[n], chain', chain'[n], n)
  <2>1. StepsBacked(steps, chain, block, n)
    BY <1>1, <1>2 DEF QInv
  <2>2. n - 1 = Len(chain) /\ Len(steps) <= Len(steps)
    BY <1>2, <1>3
  <2>3. \A i \in 1..(n - 1) : chain'[i] = chain[i]
    BY <1>4, <2>2
  <2> HIDE DEF n
  <2>4. StepsBacked(steps, chain', block, n)
    BY <1>3, <2>1, <2>2, <2>3, BackedPrefix
  <2> QED BY <1>4, <2>4
<1>6. ASSUME NEW m \in 1..Len(chain)
      PROVE  StepsBacked(past'[m], chain', chain'[m], m)
  <2>1. StepsBacked(past[m], chain, chain[m], m) /\ IsSeq(past[m])
    BY <1>2 DEF QInv, PastIs, StepsOK
  <2>2. Len(past[m]) \in Nat /\ \A i \in 1..(m - 1) : i \in 1..Len(chain)
    BY <1>2, <2>1, SeqFacts
  <2>3. Len(past[m]) <= Len(past[m]) /\ past'[m] = past[m] /\ chain'[m] = chain[m]
        /\ \A i \in 1..(m - 1) : chain'[i] = chain[i]
    BY <1>4, <2>2
  <2> HIDE DEF n
  <2> QED BY <2>1, <2>2, <2>3, BackedPrefix
<1>7. \A m \in 1..n : m \in 1..Len(chain) \/ m = n
  BY <1>2
<1> HIDE DEF n
<1> QED BY <1>1, <1>4, <1>5, <1>6, <1>7 DEF QInv

LEMMA DisconnectQInv == RInv /\ QInv /\ DisconnectTip => QInv'
<1> SUFFICES ASSUME RInv, QInv, DisconnectTip PROVE QInv'
  OBVIOUS
<1>1. /\ stage = "undone" /\ stage' = "idle" /\ chain' = Front(chain) /\ past' = Front(past)
  BY DEF DisconnectTip, Commit
<1>2. /\ chain # <<>> /\ PastIs(past, chain) /\ Len(chain) \in Nat \ {0} /\ IsSeq(chain)
  BY <1>1, Bounds DEF RInv, UnderWay, Disconnecting
<1>3. IsSeq(past) /\ Len(past) = Len(chain) /\ past # <<>>
  BY <1>2, SeqFacts DEF PastIs
<1>4. /\ Len(chain') = Len(chain) - 1
      /\ \A i \in 1..(Len(chain) - 1) : chain'[i] = chain[i] /\ past'[i] = past[i]
  BY <1>1, <1>2, <1>3, FrontFacts
<1>5. ASSUME NEW m \in 1..(Len(chain) - 1)
      PROVE  StepsBacked(past'[m], chain', chain'[m], m)
  <2>1. StepsBacked(past[m], chain, chain[m], m) /\ IsSeq(past[m])
    BY <1>2 DEF QInv, PastIs, StepsOK
  <2>2. Len(past[m]) \in Nat /\ \A i \in 1..(m - 1) : i \in 1..(Len(chain) - 1)
    BY <1>2, <2>1, SeqFacts
  <2>3. Len(past[m]) <= Len(past[m]) /\ past'[m] = past[m] /\ chain'[m] = chain[m]
        /\ \A i \in 1..(m - 1) : chain'[i] = chain[i]
    BY <1>4, <2>2
  <2> QED BY <2>1, <2>2, <2>3, BackedPrefix
<1> QED BY <1>1, <1>4, <1>5 DEF QInv

LEMMA DisconnectBlockQInv == RInv /\ QInv /\ DisconnectBlock => QInv'
<1> SUFFICES ASSUME RInv, QInv, DisconnectBlock PROVE QInv'
  OBVIOUS
<1>1. /\ stage = "idle" /\ chain # <<>> /\ stage' = "undoing" /\ block' = Last(chain)
      /\ steps' = Last(past) /\ chain' = chain /\ past' = past
  BY DEF DisconnectBlock
<1>2. Len(chain) \in 1..Len(chain) /\ Len(past) = Len(chain)
  BY <1>1, Bounds DEF RInv, PastIs
<1>3. /\ Number' = Len(chain) /\ steps' = past[Len(chain)] /\ block' = chain[Len(chain)]
  BY <1>1, <1>2 DEF Number, Disconnecting, Last
<1>4. StepsBacked(steps', chain', block', Number')
  BY <1>1, <1>2, <1>3 DEF QInv
<1> QED BY <1>1, <1>4, ChainKept DEF QInv

\* A step back while a block is disconnected.
LEMMA SteppedBacked ==
  ASSUME RInv, QInv, stage \in Disconnecting, stage' \in Disconnecting,
         chain' = chain, past' = past, steps' = Front(steps),
         \A m \in 1..(Len(steps) - 4) : block'.txs[m] = block.txs[m],
         Len(steps) >= 4 => block'.beats = block.beats,
         stage' \in {"paid", "unbeaten", "unpaid", "undone"} => block'.beats = {}
  PROVE  QInv'
<1>1. UnderWay /\ Number' = Number /\ stage # "idle" /\ Typed
  BY DEF RInv, Disconnecting, Number
<1>2. IsSeq(steps) /\ Len(steps) \in Nat /\ Len(steps) >= 1
  <2>1. IsSeq(steps) /\ Len(steps) = StepsLength
    BY <1>1 DEF UnderWay, StepsOK
  <2>2. Len(block.txs) \in Nat
    BY <1>1, Bounds
  <2> QED BY <2>1, <2>2, SeqFacts DEF StepsLength
<1>3. /\ Len(steps') = Len(steps) - 1
      /\ \A i \in 1..(Len(steps) - 1) : steps'[i] = steps[i]
  BY <1>2, FrontFacts, SeqFacts
<1>4. StepsBacked(steps, chain, block, Number)
  BY <1>1 DEF QInv
<1>5. StepsBacked(steps', chain', block', Number)
  <2>1. \A m \in 1..(Len(steps') - 3) : m \in 1..(Len(steps) - 4)
    BY <1>2, <1>3
  <2>2. Len(steps') \in Nat /\ Len(steps') <= Len(steps) /\ (Len(steps') >= 3 => Len(steps) >= 4)
    BY <1>2, <1>3
  <2> QED BY <1>2, <1>3, <1>4, <2>1, <2>2, BackedPrefix
<1> QED BY <1>1, <1>5, ChainKept DEF QInv

LEMMA UndoTxQInv == RInv /\ QInv /\ UndoTx => QInv'
<1> SUFFICES ASSUME RInv, QInv, UndoTx PROVE QInv'
  OBVIOUS
<1>1. /\ stage = "undoing" /\ stage' = "undoing" /\ block.txs # <<>>
      /\ block' = [block EXCEPT !.txs = Front(block.txs)]
      /\ steps' = Front(steps) /\ chain' = chain /\ past' = past
      /\ Typed /\ Len(steps) = Len(block.txs) + 3
  BY DEF UndoTx, Retreat, RInv, UnderWay, StepsLength
<1>2. block'.txs = Front(block.txs) /\ block'.beats = block.beats
  BY <1>1 DEF Typed, Block
<1>3. IsSeq(block.txs) /\ Len(block.txs) \in Nat
  BY <1>1, Bounds
<1>4. \A m \in 1..(Len(steps) - 4) : block'.txs[m] = block.txs[m]
  BY <1>1, <1>2, <1>3, FrontFacts
<1> QED BY <1>1, <1>2, <1>4, SteppedBacked DEF Disconnecting

LEMMA UndoHeartbeatsQInv == RInv /\ QInv /\ UndoHeartbeats => QInv'
<1> SUFFICES ASSUME RInv, QInv, UndoHeartbeats PROVE QInv'
  OBVIOUS
<1>1. /\ stage = "undoing" /\ stage' = "unbeaten" /\ block.txs = <<>> /\ block' = NoBlock
      /\ steps' = Front(steps) /\ chain' = chain /\ past' = past
      /\ Len(steps) = Len(block.txs) + 3
  BY DEF UndoHeartbeats, Retreat, RInv, UnderWay, StepsLength
<1>2. Len(steps) = 3 /\ block'.beats = {}
  BY <1>1, EmptySeq DEF NoBlock
<1>3. (\A m \in 1..(Len(steps) - 4) : block'.txs[m] = block.txs[m]) /\ ~ (Len(steps) >= 4)
  BY <1>2
<1> QED BY <1>1, <1>2, <1>3, SteppedBacked DEF Disconnecting

LEMMA UndoRewardQInv == RInv /\ QInv /\ UndoReward => QInv'
<1> SUFFICES ASSUME RInv, QInv, UndoReward PROVE QInv'
  OBVIOUS
<1>1. /\ stage = "unbeaten" /\ stage' = "unpaid" /\ block' = block
      /\ steps' = Front(steps) /\ chain' = chain /\ past' = past
      /\ block.beats = {}
  BY DEF UndoReward, Retreat, QInv
<1> QED BY <1>1, SteppedBacked DEF Disconnecting

LEMMA NextQInv == RInv /\ QInv /\ [Next]_vars => QInv'
<1> SUFFICES ASSUME RInv, QInv, [Next]_vars PROVE QInv'
  OBVIOUS
<1>1. CASE CaptureCommittee
  <2>1. /\ stage = "applying" /\ stage' = "captured" /\ chain' = chain /\ block' = block
        /\ past' = past /\ steps' = steps /\ Number' = Number
    BY <1>1 DEF CaptureCommittee, Number, Disconnecting
  <2> QED BY <2>1, ChainKept DEF QInv
<1>2. CASE Abandon
  <2>1. stage' = "idle" /\ chain' = chain /\ past' = past
    BY <1>2 DEF Abandon
  <2> QED BY <2>1, ChainKept DEF QInv
<1>3. CASE UndoBlock
  <2>1. /\ stage = "unpaid" /\ stage' = "undone" /\ chain' = chain /\ block' = block
        /\ past' = past /\ steps' = steps /\ Number' = Number
    BY <1>3 DEF UndoBlock, Number, Disconnecting
  <2> QED BY <2>1, ChainKept DEF QInv
<1>4. CASE UNCHANGED vars
  <2>1. /\ chain' = chain /\ stage' = stage /\ block' = block
        /\ past' = past /\ steps' = steps /\ Number' = Number
    BY <1>4 DEF vars, Number
  <2> QED BY <2>1, ChainKept DEF QInv
<1> QED BY <1>1, <1>2, <1>3, <1>4, PayQInv, BeatQInv, ApplyQInv, ConnectQInv, DisconnectBlockQInv,
           UndoTxQInv, UndoHeartbeatsQInv, UndoRewardQInv, DisconnectQInv DEF Next

LEMMA QInvHolds == Spec => [](RInv /\ QInv)
<1>1. RInv /\ QInv /\ [Next]_vars => RInv' /\ QInv'
  BY NextRInv, NextQInv
<1>2. Init => RInv /\ QInv
  BY InitRInv, InitQInv
<1> QED BY <1>1, <1>2, PTL DEF Spec

(* The collateral of every registration is an unspent coin of the active   *)
(* chain, of the height that its record says: the transaction that spends  *)
(* it ends the registration, and disconnecting that one brings it back.    *)
THEOREM CollateralStaysHeld == Spec => []CollateralHeld
<1>1. RInv /\ QInv => CollateralHeld
  <2> SUFFICES ASSUME RInv, QInv, NEW id \in Registered(registry)
               PROVE  /\ registry.record[id].collateralHeight # 0
                      /\ CoinsIn(Standing)[registry.record[id].collateral] =
                           registry.record[id].collateralHeight
    BY DEF CollateralHeld
  <2>1. registry.record[id] \in Record
    BY Current DEF Sound, RegistryOK, Registered
  <2>2. registry.record[id].collateral \in Coins /\ registry.record[id].collateralHeight # 0
    BY <2>1 DEF Record, Heights
  <2>3. CoinAt(WhereIn(Standing), registry.record[id].collateral) =
          registry.record[id].collateralHeight
    BY StandingBacked DEF Backed
  <2> QED BY <2>2, <2>3, CoinsOf, StandingIs
<1> QED BY <1>1, QInvHolds, PTL

(* The last heartbeat of a registration is the newest of its sequence that *)
(* the blocks of the active chain carried for it.                          *)
THEOREM HeartbeatsAreCarried == Spec => []HeartbeatsCarried
<1>1. RInv /\ QInv => HeartbeatsCarried
  <2> SUFFICES ASSUME RInv, QInv, NEW id \in Registered(registry)
               PROVE  registry.record[id].lastHeartbeat =
                        Max({0} \cup {beat.height : beat \in Carried(id)})
    BY DEF HeartbeatsCarried
  <2>1. registry.record[id].lastHeartbeat =
          Max({0} \cup {beat.height : beat \in OwnBeats(BeatsIn(Standing), id, registry.record[id])})
    BY StandingBacked DEF Backed
  <2>2. DOMAIN Standing = 1..Len(Standing)
    BY StandingIs, SeqFacts DEF Blocks
  <2>3. Carried(id) = OwnBeats(BeatsIn(Standing), id, registry.record[id])
    BY <2>2 DEF Carried, OwnBeats, BeatsIn, BeatsOf
  <2> QED BY <2>1, <2>3
<1> QED BY <1>1, QInvHolds, PTL

-----------------------------------------------------------------------------
(* The payment queue.  A block pays first; after that a record keeps its   *)
(* place, unless it is new or its service begins.                          *)
QuietStep(R, Q, height) ==
  /\ Q.paid = R.paid
  /\ \A id \in Registered(Q) :
       LET r == R.record[id]
           q == Q.record[id]
       IN  \/ /\ r = None
              /\ q.registered = height /\ q.lastPaid = 0 /\ q.revived = 0
           \/ /\ r # None
              /\ q.registered = r.registered /\ q.lastPaid = r.lastPaid
              /\ q.revived = r.revived \/ (q.revived = height /\ r.service = None)
              /\ HasService(Q, id) /\ ~ HasService(R, id) => q.revived = height

JoinedBy(R, height) ==
  \A id \in Registered(R) :
    /\ R.record[id].registered <= height
    /\ R.record[id].lastPaid <= height
    /\ R.record[id].revived <= height

\* The payments of the first n blocks are in the books.
Booked(R, p, n) ==
  \A k \in 1..n :
    /\ BaseHeight + k \in DOMAIN R.paid
    /\ DOMAIN R.paid[BaseHeight + k] = DOMAIN Reward(RegistryAt(p, k - 1), BaseHeight + k)

StepsInTurn(states, p, n) ==
  /\ Len(states) >= 2 => states[2] = Pay(states[1], BaseHeight + n)
  /\ \A i \in 2..(Len(states) - 1) : QuietStep(states[i], states[i + 1], BaseHeight + n)
  /\ \A i \in 1..Len(states) :
       LET taken == IF i = 1 THEN n - 1 ELSE n
       IN  JoinedBy(states[i], BaseHeight + taken) /\ Booked(states[i], p, taken)

TInv ==
  /\ \A n \in 1..Len(chain) : StepsInTurn(past[n], past, n)
  /\ stage # "idle" => StepsInTurn(steps, past, Number)

(* What the operations of a block do to the queue.                         *)
LEMMA BeatQuiet ==
  ASSUME NEW R, Sound(R), NEW h \in Heights, NEW parent, NEW batch \in SUBSET Heartbeats,
         CanBeat(R, batch, parent)
  PROVE  QuietStep(R, Beat(R, batch, h), h)
<1> DEFINE Q == Beat(R, batch, h)
<1>1. \A beat \in batch : beat.height \in Heights
  BY DEF Heartbeats
<1>2. \A id \in Txs :
        \/ Q.record[id] = R.record[id]
        \/ /\ R.record[id] \in Record
           /\ \E beat \in batch : Q.record[id] = [R.record[id] EXCEPT !.lastHeartbeat = beat.height]
  BY <1>1, BeatenRecords
<1>3. Q.paid = R.paid
  <2>1. Q.paid = Replace(R, Alive(R, batch)).paid
    BY DEF Beat, Replace
  <2> QED BY <2>1 DEF Replace
<1> HIDE DEF Q
<1>4. None \notin Record
  BY RegistryAssumption
<1>5. ASSUME NEW id \in Registered(Q)
      PROVE  /\ R.record[id] # None
             /\ Q.record[id].registered = R.record[id].registered
             /\ Q.record[id].lastPaid = R.record[id].lastPaid
             /\ Q.record[id].revived = R.record[id].revived
             /\ HasService(Q, id) <=> HasService(R, id)
  <2>1. id \in Txs /\ Q.record[id] # None
    BY DEF Registered
  <2>2. CASE Q.record[id] = R.record[id]
    BY <2>1, <2>2 DEF HasService
  <2>3. CASE Q.record[id] # R.record[id]
    <3>1. R.record[id] \in Record /\ R.record[id] # None
      BY <1>2, <1>4, <2>1, <2>3
    <3>2. PICK beat \in batch : Q.record[id] = [R.record[id] EXCEPT !.lastHeartbeat = beat.height]
      BY <1>2, <2>1, <2>3
    <3> QED BY <2>1, <3>1, <3>2 DEF HasService, Record
  <2> QED BY <2>2, <2>3
<1>6. QuietStep(R, Q, h)
  BY <1>3, <1>5 DEF QuietStep
<1> QED BY <1>6 DEF Q

LEMMA ApplyQuiet ==
  ASSUME NEW R, Sound(R), NEW t \in Txs, NEW h \in Heights,
         NEW coins \in [Coins -> Heights \cup {0}], CanApply(R, t, coins, h)
  PROVE  QuietStep(R, Apply(R, t, coins, h), h)
<1> DEFINE Q == Apply(R, t, coins, h)
<1>1. \A id \in Txs :
        \/ Q.record[id] = None
        \/ Q.record[id] = R.record[id]
        \/ R.record[id] = None /\ Q.record[id] = NewRecord(t, coins, h)
        \/ /\ R.record[id] \in Record
           /\ \/ Q.record[id] = Updated(R.record[id], t)
              \/ Q.record[id] = Served(R.record[id], t, h) /\ ~ R.record[id].revoked
              \/ Q.record[id] = Revoked(R.record[id], t)
  BY AppliedRecords
<1>2. Q.paid = R.paid
  <2>1. Q.paid = Replace(R, Changes(R, t, coins, h)).paid
    BY DEF Apply, Replace
  <2> QED BY <2>1 DEF Replace
<1> HIDE DEF Q
<1>3. None \notin Record
  BY RegistryAssumption
<1>4. ASSUME NEW id \in Registered(Q)
      PROVE  LET r == R.record[id]
                 q == Q.record[id]
             IN  \/ /\ r = None
                    /\ q.registered = h /\ q.lastPaid = 0 /\ q.revived = 0
                 \/ /\ r # None
                    /\ q.registered = r.registered /\ q.lastPaid = r.lastPaid
                    /\ q.revived = r.revived \/ (q.revived = h /\ r.service = None)
                    /\ HasService(Q, id) /\ ~ HasService(R, id) => q.revived = h
  <2> DEFINE r == R.record[id]
             q == Q.record[id]
  <2>1. id \in Txs /\ q # None
    BY DEF Registered
  <2>2. CASE q = r
    BY <2>1, <2>2 DEF HasService
  <2>3. CASE r = None /\ q = NewRecord(t, coins, h)
    BY <2>3 DEF NewRecord
  <2>4. CASE r \in Record /\ q = Updated(r, t)
    <3>1. /\ q.registered = r.registered /\ q.lastPaid = r.lastPaid /\ q.revived = r.revived
          /\ q.service = None \/ (q.service = r.service /\ q.revoked = r.revoked)
      BY <2>4 DEF Updated, NextSequence, Record
    <3> QED BY <1>3, <2>1, <2>4, <3>1 DEF HasService
  <2>5. CASE r \in Record /\ q = Served(r, t, h) /\ ~ r.revoked
    <3>1. /\ q.registered = r.registered /\ q.lastPaid = r.lastPaid
          /\ q.revived = IF r.service = None THEN h ELSE r.revived
      BY <2>5 DEF Served, NextSequence, Record
    <3> QED BY <1>3, <2>1, <2>5, <3>1 DEF HasService
  <2>6. CASE r \in Record /\ q = Revoked(r, t)
    <3>1. /\ q.registered = r.registered /\ q.lastPaid = r.lastPaid /\ q.revived = r.revived
          /\ q.service = None
      BY <2>6 DEF Revoked, NextSequence, Record
    <3> QED BY <1>3, <2>1, <2>6, <3>1 DEF HasService
  <2>7. \/ q = r
        \/ r = None /\ q = NewRecord(t, coins, h)
        \/ r \in Record /\ q = Updated(r, t)
        \/ r \in Record /\ q = Served(r, t, h) /\ ~ r.revoked
        \/ r \in Record /\ q = Revoked(r, t)
    BY <1>1, <2>1
  <2> QED BY <2>2, <2>3, <2>4, <2>5, <2>6, <2>7
<1>5. QuietStep(R, Q, h)
  BY <1>2, <1>4 DEF QuietStep
<1> QED BY <1>5 DEF Q

LEMMA PayBooked ==
  ASSUME NEW R, Sound(R), NEW p, NEW n \in Nat \ {0}, BaseHeight + n \in Heights,
         JoinedBy(R, BaseHeight + (n - 1)), Booked(R, p, n - 1), R = RegistryAt(p, n - 1)
  PROVE  JoinedBy(Pay(R, BaseHeight + n), BaseHeight + n) /\ Booked(Pay(R, BaseHeight + n), p, n)
<1> DEFINE h == BaseHeight + n
           Q == Pay(R, h)
           change == Reward(R, h)
<1>0. h \in Heights /\ BaseHeight \in Nat /\ h \in Nat /\ Heights \subseteq Nat
  BY ChainAssumption DEF Heights
<1>1. \A id \in Txs :
        \/ Q.record[id] = R.record[id]
        \/ /\ R.record[id] \in Record
           /\ Q.record[id] = [R.record[id] EXCEPT !.lastPaid = h]
  BY PaidRecords
<1>2. Q.paid = Write(R.paid, h, UndoOf(R, change))
  <2>1. Q.paid = Write(Replace(R, change).paid, h, UndoOf(R, change))
    BY DEF Pay, Replace
  <2> QED BY <2>1 DEF Replace
<1>3. /\ h \in DOMAIN Q.paid /\ DOMAIN Q.paid[h] = DOMAIN Reward(R, h)
      /\ \A g \in DOMAIN R.paid \ {h} : g \in DOMAIN Q.paid /\ Q.paid[g] = R.paid[g]
  BY <1>2 DEF Write, UndoOf
<1> HIDE DEF Q, change
<1>4. ASSUME NEW id \in Registered(Q)
      PROVE  /\ Q.record[id].registered <= h
             /\ Q.record[id].lastPaid <= h
             /\ Q.record[id].revived <= h
  <2>1. id \in Txs /\ R.record[id] \in Record /\ id \in Registered(R)
    BY <1>1, RegistryAssumption DEF Registered, Sound, RegistryOK
  <2>2. /\ R.record[id].registered <= BaseHeight + (n - 1)
        /\ R.record[id].lastPaid <= BaseHeight + (n - 1)
        /\ R.record[id].revived <= BaseHeight + (n - 1)
    BY <2>1 DEF JoinedBy
  <2>3. R.record[id].registered \in Nat /\ R.record[id].lastPaid \in Nat /\ R.record[id].revived \in Nat
    <3>1. R.record[id].registered \in Heights /\ R.record[id].lastPaid \in Heights \cup {0}
          /\ R.record[id].revived \in Heights \cup {0}
      BY <2>1 DEF Record
    <3>2. Heights \cup {0} \subseteq Nat
      BY <1>0
    <3> QED BY <3>1, <3>2
  <2>4. /\ R.record[id].registered <= h
        /\ R.record[id].lastPaid <= h
        /\ R.record[id].revived <= h
    BY <1>0, <2>2, <2>3
  <2>5. CASE Q.record[id] = R.record[id]
    BY <2>4, <2>5
  <2>6. CASE Q.record[id] = [R.record[id] EXCEPT !.lastPaid = h]
    BY <1>0, <2>1, <2>4, <2>6 DEF Record
  <2> QED BY <1>1, <2>1, <2>5, <2>6
<1>5. ASSUME NEW k \in 1..n
      PROVE  /\ BaseHeight + k \in DOMAIN Q.paid
             /\ DOMAIN Q.paid[BaseHeight + k] = DOMAIN Reward(RegistryAt(p, k - 1), BaseHeight + k)
  <2>1. CASE k = n
    BY <1>3, <2>1
  <2>2. CASE k # n
    <3>1. k \in 1..(n - 1) /\ BaseHeight + k # h
      BY <1>0, <2>2
    <3>2. /\ BaseHeight + k \in DOMAIN R.paid
          /\ DOMAIN R.paid[BaseHeight + k] = DOMAIN Reward(RegistryAt(p, k - 1), BaseHeight + k)
      BY <3>1 DEF Booked
    <3> QED BY <1>3, <3>1, <3>2
  <2> QED BY <2>1, <2>2
<1> QED BY <1>4, <1>5 DEF JoinedBy, Booked, Q

LEMMA QuietBooked ==
  ASSUME NEW R, Sound(R), NEW Q, NEW p, NEW n \in Nat, BaseHeight + n \in Heights,
         QuietStep(R, Q, BaseHeight + n), JoinedBy(R, BaseHeight + n), Booked(R, p, n)
  PROVE  JoinedBy(Q, BaseHeight + n) /\ Booked(Q, p, n)
<1>0. BaseHeight + n \in Nat /\ BaseHeight + n > 0
  BY DEF Heights
<1>1. ASSUME NEW id \in Registered(Q)
      PROVE  /\ Q.record[id].registered <= BaseHeight + n
             /\ Q.record[id].lastPaid <= BaseHeight + n
             /\ Q.record[id].revived <= BaseHeight + n
  <2> DEFINE h == BaseHeight + n
             r == R.record[id]
             q == Q.record[id]
  <2>1. \/ /\ r = None
           /\ q.registered = h /\ q.lastPaid = 0 /\ q.revived = 0
        \/ /\ r # None
           /\ q.registered = r.registered /\ q.lastPaid = r.lastPaid
           /\ q.revived = r.revived \/ q.revived = h
    BY DEF QuietStep
  <2>2. r # None => r.registered <= h /\ r.lastPaid <= h /\ r.revived <= h
    BY DEF JoinedBy, Registered
  <2> HIDE DEF h, r, q
  <2>3. h \in Nat /\ h > 0
    BY <1>0 DEF h
  <2>4. q.registered <= h /\ q.lastPaid <= h /\ q.revived <= h
    BY <2>1, <2>2, <2>3
  <2> QED BY <2>4 DEF h, q
<1> QED BY <1>1 DEF JoinedBy, Booked, QuietStep

LEMMA TurnPrefix ==
  ASSUME NEW states, NEW p, NEW n, StepsInTurn(states, p, n), Len(states) \in Nat,
         NEW some, Len(some) \in Nat, Len(some) <= Len(states),
         \A j \in 1..Len(some) : some[j] = states[j],
         NEW q, \A k \in 0..(n - 1) : RegistryAt(q, k) = RegistryAt(p, k)
  PROVE  StepsInTurn(some, q, n)
<1>1. \A R, m : m \in {n - 1, n} /\ Booked(R, p, m) => Booked(R, q, m)
  <2> SUFFICES ASSUME NEW R, NEW m \in {n - 1, n}, Booked(R, p, m), NEW k \in 1..m
               PROVE  /\ BaseHeight + k \in DOMAIN R.paid
                      /\ DOMAIN R.paid[BaseHeight + k] =
                           DOMAIN Reward(RegistryAt(q, k - 1), BaseHeight + k)
    BY DEF Booked
  <2>1. k - 1 \in 0..(n - 1)
    OBVIOUS
  <2> QED BY <2>1 DEF Booked
<1>2. Len(some) >= 2 => some[2] = Pay(some[1], BaseHeight + n)
  <2> SUFFICES ASSUME Len(some) >= 2 PROVE some[2] = Pay(some[1], BaseHeight + n)
    OBVIOUS
  <2>1. 1 \in 1..Len(some) /\ 2 \in 1..Len(some) /\ Len(states) >= 2
    OBVIOUS
  <2> QED BY <2>1 DEF StepsInTurn
<1>3. ASSUME NEW i \in 2..(Len(some) - 1)
      PROVE  QuietStep(some[i], some[i + 1], BaseHeight + n)
  <2>1. i \in 1..Len(some) /\ i + 1 \in 1..Len(some) /\ i \in 2..(Len(states) - 1)
    OBVIOUS
  <2> QED BY <2>1 DEF StepsInTurn
<1>4. ASSUME NEW i \in 1..Len(some)
      PROVE  LET taken == IF i = 1 THEN n - 1 ELSE n
             IN  JoinedBy(some[i], BaseHeight + taken) /\ Booked(some[i], q, taken)
  <2>1. i \in 1..Len(states) /\ some[i] = states[i]
    OBVIOUS
  <2> DEFINE taken == IF i = 1 THEN n - 1 ELSE n
  <2>2. taken \in {n - 1, n} /\ JoinedBy(states[i], BaseHeight + taken) /\ Booked(states[i], p, taken)
    BY <2>1 DEF StepsInTurn
  <2> QED BY <1>1, <2>1, <2>2
<1> QED BY <1>2, <1>3, <1>4 DEF StepsInTurn

LEMMA TurnAppend ==
  ASSUME NEW states, IsSeq(states), Len(states) >= 2, NEW p, NEW n, StepsInTurn(states, p, n),
         NEW R, QuietStep(Last(states), R, BaseHeight + n),
         JoinedBy(R, BaseHeight + n), Booked(R, p, n)
  PROVE  StepsInTurn(Append(states, R), p, n)
<1> DEFINE longer == Append(states, R)
           m == Len(states)
<1>1. /\ m \in Nat /\ m >= 2
      /\ Len(longer) = m + 1
      /\ \A i \in 1..m : longer[i] = states[i]
      /\ longer[m + 1] = R /\ Last(states) = states[m]
  BY SeqFacts, AppendFacts
<1> HIDE DEF longer
<1>2. longer[2] = Pay(longer[1], BaseHeight + n)
  <2>1. 1 \in 1..m /\ 2 \in 1..m
    BY <1>1
  <2> QED BY <1>1, <2>1 DEF StepsInTurn
<1>3. ASSUME NEW i \in 2..m
      PROVE  QuietStep(longer[i], longer[i + 1], BaseHeight + n)
  <2>1. CASE i = m
    <3>1. m \in 1..m
      BY <1>1
    <3> QED BY <1>1, <2>1, <3>1
  <2>2. CASE i # m
    <3>1. i \in 2..(m - 1) /\ i \in 1..m /\ i + 1 \in 1..m
      BY <1>1, <2>2
    <3> QED BY <1>1, <3>1 DEF StepsInTurn
  <2> QED BY <2>1, <2>2
<1>4. ASSUME NEW i \in 1..(m + 1)
      PROVE  LET taken == IF i = 1 THEN n - 1 ELSE n
             IN  JoinedBy(longer[i], BaseHeight + taken) /\ Booked(longer[i], p, taken)
  <2>1. CASE i = m + 1
    <3>1. i # 1
      BY <1>1, <2>1
    <3> QED BY <1>1, <2>1, <3>1
  <2>2. CASE i # m + 1
    <3>1. i \in 1..m
      BY <1>1, <2>2
    <3> QED BY <1>1, <3>1 DEF StepsInTurn
  <2> QED BY <2>1, <2>2
<1>5. Len(longer) - 1 = m
  BY <1>1
<1> QED BY <1>1, <1>2, <1>3, <1>4, <1>5 DEF StepsInTurn, longer

LEMMA InitTInv == Init => TInv
BY EmptySeq DEF Init, TInv

LEMMA TurnsKept ==
  ASSUME TInv, chain' = chain, past' = past
  PROVE  \A n \in 1..Len(chain') : StepsInTurn(past'[n], past', n)
BY DEF TInv

(* The registry of the tip: everyone joined by then, and all is booked.    *)
LEMMA TipInTurn ==
  ASSUME RInv, TInv
  PROVE  /\ JoinedBy(RegistryAt(past, Len(chain)), BaseHeight + Len(chain))
         /\ Booked(RegistryAt(past, Len(chain)), past, Len(chain))
<1> DEFINE n == Len(chain)
<1>1. n \in Nat /\ PastIs(past, chain) /\ Blocks(chain)
  BY Bounds, StandingIs DEF RInv
<1>2. CASE n = 0
  <2>1. RegistryAt(past, n) = Empty /\ Registered(Empty) = {}
    BY <1>2 DEF RegistryAt, Registered, Empty
  <2> QED BY <1>2, <2>1 DEF JoinedBy, Booked
<1>3. CASE n # 0
  <2> DEFINE j == Len(past[n])
  <2>1. n \in 1..n
    BY <1>1, <1>3
  <2>2. j = Len(chain[n].txs) + 3 /\ IsSeq(chain[n].txs)
    BY <1>1, <2>1 DEF PastIs, Blocks
  <2>3. j \in 1..j /\ j # 1
    <3> DEFINE k == Len(chain[n].txs)
    <3>1. k \in Nat /\ j = k + 3
      BY <2>2, SeqFacts
    <3> HIDE DEF j, k
    <3> QED BY <3>1
  <2>4. RegistryAt(past, n) = past[n][j]
    BY <1>3 DEF RegistryAt, Last
  <2>5. StepsInTurn(past[n], past, n)
    BY <2>1 DEF TInv
  <2> QED BY <2>3, <2>4, <2>5 DEF StepsInTurn
<1> QED BY <1>2, <1>3

LEMMA PayTInv == RInv /\ TInv /\ PayMasternode => TInv'
<1> SUFFICES ASSUME RInv, TInv, PayMasternode PROVE TInv'
  OBVIOUS
<1> DEFINE n == Len(chain) + 1
           Q == Pay(registry, Height)
<1>1. /\ stage = "idle" /\ stage' = "paid" /\ chain' = chain /\ past' = past
      /\ steps' = <<registry, Q>> /\ Tip < MaxHeight
  BY DEF PayMasternode
<1>2. /\ Number' = n /\ n \in Nat \ {0} /\ n - 1 = Len(chain) /\ BaseHeight + n = Height
      /\ Height \in Heights /\ Sound(registry) /\ registry = RegistryAt(past, n - 1)
  <2>1. /\ Number' = n /\ Height = Tip + 1 /\ Tip = BaseHeight + Len(chain)
    BY <1>1 DEF Number, Height, Tip, Disconnecting
  <2>2. Len(chain) \in Nat /\ BaseHeight \in Nat /\ Height \in Heights /\ Sound(registry)
        /\ registry = RegistryAt(past, Len(chain))
    BY <1>1, <2>1, Bounds, Current DEF RInv
  <2> DEFINE m == Len(chain)
  <2>3. m \in Nat /\ n = m + 1 /\ Height = (BaseHeight + m) + 1
    BY <2>1, <2>2
  <2> HIDE DEF m, n
  <2>4. n \in Nat \ {0} /\ n - 1 = m /\ BaseHeight + n = Height
    BY <2>2, <2>3
  <2> QED BY <2>1, <2>2, <2>4 DEF m
<1>3. JoinedBy(registry, BaseHeight + (n - 1)) /\ Booked(registry, past, n - 1)
  BY <1>2, TipInTurn
<1>4. JoinedBy(Q, BaseHeight + n) /\ Booked(Q, past, n)
  <2> HIDE DEF n
  <2> QED BY <1>2, <1>3, PayBooked
<1> HIDE DEF Q, n
<1>5. Len(steps') = 2 /\ steps'[1] = registry /\ steps'[2] = Q
  BY <1>1, PairFacts
<1>6. \A i \in 1..2 : i = 1 \/ i = 2
  OBVIOUS
<1>7. StepsInTurn(steps', past, n)
  BY <1>2, <1>3, <1>4, <1>5, <1>6 DEF StepsInTurn, Q
<1> QED BY <1>1, <1>2, <1>7, TurnsKept DEF TInv

\* A step forward after the payment.
LEMMA AdvanceTInv ==
  ASSUME RInv, TInv, stage \in {"paid", "applying"}, stage' = "applying",
         chain' = chain, past' = past, NEW Q, steps' = Append(steps, Q),
         QuietStep(registry, Q, Height)
  PROVE  TInv'
<1>1. /\ UnderWay /\ Number' = Number /\ stage # "idle"
  BY DEF RInv, Number, Disconnecting
<1>2. /\ Number \in Nat \ {0} /\ BaseHeight + Number = Height /\ Height \in Heights
      /\ Sound(registry)
  <2>1. Tip < MaxHeight /\ Height = Tip + 1 /\ Typed
    BY <1>1 DEF UnderWay, Connecting, Height, Disconnecting, RInv
  <2> QED BY <1>1, <2>1, StandingIs, Bounds, Current
<1>3. IsSeq(steps) /\ Len(steps) \in Nat /\ Len(steps) >= 2 /\ registry = steps[Len(steps)]
      /\ registry = Last(steps)
  <2>1. IsSeq(steps) /\ Len(steps) = StepsLength /\ registry = Last(steps)
    BY <1>1 DEF UnderWay, StepsOK
  <2>2. Len(block.txs) \in Nat
    BY Bounds DEF RInv
  <2>3. StepsLength = 2 \/ StepsLength = Len(block.txs) + 3
    BY DEF StepsLength
  <2> DEFINE m == Len(steps)
             k == Len(block.txs)
  <2>4. (m = 2 \/ m = k + 3) /\ k \in Nat
    BY <2>1, <2>2, <2>3
  <2> HIDE DEF m, k
  <2>5. m \in Nat /\ m >= 2
    BY <2>4
  <2> QED BY <2>1, <2>5 DEF Last, m
<1>4. StepsInTurn(steps, past, Number)
  BY <1>1 DEF TInv
<1>5. JoinedBy(registry, BaseHeight + Number) /\ Booked(registry, past, Number)
  <2>1. Len(steps) \in 1..Len(steps) /\ Len(steps) # 1
    BY <1>3
  <2> QED BY <1>3, <1>4, <2>1 DEF StepsInTurn
<1>6. JoinedBy(Q, BaseHeight + Number) /\ Booked(Q, past, Number)
  BY <1>2, <1>5, QuietBooked
<1>7. StepsInTurn(steps', past, Number)
  BY <1>2, <1>3, <1>4, <1>6, TurnAppend
<1> QED BY <1>1, <1>7, TurnsKept DEF TInv

LEMMA BeatTInv == RInv /\ TInv /\ TakeHeartbeats => TInv'
<1> SUFFICES ASSUME RInv, TInv, TakeHeartbeats PROVE TInv'
  OBVIOUS
<1>1. /\ stage = "paid" /\ stage' = "applying" /\ chain' = chain /\ past' = past
      /\ UnderWay /\ Tip < MaxHeight
  BY DEF TakeHeartbeats, RInv, UnderWay, Connecting
<1>2. PICK batch \in SUBSET {beat \in Heartbeats : Verify(registry, beat, Tip)} :
        /\ CanBeat(registry, batch, Tip)
        /\ steps' = Append(steps, Beat(registry, batch, Height))
  BY DEF TakeHeartbeats, Advance
<1>3. batch \in SUBSET Heartbeats
  BY <1>2
<1>4. Height \in Heights /\ Sound(registry)
  BY <1>1, Bounds, Current DEF RInv, Height, Disconnecting
<1>5. QuietStep(registry, Beat(registry, batch, Height), Height)
  BY <1>2, <1>3, <1>4, BeatQuiet
<1> QED BY <1>1, <1>2, <1>5, AdvanceTInv

LEMMA ApplyTInv == ASSUME NEW t \in Txs PROVE RInv /\ TInv /\ ApplyTx(t) => TInv'
<1> SUFFICES ASSUME RInv, TInv, ApplyTx(t) PROVE TInv'
  OBVIOUS
<1> DEFINE coins == CoinsIn(Standing)
<1>1. /\ stage = "applying" /\ stage' = "applying" /\ chain' = chain /\ past' = past
      /\ CanApply(registry, t, coins, Height)
      /\ steps' = Append(steps, Apply(registry, t, coins, Height))
      /\ UnderWay /\ Tip < MaxHeight
  BY DEF ApplyTx, Advance, RInv, UnderWay, Connecting
<1>2. Height \in Heights /\ Sound(registry)
  BY <1>1, Bounds, Current DEF RInv, Height, Disconnecting
<1>3. coins \in [Coins -> Heights \cup {0}]
  BY <1>1, StandingCoins
<1> HIDE DEF coins
<1>4. QuietStep(registry, Apply(registry, t, coins, Height), Height)
  BY <1>1, <1>2, <1>3, ApplyQuiet
<1> QED BY <1>1, <1>4, AdvanceTInv

LEMMA ConnectTInv == RInv /\ TInv /\ ConnectTip => TInv'
<1> SUFFICES ASSUME RInv, TInv, ConnectTip PROVE TInv'
  OBVIOUS
<1> DEFINE n == Len(chain) + 1
<1>1. /\ stage = "captured" /\ stage' = "idle"
      /\ chain' = Append(chain, block) /\ past' = Append(past, steps)
  BY DEF ConnectTip, Commit
<1>2. /\ UnderWay /\ PastIs(past, chain) /\ Number = n /\ Len(chain) \in Nat /\ IsSeq(chain)
  BY <1>1, Bounds DEF RInv, Number, Disconnecting
<1>3. IsSeq(past) /\ Len(past) = Len(chain) /\ IsSeq(steps) /\ Len(steps) \in Nat
  BY <1>2, SeqFacts DEF PastIs, UnderWay, StepsOK
<1>4. /\ Len(chain') = n /\ \A i \in 1..Len(chain) : past'[i] = past[i]
      /\ past'[n] = steps
  BY <1>1, <1>2, <1>3, AppendFacts
<1>5. \A k \in 0..Len(chain) : RegistryAt(past', k) = RegistryAt(past, k)
  BY <1>2, <1>4 DEF RegistryAt
<1>6. StepsInTurn(past'[n], past', n)
  <2>1. StepsInTurn(steps, past, n)
    BY <1>1, <1>2 DEF TInv
  <2>2. n - 1 = Len(chain) /\ Len(steps) <= Len(steps)
    BY <1>2, <1>3
  <2>3. \A k \in 0..(n - 1) : RegistryAt(past', k) = RegistryAt(past, k)
    BY <1>5, <2>2
  <2> HIDE DEF n
  <2>4. StepsInTurn(steps, past', n)
    BY <1>3, <2>1, <2>2, <2>3, TurnPrefix
  <2> QED BY <1>4, <2>4
<1>7. ASSUME NEW m \in 1..Len(chain)
      PROVE  StepsInTurn(past'[m], past', m)
  <2>1. StepsInTurn(past[m], past, m) /\ IsSeq(past[m])
    BY <1>2 DEF TInv, PastIs, StepsOK
  <2>2. Len(past[m]) \in Nat /\ \A k \in 0..(m - 1) : k \in 0..Len(chain)
    BY <1>2, <2>1, SeqFacts
  <2>3. Len(past[m]) <= Len(past[m]) /\ past'[m] = past[m]
        /\ \A k \in 0..(m - 1) : RegistryAt(past', k) = RegistryAt(past, k)
    BY <1>4, <1>5, <2>2
  <2> HIDE DEF n
  <2> QED BY <2>1, <2>2, <2>3, TurnPrefix
<1>8. \A m \in 1..n : m \in 1..Len(chain) \/ m = n
  BY <1>2
<1> HIDE DEF n
<1> QED BY <1>1, <1>4, <1>6, <1>7, <1>8 DEF TInv

LEMMA DisconnectTInv == RInv /\ TInv /\ DisconnectTip => TInv'
<1> SUFFICES ASSUME RInv, TInv, DisconnectTip PROVE TInv'
  OBVIOUS
<1>1. /\ stage = "undone" /\ stage' = "idle" /\ chain' = Front(chain) /\ past' = Front(past)
  BY DEF DisconnectTip, Commit
<1>2. /\ chain # <<>> /\ PastIs(past, chain) /\ Len(chain) \in Nat \ {0} /\ IsSeq(chain)
  BY <1>1, Bounds DEF RInv, UnderWay, Disconnecting
<1>3. IsSeq(past) /\ Len(past) = Len(chain) /\ past # <<>>
  BY <1>2, SeqFacts DEF PastIs
<1>4. /\ Len(chain') = Len(chain) - 1
      /\ \A i \in 1..(Len(chain) - 1) : past'[i] = past[i]
  BY <1>1, <1>2, <1>3, FrontFacts
<1>5. \A k \in 0..(Len(chain) - 1) : RegistryAt(past', k) = RegistryAt(past, k)
  BY <1>2, <1>4 DEF RegistryAt
<1>6. ASSUME NEW m \in 1..(Len(chain) - 1)
      PROVE  StepsInTurn(past'[m], past', m)
  <2>1. StepsInTurn(past[m], past, m) /\ IsSeq(past[m])
    BY <1>2 DEF TInv, PastIs, StepsOK
  <2>2. Len(past[m]) \in Nat /\ \A k \in 0..(m - 1) : k \in 0..(Len(chain) - 1)
    BY <1>2, <2>1, SeqFacts
  <2>3. Len(past[m]) <= Len(past[m]) /\ past'[m] = past[m]
        /\ \A k \in 0..(m - 1) : RegistryAt(past', k) = RegistryAt(past, k)
    BY <1>4, <1>5, <2>2
  <2> QED BY <2>1, <2>2, <2>3, TurnPrefix
<1> QED BY <1>1, <1>4, <1>6 DEF TInv

LEMMA DisconnectBlockTInv == RInv /\ TInv /\ DisconnectBlock => TInv'
<1> SUFFICES ASSUME RInv, TInv, DisconnectBlock PROVE TInv'
  OBVIOUS
<1>1. /\ stage = "idle" /\ chain # <<>> /\ stage' = "undoing"
      /\ steps' = Last(past) /\ chain' = chain /\ past' = past
  BY DEF DisconnectBlock
<1>2. Len(chain) \in 1..Len(chain) /\ Len(past) = Len(chain)
  BY <1>1, Bounds DEF RInv, PastIs
<1>3. /\ Number' = Len(chain) /\ steps' = past[Len(chain)]
  BY <1>1, <1>2 DEF Number, Disconnecting, Last
<1>4. StepsInTurn(steps', past', Number')
  BY <1>1, <1>2, <1>3 DEF TInv
<1> QED BY <1>1, <1>4, TurnsKept DEF TInv

LEMMA RetreatTInv ==
  ASSUME RInv, TInv, stage \in Disconnecting, stage' \in Disconnecting,
         chain' = chain, past' = past, steps' = Front(steps)
  PROVE  TInv'
<1>1. UnderWay /\ Number' = Number /\ stage # "idle" /\ Typed
  BY DEF RInv, Disconnecting, Number
<1>2. IsSeq(steps) /\ Len(steps) \in Nat /\ Len(steps) >= 1
  <2>1. IsSeq(steps) /\ Len(steps) = StepsLength
    BY <1>1 DEF UnderWay, StepsOK
  <2>2. Len(block.txs) \in Nat
    BY <1>1, Bounds
  <2> QED BY <2>1, <2>2, SeqFacts DEF StepsLength
<1>3. /\ Len(steps') = Len(steps) - 1
      /\ \A i \in 1..(Len(steps) - 1) : steps'[i] = steps[i]
  BY <1>2, FrontFacts, SeqFacts
<1>4. StepsInTurn(steps, past, Number)
  BY <1>1 DEF TInv
<1>5. StepsInTurn(steps', past, Number)
  <2>1. Len(steps') \in Nat /\ Len(steps') <= Len(steps)
    BY <1>2, <1>3
  <2> QED BY <1>2, <1>3, <1>4, <2>1, TurnPrefix
<1> QED BY <1>1, <1>5, TurnsKept DEF TInv

LEMMA NextTInv == RInv /\ TInv /\ [Next]_vars => TInv'
<1> SUFFICES ASSUME RInv, TInv, [Next]_vars PROVE TInv'
  OBVIOUS
<1>1. CASE CaptureCommittee
  <2>1. /\ stage = "applying" /\ stage' = "captured" /\ chain' = chain
        /\ past' = past /\ steps' = steps /\ Number' = Number
    BY <1>1 DEF CaptureCommittee, Number, Disconnecting
  <2> QED BY <2>1, TurnsKept DEF TInv
<1>2. CASE Abandon
  <2>1. stage' = "idle" /\ chain' = chain /\ past' = past
    BY <1>2 DEF Abandon
  <2> QED BY <2>1, TurnsKept DEF TInv
<1>3. CASE UndoBlock
  <2>1. /\ stage = "unpaid" /\ stage' = "undone" /\ chain' = chain
        /\ past' = past /\ steps' = steps /\ Number' = Number
    BY <1>3 DEF UndoBlock, Number, Disconnecting
  <2> QED BY <2>1, TurnsKept DEF TInv
<1>4. CASE UNCHANGED vars
  <2>1. /\ chain' = chain /\ stage' = stage
        /\ past' = past /\ steps' = steps /\ Number' = Number
    BY <1>4 DEF vars, Number
  <2> QED BY <2>1, TurnsKept DEF TInv
<1>5. CASE UndoTx \/ UndoHeartbeats \/ UndoReward
  BY <1>5, RetreatTInv DEF UndoTx, UndoHeartbeats, UndoReward, Retreat, Disconnecting
<1> QED BY <1>1, <1>2, <1>3, <1>4, <1>5, PayTInv, BeatTInv, ApplyTInv, ConnectTInv,
           DisconnectBlockTInv, DisconnectTInv DEF Next

LEMMA TInvHolds == Spec => [](RInv /\ TInv)
<1>1. RInv /\ TInv /\ [Next]_vars => RInv' /\ TInv'
  BY NextRInv, NextTInv
<1>2. Init => RInv /\ TInv
  BY InitRInv, InitTInv
<1> QED BY <1>1, <1>2, PTL DEF Spec

(* A place in the queue, from one registry to a later one.                 *)
\* Gone, or queued at this height or later.
Late(R, id, height) == R.record[id] = None \/ Age(R.record[id]) >= height

\* Queued before this height.
Early(R, id, height) == R.record[id] # None /\ Age(R.record[id]) < height

LEMMA AgeOf ==
  ASSUME NEW r \in Record
  PROVE  /\ r.registered \in Nat /\ r.lastPaid \in Nat /\ r.revived \in Nat
         /\ Age(r) \in Nat
         /\ \A h \in Nat : r.registered <= h /\ r.lastPaid <= h /\ r.revived <= h => Age(r) <= h
         /\ \A h \in Nat \ {0} : r.lastPaid >= h \/ r.revived >= h => Age(r) >= h
         /\ r.lastPaid = 0 /\ r.revived = 0 => Age(r) = r.registered
<1>1. Heights \subseteq Nat /\ Heights \cup {0} \subseteq Nat
  BY RegistryAssumption DEF Heights
<1>2. r.registered \in Nat /\ r.lastPaid \in Nat /\ r.revived \in Nat
  <2>1. /\ r.registered \in Heights /\ r.lastPaid \in Heights \cup {0}
        /\ r.revived \in Heights \cup {0}
    BY DEF Record
  <2> QED BY <1>1, <2>1
<1> QED BY <1>2 DEF Age, Larger

LEMMA AgeSame ==
  ASSUME NEW r, NEW q, q.registered = r.registered, q.lastPaid = r.lastPaid, q.revived = r.revived
  PROVE  Age(q) = Age(r)
BY DEF Age

LEMMA RecordOf ==
  ASSUME NEW R, Sound(R), NEW id \in Txs, R.record[id] # None
  PROVE  R.record[id] \in Record /\ id \in Registered(R)
BY DEF Sound, RegistryOK, Registered

LEMMA PayQueue ==
  ASSUME NEW R, Sound(R), NEW h \in Heights, Sound(Pay(R, h)), NEW id \in Txs, NEW from \in Nat
  PROVE  /\ from <= h /\ Late(R, id, from) => Late(Pay(R, h), id, from)
         /\ id \in DOMAIN Reward(R, h) => Late(Pay(R, h), id, h)
         /\ id \notin DOMAIN Reward(R, h) /\ Early(R, id, from) => Early(Pay(R, h), id, from)
         /\ HasService(Pay(R, h), id) <=> HasService(R, id)
<1> DEFINE Q == Pay(R, h)
           q == Q.record[id]
           r == R.record[id]
<1>0. h \in Nat \ {0}
  BY DEF Heights
<1>1. \/ q = r /\ id \notin DOMAIN Reward(R, h)
      \/ /\ r \in Record /\ q = [r EXCEPT !.lastPaid = h]
         /\ id \in DOMAIN Reward(R, h)
  BY PaidRecords
<1>2. q # None => q \in Record
  BY RecordOf
<1>3. CASE q = r /\ id \notin DOMAIN Reward(R, h)
  BY <1>3 DEF Late, Early, HasService
<1>4. CASE /\ r \in Record /\ q = [r EXCEPT !.lastPaid = h]
           /\ id \in DOMAIN Reward(R, h)
  <2>1. q.lastPaid = h /\ q.revoked = r.revoked /\ q.service = r.service /\ q \in Record
    BY <1>4 DEF Record
  <2>2. Age(q) >= h /\ Age(q) \in Nat
    BY <1>0, <2>1, AgeOf
  <2>3. from <= h => Age(q) >= from
    <3> DEFINE age == Age(q)
    <3>1. age \in Nat /\ age >= h
      BY <2>2
    <3> HIDE DEF age
    <3>2. from <= h => age >= from
      BY <1>0, <3>1
    <3> QED BY <3>2 DEF age
  <2>4. q # None /\ r # None
    BY <1>4, <2>1, RegistryAssumption
  <2> QED BY <1>4, <2>1, <2>2, <2>3, <2>4 DEF Late, HasService
<1> QED BY <1>1, <1>3, <1>4

LEMMA QuietQueue ==
  ASSUME NEW R, Sound(R), NEW Q, Sound(Q), NEW h \in Heights, QuietStep(R, Q, h),
         NEW id \in Txs, NEW from \in Nat
  PROVE  /\ from <= h /\ Late(R, id, from) => Late(Q, id, from)
         /\ HasService(Q, id) /\ ~ HasService(R, id) => Late(Q, id, h)
         /\ HasService(R, id) /\ HasService(Q, id) /\ Early(R, id, from) => Early(Q, id, from)
<1> DEFINE q == Q.record[id]
           r == R.record[id]
<1>0. h \in Nat \ {0}
  BY DEF Heights
<1>1. CASE q = None
  BY <1>1 DEF Late, HasService
<1>2. CASE q # None
  <2>1. q \in Record /\ id \in Registered(Q)
    BY <1>2, RecordOf
  <2>2. \/ /\ r = None
           /\ q.registered = h /\ q.lastPaid = 0 /\ q.revived = 0
        \/ /\ r # None
           /\ q.registered = r.registered /\ q.lastPaid = r.lastPaid
           /\ q.revived = r.revived \/ (q.revived = h /\ r.service = None)
           /\ HasService(Q, id) /\ ~ HasService(R, id) => q.revived = h
    BY <2>1 DEF QuietStep
  <2>3. Age(q) \in Nat /\ \A g \in Nat : from <= g /\ Age(q) >= g => Age(q) >= from
    <3> DEFINE age == Age(q)
    <3>1. age \in Nat
      BY <2>1, AgeOf
    <3> HIDE DEF age
    <3>2. \A g \in Nat : from <= g /\ age >= g => age >= from
      BY <3>1
    <3> QED BY <3>1, <3>2 DEF age
  <2>4. CASE q.revived = h
    <3>0. q.revived \in Nat /\ q.revived >= h
      BY <1>0, <2>4
    <3>1. Age(q) >= h
      BY <1>0, <2>1, <3>0, AgeOf
    <3>2. HasService(R, id) => Age(q) = Age(r)
      <4>1. HasService(R, id) => q.registered = r.registered /\ q.lastPaid = r.lastPaid /\ q.revived = r.revived
        BY <2>2 DEF HasService
      <4> QED BY <4>1, AgeSame
    <3> QED BY <1>0, <1>2, <2>3, <3>1, <3>2 DEF Late, Early
  <2>5. CASE r = None /\ q.registered = h /\ q.lastPaid = 0 /\ q.revived = 0
    <3>1. Age(q) = h
      BY <2>1, <2>5, AgeOf
    <3>2. Age(q) >= h
      BY <1>0, <3>1
    <3> QED BY <1>0, <2>3, <2>5, <3>2 DEF Late, Early
  <2>6. CASE /\ r # None /\ q.revived # h
             /\ q.registered = r.registered /\ q.lastPaid = r.lastPaid /\ q.revived = r.revived
    <3>1. Age(q) = Age(r)
      BY <2>6, AgeSame
    <3>2. HasService(Q, id) /\ ~ HasService(R, id) => FALSE
      BY <2>2, <2>6
    <3> QED BY <1>2, <2>6, <3>1, <3>2 DEF Late, Early
  <2> QED BY <2>2, <2>4, <2>5, <2>6
<1> QED BY <1>1, <1>2

(* What is true of the first of a run of states, and moves on from each to *)
(* the next, is true of all of them; good is the set of those it is true   *)
(* of.                                                                     *)
LEMMA Climb ==
  ASSUME NEW a \in Nat, NEW b \in Nat, NEW good, a \in good,
         \A i \in a..(b - 1) : i \in good => i + 1 \in good
  PROVE  \A i \in a..b : i \in good
<1> DEFINE bad == {i \in a..b : i \notin good}
<1> SUFFICES ASSUME bad # {} PROVE FALSE
  OBVIOUS
<1>1. PICK i \in bad : \A j \in bad : i <= j
  <2>1. bad \subseteq Nat
    OBVIOUS
  <2> QED BY <2>1, LeastNat
<1>2. i \in a..b /\ i \notin good /\ i # a
  BY <1>1
<1>3. i - 1 \in a..(b - 1) /\ i - 1 \in a..b /\ (i - 1) + 1 = i
  BY <1>2
<1>4. i - 1 \in good
  <2>1. ~ (i <= i - 1)
    BY <1>2
  <2> QED BY <1>1, <1>3, <2>1
<1> QED BY <1>2, <1>3, <1>4

\* A block keeps whoever is late where it is, and behind all the block's
\* payments and new services.
LEMMA BlockLate ==
  ASSUME NEW states, NEW txs, NEW p, NEW n \in Nat, BaseHeight + n \in Heights,
         StepsOK(states, txs, BaseHeight + n), StepsInTurn(states, p, n),
         NEW id \in Txs, NEW from \in Nat, from <= BaseHeight + n,
         NEW j \in 1..Len(states), Late(states[j], id, from)
  PROVE  Late(Last(states), id, from)
<1> DEFINE m == Len(states)
           good == {i \in 1..m : Late(states[i], id, from)}
<1>1. m \in Nat /\ IsSeq(states) /\ Last(states) = states[m] /\ j \in Nat
  BY SeqFacts DEF StepsOK
<1>2. ASSUME NEW i \in j..(m - 1), i \in good
      PROVE  i + 1 \in good
  <2>1. i \in 1..m /\ i + 1 \in 1..m /\ Late(states[i], id, from)
    BY <1>1, <1>2
  <2>2. Sound(states[i]) /\ Sound(states[i + 1])
    BY <2>1 DEF StepsOK
  <2>3. CASE i = 1
    <3>1. m >= 2 /\ i + 1 = 2
      BY <1>1, <2>1, <2>3
    <3>2. states[i + 1] = Pay(states[i], BaseHeight + n)
      BY <2>3, <3>1 DEF StepsInTurn
    <3> QED BY <2>1, <2>2, <3>2, PayQueue
  <2>4. CASE i # 1
    <3>1. i \in 2..(m - 1)
      BY <1>1, <2>1, <2>4
    <3>2. QuietStep(states[i], states[i + 1], BaseHeight + n)
      BY <3>1 DEF StepsInTurn
    <3> QED BY <2>1, <2>2, <3>2, QuietQueue
  <2> QED BY <2>3, <2>4
<1>3. j \in good /\ m \in j..m
  BY <1>1
<1> HIDE DEF good, m
<1>4. m \in good
  BY <1>1, <1>2, <1>3, Climb
<1> QED BY <1>1, <1>4 DEF good

\* A block keeps whoever is early, in service all along and not paid.
LEMMA BlockEarly ==
  ASSUME NEW states, NEW txs, NEW p, NEW n \in Nat, BaseHeight + n \in Heights,
         StepsOK(states, txs, BaseHeight + n), StepsInTurn(states, p, n),
         NEW id \in Txs, NEW from \in Nat, Len(states) >= 1,
         \A i \in 1..Len(states) : HasService(states[i], id),
         id \notin DOMAIN Reward(states[1], BaseHeight + n),
         Early(states[1], id, from)
  PROVE  Early(Last(states), id, from)
<1> DEFINE m == Len(states)
           good == {i \in 1..m : Early(states[i], id, from)}
<1>1. m \in Nat /\ IsSeq(states) /\ Last(states) = states[m]
  BY SeqFacts DEF StepsOK
<1>2. ASSUME NEW i \in 1..(m - 1), i \in good
      PROVE  i + 1 \in good
  <2>1. i \in 1..m /\ i + 1 \in 1..m /\ Early(states[i], id, from)
    BY <1>1, <1>2
  <2>2. Sound(states[i]) /\ Sound(states[i + 1]) /\ HasService(states[i], id)
        /\ HasService(states[i + 1], id)
    BY <2>1 DEF StepsOK
  <2>3. CASE i = 1
    <3>1. m >= 2 /\ i + 1 = 2
      BY <1>1, <2>1, <2>3
    <3>2. states[i + 1] = Pay(states[i], BaseHeight + n)
      BY <2>3, <3>1 DEF StepsInTurn
    <3> QED BY <2>1, <2>2, <2>3, <3>2, PayQueue
  <2>4. CASE i # 1
    <3>1. i \in 2..(m - 1)
      BY <1>1, <2>1, <2>4
    <3>2. QuietStep(states[i], states[i + 1], BaseHeight + n)
      BY <3>1 DEF StepsInTurn
    <3> QED BY <2>1, <2>2, <3>2, QuietQueue
  <2> QED BY <2>3, <2>4
<1>3. 1 \in good /\ m \in 1..m
  BY <1>1
<1> HIDE DEF good, m
<1>4. m \in good
  BY <1>1, <1>2, <1>3, Climb
<1> QED BY <1>1, <1>4 DEF good

\* Whoever is paid by a block or whose service begins in it is behind everyone
\* who was in the queue before.
LEMMA BlockJoined ==
  ASSUME NEW states, NEW txs, NEW p, NEW n \in Nat, BaseHeight + n \in Heights,
         StepsOK(states, txs, BaseHeight + n), StepsInTurn(states, p, n), NEW id \in Txs,
         Len(states) >= 2,
         \/ id \in DOMAIN Reward(states[1], BaseHeight + n)
         \/ \E i \in 2..Len(states) : HasService(states[i], id) /\ ~ HasService(states[i - 1], id)
  PROVE  Late(Last(states), id, BaseHeight + n)
<1> DEFINE m == Len(states)
           h == BaseHeight + n
<1>1. m \in Nat /\ m >= 2 /\ h \in Nat /\ h <= h
  BY SeqFacts DEF StepsOK, Heights
<1>2. 1 \in 1..m /\ 2 \in 1..m
  BY <1>1
<1>3. Sound(states[1]) /\ Sound(states[2]) /\ states[2] = Pay(states[1], h)
  BY <1>2 DEF StepsOK, StepsInTurn
<1>4. CASE id \in DOMAIN Reward(states[1], h)
  <2>1. Late(states[2], id, h)
    BY <1>1, <1>3, <1>4, PayQueue
  <2> QED BY <1>1, <1>2, <2>1, BlockLate
<1>5. ASSUME NEW i \in 2..m, HasService(states[i], id), ~ HasService(states[i - 1], id)
      PROVE  Late(Last(states), id, h)
  <2>1. i # 2
    <3>1. HasService(states[2], id) <=> HasService(states[1], id)
      BY <1>1, <1>3, PayQueue
    <3> QED BY <1>5, <3>1
  <2>2. i - 1 \in 2..(m - 1) /\ i - 1 \in 1..m /\ i \in 1..m /\ (i - 1) + 1 = i
    BY <1>1, <2>1
  <2>3. QuietStep(states[i - 1], states[i], h) /\ Sound(states[i - 1]) /\ Sound(states[i])
    BY <2>2 DEF StepsInTurn, StepsOK
  <2>4. Late(states[i], id, h)
    BY <1>1, <1>5, <2>3, QuietQueue
  <2> QED BY <1>1, <2>2, <2>4, BlockLate
<1> QED BY <1>4, <1>5

\* What the past says of the n-th block, and the properties of its height.
LEMMA BlockOf ==
  ASSUME RInv, TInv, stage = "idle", NEW n \in 1..Len(chain)
  PROVE  /\ BaseHeight + n \in Heights
         /\ StepsOK(past[n], chain[n].txs, BaseHeight + n)
         /\ StepsInTurn(past[n], past, n)
         /\ Len(past[n]) \in Nat /\ Len(past[n]) >= 3 /\ DOMAIN past[n] = 1..Len(past[n])
         /\ past[n][1] = RegistryAt(past, n - 1) /\ Sound(past[n][1])
         /\ RegistryAt(past, n) = Last(past[n])
         /\ PaidAt(BaseHeight + n) = DOMAIN Reward(past[n][1], BaseHeight + n)
         /\ Payable(BaseHeight + n) = Candidates(past[n][1], BaseHeight + n)
<1>1. /\ PastIs(past, chain) /\ Typed /\ registry = RegistryAt(past, Len(chain))
      /\ Tip <= MaxHeight /\ Len(chain) \in Nat /\ BaseHeight \in Nat /\ BaseHeight > 0
      /\ IsSeq(chain[n].txs)
  BY Bounds, ChainAssumption DEF RInv, Typed, Heights
<1>2. BaseHeight + n \in Heights
  BY <1>1, RegistryAssumption DEF Heights, Tip
<1>3. /\ StepsOK(past[n], chain[n].txs, BaseHeight + n)
      /\ Len(past[n]) = Len(chain[n].txs) + 3
      /\ past[n][1] = RegistryAt(past, n - 1)
      /\ StepsInTurn(past[n], past, n)
  BY <1>1 DEF PastIs, TInv
<1>4. Len(past[n]) \in Nat /\ Len(past[n]) >= 3 /\ DOMAIN past[n] = 1..Len(past[n])
  <2> DEFINE m == Len(past[n])
             k == Len(chain[n].txs)
  <2>1. m = k + 3 /\ k \in Nat
    BY <1>1, <1>3, SeqFacts
  <2>2. DOMAIN past[n] = 1..m
    BY <1>3, SeqFacts DEF StepsOK
  <2> HIDE DEF m, k
  <2>3. m \in Nat /\ m >= 3
    BY <2>1
  <2> QED BY <2>2, <2>3 DEF m
<1>5. Sound(past[n][1])
  <2>1. 1 \in 1..Len(past[n])
    BY <1>4
  <2> QED BY <1>3, <2>1 DEF StepsOK
<1>6. RegistryAt(past, n) = Last(past[n])
  BY <1>1 DEF RegistryAt
<1>7. PaidAt(BaseHeight + n) = DOMAIN Reward(past[n][1], BaseHeight + n)
  BY <1>1, <1>3, TipInTurn DEF Booked, PaidAt
<1>8. TipRegistry((BaseHeight + n) - 1) = RegistryAt(past, n - 1)
  <2>1. /\ ((BaseHeight + n) - 1) - BaseHeight = n - 1
        /\ (BaseHeight + n) - 1 = BaseHeight <=> n - 1 = 0
    BY <1>1
  <2> QED BY <2>1 DEF TipRegistry, RegistryAt
<1> QED BY <1>2, <1>3, <1>4, <1>5, <1>6, <1>7, <1>8 DEF Payable

LEMMA TurnTaken == RInv /\ TInv => PaidInTurn
<1> SUFFICES ASSUME RInv, TInv, stage = "idle",
                    NEW first \in (BaseHeight + 1)..Tip, NEW last \in (BaseHeight + 1)..Tip,
                    NEW id \in PaidAt(last), first < last, Joined(id, first),
                    NEW other \in Payable(first) \ {id}, Waited(other, first, last),
                    \A height \in first..(last - 1) : other \notin PaidAt(height)
             PROVE  FALSE
  BY DEF PaidInTurn
<1> DEFINE F == first - BaseHeight
           L == last - BaseHeight
           N == Len(chain)
<1>1. N \in Nat /\ BaseHeight \in Nat /\ Tip = BaseHeight + N
  BY Bounds DEF RInv, Tip
<1>2. /\ F \in 1..N /\ L \in 1..N /\ F <= L - 1 /\ F - 1 \in Nat /\ L - 1 \in Nat
      /\ F \in Nat /\ L - 1 \in 1..N
      /\ BaseHeight + F = first /\ BaseHeight + L = last
      /\ first \in Nat \ {0} /\ last \in Nat
      /\ BaseHeight + (F - 1) \in Nat /\ BaseHeight + (F - 1) < first
  BY <1>1
<1>3. \A k \in F..(L - 1) :
        /\ k \in 1..N /\ k \in Nat /\ first <= BaseHeight + k /\ BaseHeight + k \in first..(last - 1)
        /\ (BaseHeight + k) - BaseHeight = k
  BY <1>1, <1>2
<1> HIDE DEF F, L, N
<1>4. first - BaseHeight = F
  BY DEF F
<1>5. id \in Txs /\ other \in Txs
  <2>1. \A R, h : Candidates(R, h) \subseteq Txs
    BY DEF Candidates, Registered
  <2>2. Sound(past[L][1]) /\ id \in DOMAIN Reward(past[L][1], last)
    BY <1>2, BlockOf DEF N
  <2>3. RegistryOK(past[L][1])
    BY <2>2 DEF Sound
  <2>4. id = FindPayee(past[L][1], last) /\ id # None
    BY <2>2 DEF Reward, Nobody
  <2>5. id \in Txs
    BY <2>1, <2>3, <2>4, PayeeIsCandidate
  <2>6. Payable(first) = Candidates(past[F][1], first)
    BY <1>2, BlockOf DEF N
  <2> QED BY <2>1, <2>5, <2>6
<1>6. \A k \in F..(L - 1) : Late(RegistryAt(past, k), id, first)
  <2> DEFINE good == {k \in F..(L - 1) : Late(RegistryAt(past, k), id, first)}
  <2>1. F \in good
    <3>1. /\ BaseHeight + F \in Heights
          /\ StepsOK(past[F], chain[F].txs, BaseHeight + F)
          /\ StepsInTurn(past[F], past, F)
          /\ Len(past[F]) \in Nat /\ Len(past[F]) >= 3
          /\ RegistryAt(past, F) = Last(past[F])
          /\ PaidAt(first) = DOMAIN Reward(past[F][1], BaseHeight + F)
      BY <1>2, BlockOf DEF N
    <3>2. \/ id \in DOMAIN Reward(past[F][1], BaseHeight + F)
          \/ \E i \in 2..Len(past[F]) : HasService(past[F][i], id) /\ ~ HasService(past[F][i - 1], id)
      BY <1>4, <3>1 DEF Joined
    <3>3. Len(past[F]) >= 2
      BY <3>1
    <3>4. Late(Last(past[F]), id, BaseHeight + F)
      BY <1>2, <1>5, <3>1, <3>2, <3>3, BlockJoined
    <3>5. F \in F..(L - 1)
      BY <1>2
    <3> QED BY <1>2, <3>1, <3>4, <3>5
  <2>2. ASSUME NEW k \in F..((L - 1) - 1), k \in good
        PROVE  k + 1 \in good
    <3>1. k + 1 \in F..(L - 1) /\ (k + 1) - 1 = k
      BY <1>2
    <3> DEFINE n == k + 1
    <3>2. n \in 1..N /\ n \in Nat /\ first <= BaseHeight + n /\ n \in F..(L - 1) /\ n - 1 = k
      BY <1>3, <3>1
    <3>3. Late(RegistryAt(past, k), id, first)
      BY <2>2
    <3> HIDE DEF n
    <3>4. /\ BaseHeight + n \in Heights
          /\ StepsOK(past[n], chain[n].txs, BaseHeight + n)
          /\ StepsInTurn(past[n], past, n)
          /\ Len(past[n]) \in Nat /\ Len(past[n]) >= 3
          /\ past[n][1] = RegistryAt(past, n - 1)
          /\ RegistryAt(past, n) = Last(past[n])
      BY <3>2, BlockOf DEF N
    <3>5. 1 \in 1..Len(past[n]) /\ Late(past[n][1], id, first)
      BY <3>2, <3>3, <3>4
    <3>6. Late(Last(past[n]), id, first)
      BY <1>2, <1>5, <3>2, <3>4, <3>5, BlockLate
    <3> QED BY <3>2, <3>4, <3>6 DEF n
  <2> HIDE DEF good
  <2>3. \A k \in F..(L - 1) : k \in good
    BY <1>2, <2>1, <2>2, Climb
  <2> QED BY <2>3 DEF good
<1>7. ASSUME NEW n \in F..(L - 1), Early(past[n][1], other, first)
      PROVE  Early(RegistryAt(past, n), other, first)
  <2>1. n \in 1..N /\ n \in Nat /\ BaseHeight + n \in first..(last - 1)
        /\ (BaseHeight + n) - BaseHeight = n
    BY <1>3
  <2>2. /\ BaseHeight + n \in Heights
        /\ StepsOK(past[n], chain[n].txs, BaseHeight + n)
        /\ StepsInTurn(past[n], past, n)
        /\ Len(past[n]) \in Nat /\ Len(past[n]) >= 3 /\ DOMAIN past[n] = 1..Len(past[n])
        /\ RegistryAt(past, n) = Last(past[n])
        /\ PaidAt(BaseHeight + n) = DOMAIN Reward(past[n][1], BaseHeight + n)
    BY <2>1, BlockOf DEF N
  <2>3. \A i \in 1..Len(past[n]) : HasService(past[n][i], other)
    <3>1. \A i \in 1..Len(past[n]) : past[n][i] \in ToSet(past[n])
      BY <2>2 DEF ToSet
    <3> QED BY <2>1, <3>1 DEF Waited
  <2>4. other \notin DOMAIN Reward(past[n][1], BaseHeight + n) /\ Len(past[n]) >= 1
    BY <2>1, <2>2
  <2> QED BY <1>2, <1>5, <1>7, <2>1, <2>2, <2>3, <2>4, BlockEarly
<1>8. Early(past[F][1], other, first)
  <2>1. /\ Sound(past[F][1]) /\ Len(past[F]) \in Nat /\ Len(past[F]) >= 3
        /\ StepsInTurn(past[F], past, F)
        /\ Payable(first) = Candidates(past[F][1], first)
    BY <1>2, BlockOf DEF N
  <2>2. other \in Registered(past[F][1])
    BY <2>1 DEF Candidates
  <2>3. 1 \in 1..Len(past[F])
    BY <2>1
  <2>4. JoinedBy(past[F][1], BaseHeight + (F - 1))
    BY <2>1, <2>3 DEF StepsInTurn
  <2> DEFINE r == past[F][1].record[other]
             g == BaseHeight + (F - 1)
  <2>5. r # None /\ r \in Record /\ r.registered <= g /\ r.lastPaid <= g /\ r.revived <= g
    BY <2>1, <2>2, <2>4, RecordOf DEF JoinedBy, Registered
  <2>6. Age(r) \in Nat /\ Age(r) <= g
    BY <1>2, <2>5, AgeOf
  <2>7. Age(r) < first
    <3> DEFINE age == Age(r)
    <3>1. age \in Nat /\ age <= g /\ g \in Nat /\ g < first
      BY <1>2, <2>6
    <3> HIDE DEF age, g
    <3>2. age < first
      BY <1>2, <3>1
    <3> QED BY <3>2 DEF age
  <2> QED BY <2>5, <2>7 DEF Early
<1>9. \A k \in F..(L - 1) : Early(RegistryAt(past, k), other, first)
  <2> DEFINE good == {k \in F..(L - 1) : Early(RegistryAt(past, k), other, first)}
  <2>1. F \in good
    <3>1. F \in F..(L - 1)
      BY <1>2
    <3> QED BY <1>7, <1>8, <3>1
  <2>2. ASSUME NEW k \in F..((L - 1) - 1), k \in good
        PROVE  k + 1 \in good
    <3> DEFINE n == k + 1
    <3>1. n \in F..(L - 1) /\ n - 1 = k
      BY <1>2
    <3>2. Early(RegistryAt(past, k), other, first)
      BY <2>2
    <3> HIDE DEF n
    <3>3. past[n][1] = RegistryAt(past, n - 1)
      BY <1>3, <3>1, BlockOf DEF N
    <3> QED BY <1>7, <3>1, <3>2, <3>3 DEF n
  <2> HIDE DEF good
  <2>3. \A k \in F..(L - 1) : k \in good
    BY <1>2, <2>1, <2>2, Climb
  <2> QED BY <2>3 DEF good
<1>10. QED
  <2> DEFINE R == past[L][1]
  <2>1. /\ R = RegistryAt(past, L - 1) /\ Sound(R)
        /\ PaidAt(last) = DOMAIN Reward(R, last)
        /\ Payable(last) = Candidates(R, last)
    BY <1>2, BlockOf DEF N
  <2>2. L - 1 \in F..(L - 1)
    BY <1>2
  <2>3. Late(R, id, first) /\ Early(R, other, first)
    BY <1>6, <1>9, <2>1, <2>2
  <2> HIDE DEF R
  <2>4. id = FindPayee(R, last) /\ id # None
    BY <2>1 DEF Reward, Nobody
  <2>5. other \in Candidates(R, last) \ {id}
    BY <2>1 DEF Waited
  <2>6. id \in Candidates(R, last) /\ Before(R, id, other)
    BY <2>1, <2>4, <2>5, PayeeIsCandidate DEF Sound
  <2>7. R.record[id] # None /\ R.record[other] # None
    BY <2>5, <2>6 DEF Candidates, Registered
  <2>8. Age(R.record[id]) \in Nat /\ Age(R.record[other]) \in Nat
    BY <1>5, <2>1, <2>7, RecordOf, AgeOf
  <2>9. Age(R.record[id]) >= first /\ Age(R.record[other]) < first
    BY <2>3, <2>7 DEF Late, Early
  <2>10. \/ Age(R.record[id]) < Age(R.record[other])
         \/ Age(R.record[id]) = Age(R.record[other])
    BY <2>6 DEF Before
  <2> QED BY <1>2, <2>8, <2>9, <2>10

(* Nobody is paid before a registration that was already waiting when it   *)
(* joined the end of the queue.                                            *)
THEOREM PaidInOrder == Spec => []PaidInTurn
BY TInvHolds, TurnTaken, PTL
=============================================================================
