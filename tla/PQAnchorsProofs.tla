-------------------------- MODULE PQAnchorsProofs --------------------------
(***************************************************************************)
(* Saved anchors are kept, and chain state and its mirror agree with them, *)
(* for every tree of blocks, whatever certificates they carry, wherever    *)
(* finality ends and administrators approve a checkpoint beyond.           *)
(*                                                                         *)
(* The invariant is stated with operators on values, not on variables, so  *)
(* that memory, the flushed image and the state after a step are all       *)
(* arguments to the same lemmas.                                           *)
(***************************************************************************)
EXTENDS PQAnchors, SequenceTheorems, FiniteSetTheorems, WellFoundedInduction, TLAPS

Nodes == Blocks \cup {Root}

-----------------------------------------------------------------------------
(* Numbers.                                                                *)
LEMMA LeastNat ==
  ASSUME NEW S, S \subseteq Nat, S # {}
  PROVE  \E n \in S : \A m \in S : n <= m
<1>1. PICK n \in S : \A m \in S : <<m, n>> \notin OpToRel(<, Nat)
  BY NatLessThanWellFounded, WFMin
<1>2. \A m \in S : ~ (m < n)
  <2> SUFFICES ASSUME NEW m \in S, m < n PROVE FALSE
    OBVIOUS
  <2>1. <<m, n>> \in Nat \X Nat
    OBVIOUS
  <2>2. <<m, n>> \in OpToRel(<, Nat)
    BY <2>1 DEF OpToRel
  <2> QED BY <1>1, <2>2
<1> QED BY <1>2

LEMMA MaxOfNats ==
  ASSUME NEW S, NEW m \in Nat, S \subseteq 0..m, S # {}
  PROVE  Max(S) \in S /\ \A x \in S : x <= Max(S)
<1> DEFINE D == {m - n : n \in S}
<1>1. D \subseteq Nat /\ D # {}
  <2>1. \A n \in S : m - n \in Nat
    OBVIOUS
  <2> QED BY <2>1
<1> HIDE DEF D
<1>2. PICK d \in D : \A e \in D : d <= e
  BY <1>1, LeastNat
<1>3. PICK x \in S : d = m - x
  BY <1>2 DEF D
<1>4. \A y \in S : x >= y
  <2> SUFFICES ASSUME NEW y \in S PROVE x >= y
    OBVIOUS
  <2>1. m - x <= m - y
    BY <1>2, <1>3 DEF D
  <2> QED BY <1>3, <2>1
<1>5. Max(S) \in S /\ \A y \in S : Max(S) >= y
  BY <1>3, <1>4 DEF Max
<1> QED BY <1>5

LEMMA Max0OfNats ==
  ASSUME NEW S, NEW m \in Nat, S \subseteq 0..m
  PROVE  Max0(S) \in S \cup {0} /\ \A x \in S : x <= Max0(S)
BY MaxOfNats, S \cup {0} \subseteq 0..m DEF Max0

-----------------------------------------------------------------------------
(* The tree of blocks.                                                     *)
LEMMA BlockCount == Cardinality(Blocks) \in Nat
BY TreeAssumption, FS_CardinalityType

LEMMA ChainFacts ==
  ASSUME NEW b \in Nodes
  PROVE  /\ ChainOf[b] \in Seq(Blocks)
         /\ Height(b) \in 0..Cardinality(Blocks)
         /\ ToSet(ChainOf[b]) = {FinalityAncestor(b, h) : h \in 1..Height(b)}
<1>1. ChainOf[b] \in Seq(Blocks)
  BY ChainAssumption DEF Nodes
<1>2. Height(b) \in Nat /\ DOMAIN ChainOf[b] = 1..Height(b)
  BY <1>1, LenProperties DEF Height
<1>3. Height(b) <= Cardinality(Blocks)
  BY ChainAssumption, BlockCount, EmptySeq DEF Nodes, Height
<1> QED BY <1>1, <1>2, <1>3, BlockCount DEF ToSet, FinalityAncestor

LEMMA ParentFacts ==
  ASSUME NEW b \in Blocks
  PROVE  /\ Parent[b] \in Nodes
         /\ Height(b) = Height(Parent[b]) + 1
         /\ FinalityAncestor(b, Height(b)) = b
         /\ \A h \in 1..Height(Parent[b]) :
              FinalityAncestor(b, h) = FinalityAncestor(Parent[b], h)
<1>1. Parent[b] \in Nodes
  BY TreeAssumption DEF Nodes
<1>2. ChainOf[Parent[b]] \in Seq(Blocks) /\ ChainOf[b] = Append(ChainOf[Parent[b]], b)
  BY <1>1, ChainFacts, ChainAssumption
<1> QED BY <1>1, <1>2, AppendProperties DEF Height, FinalityAncestor

LEMMA RootHeight == Height(Root) = 0 /\ Root \in Nodes
BY ChainAssumption, EmptySeq DEF Height, Nodes

LEMMA AncestorFacts ==
  ASSUME NEW b \in Nodes, NEW h \in 1..Height(b)
  PROVE  /\ FinalityAncestor(b, h) \in Blocks
         /\ Height(FinalityAncestor(b, h)) = h
         /\ \A k \in 1..h :
              FinalityAncestor(FinalityAncestor(b, h), k) = FinalityAncestor(b, k)
<1>1. b \in Blocks
  BY RootHeight DEF Nodes
<1>2. ChainOf[b] \in Seq(Blocks) /\ Height(b) \in Nat /\ Height(b) = Len(ChainOf[b])
  BY ChainFacts DEF Height
<1>3. FinalityAncestor(b, h) \in Blocks
  BY <1>2, ElementOfSeq DEF FinalityAncestor
<1>4. ChainOf[FinalityAncestor(b, h)] = SubSeq(ChainOf[b], 1, h)
  BY <1>1, ChainAssumption
<1>5. \A i \in 1..h : ChainOf[b][i] \in Blocks
  BY <1>2, ElementOfSeq
<1>6. /\ Len(SubSeq(ChainOf[b], 1, h)) = h
      /\ \A k \in 1..h : SubSeq(ChainOf[b], 1, h)[k] = ChainOf[b][k]
  BY <1>2, <1>5, SubSeqProperties
<1> QED BY <1>3, <1>4, <1>6 DEF Height, FinalityAncestor

(* A block is on a chain at its height, and only there.                    *)
LEMMA OnFacts ==
  ASSUME NEW b \in Nodes, NEW t \in Nodes
  PROVE  /\ Height(b) \in Nat /\ Height(t) \in Nat
         /\ On(b, t) <=> \/ b = Root
                         \/ /\ b \in Blocks /\ Height(b) \in 1..Height(t)
                            /\ FinalityAncestor(t, Height(b)) = b
         /\ b = Root <=> Height(b) = 0
<1>1. Height(b) \in Nat /\ Height(t) \in Nat
  BY ChainFacts, BlockCount
<1>2. b = Root <=> Height(b) = 0
  <2>1. CASE b \in Blocks
    <3>1. Parent[b] \in Nodes /\ Height(b) = Height(Parent[b]) + 1
      BY <2>1, ParentFacts
    <3>2. Height(Parent[b]) \in Nat
      BY <3>1, ChainFacts, BlockCount
    <3> QED BY <2>1, <3>1, <3>2, TreeAssumption
  <2> QED BY <2>1, RootHeight DEF Nodes
<1>3. ASSUME b # Root
      PROVE  b \in ToSet(ChainOf[t]) <=>
               /\ b \in Blocks /\ Height(b) \in 1..Height(t)
               /\ FinalityAncestor(t, Height(b)) = b
  <2>1. b \in ToSet(ChainOf[t]) <=> \E h \in 1..Height(t) : FinalityAncestor(t, h) = b
    BY ChainFacts
  <2>2. \A h \in 1..Height(t) : FinalityAncestor(t, h) = b => Height(b) = h
    BY AncestorFacts
  <2> QED BY <1>3, <2>1, <2>2 DEF Nodes
<1> QED BY <1>1, <1>2, <1>3 DEF On

LEMMA OnSelf == \A t \in Nodes : On(t, t) /\ On(Root, t)
<1> SUFFICES ASSUME NEW t \in Nodes PROVE On(t, t) /\ On(Root, t)
  OBVIOUS
<1>1. CASE t = Root
  BY <1>1 DEF On
<1>2. CASE t \in Blocks
  <2>1. Height(t) # 0 /\ Height(t) \in Nat
    BY <1>2, OnFacts, TreeAssumption
  <2> QED BY <1>2, <2>1, OnFacts, RootHeight, ParentFacts DEF On
<1> QED BY <1>1, <1>2 DEF Nodes

LEMMA OnTransitive ==
  ASSUME NEW a \in Nodes, NEW b \in Nodes, NEW t \in Nodes, On(a, b), On(b, t)
  PROVE  On(a, t)
<1>1. CASE b = Root
  <2>1. a = Root
    BY <1>1, OnFacts, RootHeight
  <2> QED BY <2>1, OnSelf
<1>2. CASE b # Root
  <2>1. b \in Blocks /\ Height(b) \in 1..Height(t) /\ FinalityAncestor(t, Height(b)) = b
    BY <1>2, OnFacts
  <2>2. \A k \in 1..Height(b) : FinalityAncestor(b, k) = FinalityAncestor(t, k)
    BY <2>1, AncestorFacts
  <2> QED BY <2>1, <2>2, OnFacts
<1> QED BY <1>1, <1>2

(* Of two blocks of a chain the lower is on the chain of the higher.       *)
LEMMA OnSameChain ==
  ASSUME NEW a \in Nodes, NEW b \in Nodes, NEW t \in Nodes, On(a, t), On(b, t),
         Height(a) <= Height(b)
  PROVE  On(a, b) /\ (Height(a) = Height(b) => a = b)
<1>1. CASE a = Root
  BY <1>1, OnSelf, OnFacts, RootHeight
<1>2. CASE a # Root
  <2>1. /\ a \in Blocks /\ Height(a) \in 1..Height(t) /\ FinalityAncestor(t, Height(a)) = a
        /\ b \in Blocks /\ Height(b) \in 1..Height(t) /\ FinalityAncestor(t, Height(b)) = b
    BY <1>2, OnFacts
  <2>2. FinalityAncestor(b, Height(a)) = FinalityAncestor(t, Height(a))
    BY <2>1, AncestorFacts
  <2> QED BY <2>1, <2>2, OnFacts
<1> QED BY <1>1, <1>2

LEMMA OnParent ==
  ASSUME NEW b \in Blocks, NEW a \in Nodes
  PROVE  /\ On(a, b) <=> a = b \/ On(a, Parent[b])
         /\ ~ On(b, Parent[b])
<1>1. b \in Nodes /\ b # Root
  BY TreeAssumption DEF Nodes
<1>2. Parent[b] \in Nodes /\ Height(Parent[b]) \in Nat /\ Height(b) = Height(Parent[b]) + 1
  BY ParentFacts, ChainFacts, BlockCount
<1>3. CASE a = Root
  BY <1>1, <1>2, <1>3, OnFacts, OnSelf
<1>4. CASE a # Root
  <2>1. a \in Blocks /\ Height(a) \in Nat \ {0}
    BY <1>4, OnFacts, ChainFacts, BlockCount DEF Nodes
  <2>2. CASE Height(a) <= Height(Parent[b])
    BY <1>1, <1>2, <1>4, <2>1, <2>2, OnFacts, ParentFacts
  <2>3. CASE Height(a) = Height(b)
    BY <1>1, <1>2, <1>4, <2>1, <2>3, OnFacts, ParentFacts
  <2>4. CASE Height(a) > Height(b)
    BY <1>1, <1>2, <1>4, <2>1, <2>4, OnFacts
  <2> QED BY <1>2, <2>1, <2>2, <2>3, <2>4
<1> QED BY <1>1, <1>2, <1>3, <1>4, OnFacts

(* The next block from one of a chain towards its tip.                     *)
LEMMA NextOnChain ==
  ASSUME NEW a \in Nodes, NEW t \in Nodes, On(a, t), a # t
  PROVE  LET n == FinalityAncestor(t, Height(a) + 1)
         IN  n \in Blocks /\ Parent[n] = a /\ On(n, t)
<1> DEFINE n == FinalityAncestor(t, Height(a) + 1)
<1>1. Height(a) \in Nat /\ Height(t) \in Nat /\ Height(a) < Height(t)
  <2>1. Height(a) \in Nat /\ Height(t) \in Nat
    BY OnFacts
  <2>2. ~ Height(t) <= Height(a)
    BY <2>1, OnSameChain, OnSelf, OnFacts
  <2> QED BY <2>1, <2>2
<1>2. /\ n \in Blocks /\ Height(n) = Height(a) + 1
      /\ \A k \in 1..(Height(a) + 1) : FinalityAncestor(n, k) = FinalityAncestor(t, k)
  BY <1>1, AncestorFacts
<1>3. On(n, t)
  BY <1>1, <1>2, OnFacts DEF Nodes
<1>4. Parent[n] \in Nodes /\ Height(Parent[n]) = Height(a) /\ On(Parent[n], n)
  <2>1. Parent[n] \in Nodes /\ Height(Parent[n]) \in Nat /\ Height(n) = Height(Parent[n]) + 1
    BY <1>2, ParentFacts, ChainFacts, BlockCount
  <2> QED BY <1>1, <1>2, <2>1, OnParent, OnSelf
<1>5. On(Parent[n], t)
  BY <1>2, <1>3, <1>4, OnTransitive DEF Nodes
<1>6. Parent[n] = a
  BY <1>1, <1>4, <1>5, OnSameChain
<1> QED BY <1>2, <1>3, <1>6

LEMMA HeightRange ==
  /\ \E m \in Nat : Heights = 1..m
  /\ \A b \in Blocks : Height(b) \in Heights
<1> DEFINE S == {Height(b) : b \in Blocks}
<1>1. S \subseteq 0..Cardinality(Blocks)
  BY ChainFacts DEF Nodes
<1>2. Max0(S) \in S \cup {0} /\ \A x \in S : x <= Max0(S)
  BY <1>1, BlockCount, Max0OfNats
<1>3. Max0(S) \in Nat
  BY <1>1, <1>2, BlockCount
<1>4. \A b \in Blocks : Height(b) \in Nat \ {0}
  BY OnFacts, TreeAssumption DEF Nodes
<1>5. Heights = 1..Max0(S)
  BY DEF Heights
<1> HIDE DEF S
<1>6. \A b \in Blocks : Height(b) \in 1..Max0(S)
  <2> SUFFICES ASSUME NEW b \in Blocks PROVE Height(b) \in 1..Max0(S)
    OBVIOUS
  <2>1. Height(b) \in S
    BY DEF S
  <2> QED BY <1>2, <1>3, <1>4, <2>1
<1> QED BY <1>3, <1>5, <1>6

-----------------------------------------------------------------------------
(* What is certified and saved, as functions c and s on heights, with the  *)
(* approved checkpoint r or None.                                          *)
Slots == [Heights -> Blocks \cup {None}]
TopHeight(s) == Max0({h \in Heights : s[h] # None})
Top(s) == IF TopHeight(s) = 0 THEN Root ELSE s[TopHeight(s)]
Marker(r, s) == r # None /\ s[Height(r)] = r

DeadEnd(r, c) ==
  \E h \in 0..(Height(r) - 2) :
    /\ h > 0 => c[h] = FinalityAncestor(r, h)
    /\ FinalityAncestor(r, h + 1) \in Empty

Checkpoint(r) ==
  /\ r \in Blocks \cup {None}
  /\ r # None => \E h \in 1..(Height(r) - 1) : FinalityAncestor(r, h) \in Empty

(* A certified block is above the checkpoint or has no dead end below it.  *)
CertifiedOK(c, r) ==
  /\ c \in Slots
  /\ \A h \in Heights : c[h] # None =>
       /\ Height(c[h]) = h
       /\ \/ r # None /\ On(r, c[h]) /\ Height(r) < h
          \/ \A k \in 1..(h - 1) : FinalityAncestor(c[h], k) \notin Empty

(* The saved anchors are on one chain.                                     *)
SavedOK(s, c, r) ==
  /\ s \in Slots
  /\ \A h \in Heights : s[h] \in {None, c[h], r}
  /\ \A h \in Heights : s[h] # None => Height(s[h]) = h /\ On(s[h], Top(s))
  /\ Marker(r, s) => DeadEnd(r, c)

With(s, b) == [s EXCEPT ![Height(b)] = b]
Above(b, s) == Height(b) > TopHeight(s)

(* An anchor is saved above the others, on a block that has them on its    *)
(* chain, or it is there already.                                          *)
Savable(b, s) == (Above(b, s) /\ On(Top(s), b)) \/ s[Height(b)] = b
Justified(b, c, r) == c[Height(b)] = b \/ (b = r /\ DeadEnd(r, c))

LEMMA TopFacts ==
  ASSUME NEW s \in Slots
  PROVE  /\ TopHeight(s) \in Nat
         /\ TopHeight(s) # 0 => TopHeight(s) \in Heights /\ s[TopHeight(s)] # None
         /\ \A h \in Heights : s[h] # None => h <= TopHeight(s)
<1>1. PICK m \in Nat : Heights = 1..m
  BY HeightRange
<1> DEFINE S == {h \in Heights : s[h] # None}
<1>2. S \subseteq 0..m
  BY <1>1
<1>3. Max0(S) \in S \cup {0} /\ \A x \in S : x <= Max0(S)
  BY <1>2, Max0OfNats
<1>4. TopHeight(s) = Max0(S)
  BY DEF TopHeight
<1> QED BY <1>1, <1>3, <1>4

LEMMA TopBlock ==
  ASSUME NEW c, NEW r, NEW s, SavedOK(s, c, r)
  PROVE  Top(s) \in Nodes /\ Height(Top(s)) = TopHeight(s)
<1>1. CASE TopHeight(s) = 0
  BY <1>1, RootHeight DEF Top
<1>2. CASE TopHeight(s) # 0
  BY <1>2, TopFacts DEF Top, SavedOK, Slots, Nodes
<1> QED BY <1>1, <1>2

LEMMA CheckpointNotCertified ==
  ASSUME NEW c, NEW r, CertifiedOK(c, r), Checkpoint(r), r # None
  PROVE  \A h \in Heights : c[h] # r
<1> SUFFICES ASSUME NEW h \in Heights, c[h] = r PROVE FALSE
  OBVIOUS
<1>1. Height(r) = h /\ h \in Nat
  BY HeightRange DEF CertifiedOK
<1>2. \A k \in 1..(h - 1) : FinalityAncestor(r, k) \notin Empty
  BY <1>1 DEF CertifiedOK
<1> QED BY <1>1, <1>2 DEF Checkpoint

LEMMA SaveAnchor ==
  ASSUME NEW c, NEW r, NEW s, NEW s2, NEW b \in Blocks,
         s2 = With(s, b),
         SavedOK(s, c, r), CertifiedOK(c, r), Checkpoint(r),
         Justified(b, c, r), Savable(b, s)
  PROVE  /\ SavedOK(s2, c, r)
         /\ \A h \in Heights : s[h] # None => s2[h] = s[h]
         /\ Marker(r, s2) <=> Marker(r, s) \/ b = r
         /\ TopHeight(s2) >= TopHeight(s)
         /\ Above(b, s) => Top(s2) = b
         /\ ~ Above(b, s) => Top(s2) = Top(s)
<1>1. Height(b) \in Heights /\ Height(b) \in Nat \ {0}
  BY HeightRange
<1>2. s2 \in Slots /\ s2[Height(b)] = b /\ \A h \in Heights \ {Height(b)} : s2[h] = s[h]
  BY <1>1 DEF SavedOK, Slots, With
<1>a. b # None
  BY TreeAssumption
<1>b. Marker(r, s2) <=> Marker(r, s) \/ b = r
  <2>1. CASE r = None
    BY <2>1, <1>a DEF Marker
  <2>2. CASE r # None
    <3>1. r \in Blocks /\ Height(r) \in Heights
      BY <2>2, HeightRange DEF Checkpoint
    <3>2. CASE Height(r) = Height(b)
      <4>1. Marker(r, s) => b = r
        <5> SUFFICES ASSUME Marker(r, s), b # r PROVE FALSE
          OBVIOUS
        <5>1. s[Height(b)] # None /\ s[Height(b)] # b
          BY <2>2, <3>2 DEF Marker
        <5>2. Height(b) > TopHeight(s) /\ TopHeight(s) \in Nat
          BY <5>1, TopFacts DEF SavedOK, Savable, Above
        <5> QED BY <1>1, <5>1, <5>2, TopFacts DEF SavedOK
      <4> QED BY <1>2, <2>2, <3>2, <4>1 DEF Marker
    <3>3. CASE Height(r) # Height(b)
      BY <1>2, <2>2, <3>1, <3>3 DEF Marker
    <3> QED BY <3>2, <3>3
  <2> QED BY <2>1, <2>2
<1>c. \A h \in Heights : s2[h] \in {None, c[h], r}
  BY <1>1, <1>2 DEF SavedOK, Justified
<1>d. Marker(r, s2) => DeadEnd(r, c)
  <2>1. b = r => DeadEnd(r, c)
    BY <1>1, <1>a, CheckpointNotCertified DEF Justified
  <2> QED BY <1>b, <2>1 DEF SavedOK
<1>3. CASE s[Height(b)] = b
  <2>1. s2 = s
    BY <1>1, <1>3 DEF SavedOK, Slots, With
  <2>2. Height(b) <= TopHeight(s) /\ TopHeight(s) \in Nat
    BY <1>1, <1>3, <1>a, TopFacts DEF SavedOK
  <2> QED BY <1>1, <1>b, <2>1, <2>2 DEF Above
<1>4. CASE Height(b) > TopHeight(s) /\ On(Top(s), b)
  <2>0. TopHeight(s) \in Nat
    BY TopFacts DEF SavedOK
  <2>1. TopHeight(s2) = Height(b)
    <3>1. /\ TopHeight(s2) \in Nat
          /\ TopHeight(s2) # 0 => TopHeight(s2) \in Heights /\ s2[TopHeight(s2)] # None
          /\ Height(b) <= TopHeight(s2)
      BY <1>1, <1>2, <1>a, TopFacts
    <3>2. TopHeight(s2) # Height(b) => s[TopHeight(s2)] # None /\ TopHeight(s2) \in Heights
      BY <1>1, <1>2, <3>1
    <3>3. TopHeight(s2) # Height(b) => TopHeight(s2) <= TopHeight(s)
      BY <3>2, TopFacts DEF SavedOK
    <3> QED BY <1>1, <1>4, <2>0, <3>1, <3>3
  <2>2. Top(s2) = b
    BY <1>1, <1>2, <2>1 DEF Top
  <2>3. s[Height(b)] = None
    BY <1>1, <1>4, <2>0, TopFacts DEF SavedOK
  <2>4. ASSUME NEW h \in Heights, s2[h] # None
        PROVE  Height(s2[h]) = h /\ On(s2[h], b)
    <3>1. CASE h = Height(b)
      BY <1>2, <3>1, OnSelf DEF Nodes
    <3>2. CASE h # Height(b)
      <4>1. s2[h] = s[h] /\ s[h] \in Blocks /\ Height(s[h]) = h /\ On(s[h], Top(s))
        BY <1>2, <2>4, <3>2 DEF SavedOK, Slots
      <4> QED BY <1>4, <4>1, TopBlock, OnTransitive DEF Nodes
    <3> QED BY <3>1, <3>2
  <2>5. SavedOK(s2, c, r)
    BY <1>2, <1>c, <1>d, <2>2, <2>4 DEF SavedOK
  <2>6. \A h \in Heights : s[h] # None => s2[h] = s[h]
    BY <1>2, <2>3
  <2> QED BY <1>1, <1>4, <1>b, <2>0, <2>1, <2>2, <2>5, <2>6 DEF Above
<1> QED BY <1>3, <1>4 DEF Savable, Above

-----------------------------------------------------------------------------
(* The mirror m of the chain up to t, with the checkpoint r in it only if  *)
(* s has it saved, in a world that has certified c.                        *)
Anchors == [height : Heights, block : Blocks, carrier : Blocks \cup {None}]

EntryOK(m, i, t, r, s, c) ==
  /\ m[i].height <= Height(t)
  /\ m[i].block = FinalityAncestor(t, m[i].height)
  /\ \A j \in 1..(i - 1) : m[j].height < m[i].height
  /\ m[i].carrier = None => Marker(r, s) /\ m[i].block = r
  /\ m[i].carrier # None =>
       /\ On(m[i].carrier, t)
       /\ Carries[m[i].carrier] = m[i].height
       /\ m[i].height < Height(m[i].carrier)
       /\ m[i].height = 1 + (IF i = 1 THEN 0 ELSE m[i - 1].height)
       /\ m[i].block = c[m[i].height]
  /\ (\A j \in 1..i : m[j].block # r) => m[i].height = i

MirrorOK(m, t, r, s, c) ==
  /\ t \in Nodes
  /\ m \in Seq(Anchors)
  /\ \A b \in Blocks :
       On(b, t) /\ Carries[b] # 0 => \E i \in 1..Len(m) : m[i].carrier = b
  /\ \A i \in 1..Len(m) : EntryOK(m, i, t, r, s, c)

Holds(m, r) == \E i \in 1..Len(m) : m[i].block = r

(* The mirror of a chain that has the checkpoint skips to it at the latest *)
(* when something above the checkpoint is saved.                           *)
Restored(m, t, r, s) == Marker(r, s) /\ On(r, t) /\ Top(s) # r => Holds(m, r)

ImageOK(m, t, s, c, r) ==
  /\ MirrorOK(m, t, r, s, c)
  /\ Restored(m, t, r, s)

LEMMA EntryTypes ==
  ASSUME NEW m \in Seq(Anchors)
  PROVE  /\ Len(m) \in Nat /\ DOMAIN m = 1..Len(m)
         /\ m = <<>> <=> Len(m) = 0
         /\ \A i \in 1..Len(m) :
              /\ m[i] \in Anchors
              /\ m[i].height \in Nat \ {0} /\ m[i].height \in Heights
              /\ m[i].block \in Blocks /\ m[i].carrier \in Blocks \cup {None}
<1>1. Len(m) \in Nat /\ DOMAIN m = 1..Len(m) /\ (m = <<>> <=> Len(m) = 0)
  BY LenProperties, EmptySeq
<1>2. \A i \in 1..Len(m) : m[i] \in Anchors
  BY ElementOfSeq
<1>3. \A a \in Anchors : /\ a.height \in Heights /\ a.block \in Blocks
                         /\ a.carrier \in Blocks \cup {None}
  BY DEF Anchors
<1>4. \A h \in Heights : h \in Nat \ {0}
  BY HeightRange
<1> QED BY <1>1, <1>2, <1>3, <1>4

LEMMA MirrorTop ==
  ASSUME NEW m, NEW t, NEW r, NEW s, NEW c, MirrorOK(m, t, r, s, c)
  PROVE  /\ MirrorHeight(m) = IF Len(m) = 0 THEN 0 ELSE m[Len(m)].height
         /\ MirrorHeight(m) \in 0..Height(t)
         /\ Height(t) \in Nat
         /\ \A i \in 1..Len(m) : m[i].height <= MirrorHeight(m)
<1>1. m \in Seq(Anchors) /\ t \in Nodes
  BY DEF MirrorOK
<1>2. MirrorHeight(m) = IF Len(m) = 0 THEN 0 ELSE m[Len(m)].height
  BY <1>1, EntryTypes DEF MirrorHeight, Last
<1>3. Height(t) \in Nat
  BY <1>1, ChainFacts, BlockCount
<1>4. CASE Len(m) = 0
  BY <1>1, <1>2, <1>3, <1>4
<1>5. CASE Len(m) # 0
  <2>1. Len(m) \in 1..Len(m)
    BY <1>1, <1>5, EntryTypes
  <2>2. EntryOK(m, Len(m), t, r, s, c)
    BY <2>1 DEF MirrorOK
  <2>3. \A i \in 1..Len(m) : i = Len(m) \/ i \in 1..(Len(m) - 1)
    BY <1>1, EntryTypes
  <2> QED BY <1>1, <1>2, <1>3, <1>5, <2>1, <2>2, <2>3, EntryTypes DEF EntryOK
<1> QED BY <1>2, <1>3, <1>4, <1>5

(* Without the checkpoint there is an anchor for every height.             *)
LEMMA ReachedCheckpoint ==
  ASSUME NEW m, NEW t, NEW r \in Blocks, NEW s, NEW c,
         MirrorOK(m, t, r, s, c), On(r, t), MirrorHeight(m) >= Height(r)
  PROVE  Holds(m, r)
<1> SUFFICES ASSUME ~ Holds(m, r) PROVE FALSE
  OBVIOUS
<1>1. m \in Seq(Anchors) /\ Len(m) \in Nat /\ t \in Nodes
  BY EntryTypes DEF MirrorOK
<1>2. \A i \in 1..Len(m) : m[i].height = i
  <2> SUFFICES ASSUME NEW i \in 1..Len(m) PROVE m[i].height = i
    OBVIOUS
  <2>1. \A j \in 1..i : m[j].block # r
    BY <1>1 DEF Holds
  <2> QED BY <2>1 DEF MirrorOK, EntryOK
<1>3. MirrorHeight(m) = Len(m)
  BY <1>1, <1>2, MirrorTop
<1>4. Height(r) \in 1..Len(m)
  BY <1>1, <1>3, HeightRange
<1>5. m[Height(r)].block = FinalityAncestor(t, Height(r))
  BY <1>2, <1>4 DEF MirrorOK, EntryOK
<1>6. FinalityAncestor(t, Height(r)) = r
  BY <1>1, <1>4, OnFacts, TreeAssumption DEF Nodes
<1> QED BY <1>4, <1>5, <1>6 DEF Holds

(* The anchors of a chain are right for the next block too, and stay so    *)
(* when one is appended.                                                   *)
LEMMA EntriesOfNext ==
  ASSUME NEW m, NEW r, NEW s, NEW c, NEW b \in Blocks,
         MirrorOK(m, Parent[b], r, s, c)
  PROVE  \A i \in 1..Len(m) : EntryOK(m, i, b, r, s, c)
<1> SUFFICES ASSUME NEW i \in 1..Len(m)
             PROVE  EntryOK(m, i, b, r, s, c)
  OBVIOUS
<1>1. m \in Seq(Anchors) /\ EntryOK(m, i, Parent[b], r, s, c)
  BY DEF MirrorOK
<1>2. /\ Height(Parent[b]) \in Nat /\ Height(b) = Height(Parent[b]) + 1
      /\ \A h \in 1..Height(Parent[b]) :
           FinalityAncestor(b, h) = FinalityAncestor(Parent[b], h)
  BY ParentFacts, ChainFacts, BlockCount
<1>3. m[i].carrier # None => On(m[i].carrier, b)
  BY <1>1, EntryTypes, OnParent DEF EntryOK, Nodes
<1>4. m[i].height \in 1..Height(Parent[b])
  BY <1>1, <1>2, EntryTypes DEF EntryOK
<1> QED BY <1>1, <1>2, <1>3, <1>4 DEF EntryOK

LEMMA EntriesKept ==
  ASSUME NEW m \in Seq(Anchors), NEW t, NEW r, NEW s, NEW c, NEW a \in Anchors,
         \A i \in 1..Len(m) : EntryOK(m, i, t, r, s, c)
  PROVE  /\ Append(m, a) \in Seq(Anchors)
         /\ Len(Append(m, a)) = Len(m) + 1
         /\ Append(m, a)[Len(m) + 1] = a
         /\ \A i \in 1..Len(m) : Append(m, a)[i] = m[i]
         /\ \A i \in 1..Len(m) : EntryOK(Append(m, a), i, t, r, s, c)
<1> DEFINE m2 == Append(m, a)
<1>1. Len(m) \in Nat
  BY EntryTypes
<1>2. /\ m2 \in Seq(Anchors) /\ Len(m2) = Len(m) + 1 /\ m2[Len(m) + 1] = a
      /\ \A i \in 1..Len(m) : m2[i] = m[i]
  BY <1>1, AppendProperties
<1> HIDE DEF m2
<1>3. ASSUME NEW i \in 1..Len(m) PROVE EntryOK(m2, i, t, r, s, c)
  <2>1. EntryOK(m, i, t, r, s, c)
    OBVIOUS
  <2>2. m2[i] = m[i] /\ \A j \in 1..i : m2[j] = m[j]
    BY <1>1, <1>2
  <2>3. (i # 1 => m2[i - 1] = m[i - 1]) /\ \A j \in 1..(i - 1) : m2[j] = m[j]
    BY <1>1, <1>2
  <2> QED BY <2>1, <2>2, <2>3 DEF EntryOK
<1> QED BY <1>2, <1>3 DEF m2

(* A block without a certificate leaves the mirror as it is.               *)
LEMMA ExtendPlain ==
  ASSUME NEW m, NEW r, NEW s, NEW c, NEW b \in Blocks,
         MirrorOK(m, Parent[b], r, s, c), Carries[b] = 0
  PROVE  MirrorOK(m, b, r, s, c)
<1>1. ASSUME NEW a \in Blocks, On(a, b), Carries[a] # 0
      PROVE  \E i \in 1..Len(m) : m[i].carrier = a
  BY <1>1, OnParent DEF MirrorOK, Nodes
<1> QED BY <1>1, EntriesOfNext DEF MirrorOK, Nodes

(* A certificate adds an anchor for the next height.                       *)
LEMMA ExtendCarrier ==
  ASSUME NEW m, NEW r, NEW s, NEW c \in Slots, NEW b \in Blocks,
         MirrorOK(m, Parent[b], r, s, c), Carries[b] # 0,
         Carries[b] = MirrorHeight(m) + 1, Carries[b] < Height(b),
         c[Carries[b]] = FinalityAncestor(b, Carries[b])
  PROVE  /\ MirrorOK(RecordAnchor(b, m), b, r, s, c)
         /\ Carries[b] \in 1..Height(b)
         /\ MirrorHeight(RecordAnchor(b, m)) = Carries[b]
         /\ Holds(m, r) => Holds(RecordAnchor(b, m), r)
<1> DEFINE a == [height |-> Carries[b],
                 block |-> FinalityAncestor(b, Carries[b]), carrier |-> b]
           m2 == Append(m, a)
           n == Len(m)
<1>1. m \in Seq(Anchors) /\ Parent[b] \in Nodes
  BY DEF MirrorOK
<1>2. /\ MirrorHeight(m) = IF n = 0 THEN 0 ELSE m[n].height
      /\ MirrorHeight(m) \in Nat /\ Height(b) \in Nat
      /\ \A i \in 1..n : m[i].height <= MirrorHeight(m)
  BY MirrorTop, ChainFacts, BlockCount DEF Nodes
<1>3. Carries[b] \in 1..Height(b)
  BY <1>2
<1>4. a \in Anchors
  <2>1. FinalityAncestor(b, Carries[b]) \in Blocks
        /\ Height(FinalityAncestor(b, Carries[b])) = Carries[b]
    BY <1>3, AncestorFacts DEF Nodes
  <2> QED BY <2>1, HeightRange DEF Anchors
<1>5. /\ m2 \in Seq(Anchors) /\ Len(m2) = n + 1 /\ m2[n + 1] = a
      /\ \A i \in 1..n : m2[i] = m[i]
      /\ \A i \in 1..n : EntryOK(m2, i, b, r, s, c)
  BY <1>1, <1>4, EntriesOfNext, EntriesKept
<1>6. RecordAnchor(b, m) = m2
  BY DEF RecordAnchor
<1>n. n \in Nat
  BY <1>1, EntryTypes
<1>a. /\ a.height = Carries[b] /\ a.carrier = b
      /\ a.block = FinalityAncestor(b, Carries[b])
  OBVIOUS
<1> HIDE DEF m2, a
<1>7. EntryOK(m2, n + 1, b, r, s, c)
  <2>1. \A j \in 1..n : m2[j].height < a.height
    <3> SUFFICES ASSUME NEW j \in 1..n PROVE m2[j].height < a.height
      OBVIOUS
    <3>1. m2[j] = m[j] /\ m[j].height \in Nat /\ m[j].height <= MirrorHeight(m)
      BY <1>1, <1>2, <1>5, EntryTypes
    <3> QED BY <1>2, <1>a, <3>1
  <2>2. a.height = 1 + (IF n + 1 = 1 THEN 0 ELSE m2[n].height)
    <3>1. n # 0 => m2[n] = m[n]
      BY <1>5, <1>n
    <3> QED BY <1>2, <1>a, <1>n, <3>1
  <2>3. (\A j \in 1..(n + 1) : m2[j].block # r) => a.height = n + 1
    <3>1. CASE n = 0
      BY <1>2, <1>a, <3>1
    <3>2. CASE n # 0
      <4>1. EntryOK(m2, n, b, r, s, c)
        BY <1>5, <1>n, <3>2
      <4>2. (\A j \in 1..n : m2[j].block # r) => m2[n].height = n
        BY <4>1 DEF EntryOK
      <4>3. m2[n] = m[n]
        BY <1>5, <1>n, <3>2
      <4> QED BY <1>2, <1>a, <1>n, <3>2, <4>2, <4>3
    <3> QED BY <3>1, <3>2
  <2>4. b # None /\ On(b, b)
    BY TreeAssumption, OnSelf DEF Nodes
  <2> QED BY <1>2, <1>3, <1>5, <1>a, <1>n, <2>1, <2>2, <2>3, <2>4 DEF EntryOK
<1>8. \A i \in 1..Len(m2) : EntryOK(m2, i, b, r, s, c)
  BY <1>5, <1>7, <1>n
<1>9. ASSUME NEW x \in Blocks, On(x, b), Carries[x] # 0
      PROVE  \E i \in 1..Len(m2) : m2[i].carrier = x
  <2>1. CASE x = b
    BY <1>5, <1>a, <1>n, <2>1
  <2>2. CASE x # b
    <3>1. On(x, Parent[b])
      BY <1>9, <2>2, OnParent DEF Nodes
    <3>2. PICK i \in 1..n : m[i].carrier = x
      BY <1>9, <3>1 DEF MirrorOK
    <3> QED BY <1>5, <1>n, <3>2
  <2> QED BY <2>1, <2>2
<1>10. MirrorOK(m2, b, r, s, c)
  BY <1>5, <1>8, <1>9 DEF MirrorOK, Nodes
<1>11. MirrorHeight(m2) = Carries[b]
  BY <1>5, <1>10, <1>a, <1>n, MirrorTop
<1>12. Holds(m, r) => Holds(m2, r)
  BY <1>5, <1>n DEF Holds
<1> QED BY <1>3, <1>6, <1>10, <1>11, <1>12

(* The mirror skips to the checkpoint.                                     *)
SkipTo(r, m) ==
  IF MirrorHeight(m) >= Height(r) THEN m
  ELSE Append(m, [height |-> Height(r), block |-> r, carrier |-> None])

LEMMA SkipToCheckpoint ==
  ASSUME NEW m, NEW t, NEW r \in Blocks, NEW s, NEW c,
         MirrorOK(m, t, r, s, c), On(r, t), Marker(r, s)
  PROVE  MirrorOK(SkipTo(r, m), t, r, s, c) /\ Holds(SkipTo(r, m), r)
<1> DEFINE a == [height |-> Height(r), block |-> r, carrier |-> None]
           m2 == Append(m, a)
           n == Len(m)
<1>1. m \in Seq(Anchors) /\ t \in Nodes /\ n \in Nat
  BY EntryTypes DEF MirrorOK
<1>2. /\ MirrorHeight(m) \in Nat
      /\ \A i \in 1..n : m[i].height <= MirrorHeight(m)
  BY MirrorTop
<1>3. Height(r) \in 1..Height(t) /\ FinalityAncestor(t, Height(r)) = r /\ Height(r) \in Nat
  BY <1>1, OnFacts, TreeAssumption DEF Nodes
<1>4. CASE MirrorHeight(m) >= Height(r)
  BY <1>4, ReachedCheckpoint DEF SkipTo
<1>5. CASE MirrorHeight(m) < Height(r)
  <2>1. a \in Anchors
    BY HeightRange DEF Anchors
  <2>2. /\ m2 \in Seq(Anchors) /\ Len(m2) = n + 1 /\ m2[n + 1] = a
        /\ \A i \in 1..n : m2[i] = m[i]
        /\ \A i \in 1..n : EntryOK(m2, i, t, r, s, c)
    BY <1>1, <2>1, EntriesKept DEF MirrorOK
  <2>3. SkipTo(r, m) = m2
    BY <1>2, <1>3, <1>5 DEF SkipTo
  <2>a. a.height = Height(r) /\ a.block = r /\ a.carrier = None
    OBVIOUS
  <2> HIDE DEF m2, a
  <2>4. EntryOK(m2, n + 1, t, r, s, c)
    <3>1. \A j \in 1..n : m2[j].height < a.height
      <4> SUFFICES ASSUME NEW j \in 1..n PROVE m2[j].height < a.height
        OBVIOUS
      <4>1. m2[j] = m[j] /\ m[j].height \in Nat /\ m[j].height <= MirrorHeight(m)
        BY <1>1, <1>2, <2>2, EntryTypes
      <4> QED BY <1>2, <1>3, <1>5, <2>a, <4>1
    <3>2. ~ \A j \in 1..(n + 1) : m2[j].block # r
      BY <1>1, <2>2, <2>a
    <3> QED BY <1>1, <1>3, <2>2, <2>a, <3>1, <3>2 DEF EntryOK
  <2>5. \A i \in 1..Len(m2) : EntryOK(m2, i, t, r, s, c)
    BY <1>1, <2>2, <2>4
  <2>6. ASSUME NEW b \in Blocks, On(b, t), Carries[b] # 0
        PROVE  \E i \in 1..Len(m2) : m2[i].carrier = b
    <3>1. PICK i \in 1..n : m[i].carrier = b
      BY <2>6 DEF MirrorOK
    <3> QED BY <1>1, <2>2, <3>1
  <2>7. Holds(m2, r)
    BY <1>1, <2>2, <2>a DEF Holds
  <2> QED BY <1>1, <2>2, <2>3, <2>5, <2>6, <2>7 DEF MirrorOK
<1> QED BY <1>2, <1>3, <1>4, <1>5

(* The undo of the tip takes its anchor back and no other.                 *)
Undone(b, m) == IF Carries[b] = 0 THEN m ELSE Front(m)

LEMMA UndoTip ==
  ASSUME NEW m, NEW r, NEW s, NEW c, NEW b \in Blocks,
         MirrorOK(m, b, r, s, c), CertifiedOK(c, r), Checkpoint(r),
         Marker(r, s) => Height(r) < Height(b),
         Carries[b] # 0 => m # <<>> /\ Last(m).carrier = b
  PROVE  /\ MirrorOK(Undone(b, m), Parent[b], r, s, c)
         /\ Holds(m, r) => Holds(Undone(b, m), r)
<1> DEFINE m2 == Undone(b, m)
           n == Len(m)
<1>1. m \in Seq(Anchors) /\ n \in Nat /\ Parent[b] \in Nodes
  BY EntryTypes, ParentFacts DEF MirrorOK
<1>2. /\ Height(Parent[b]) \in Nat /\ Height(b) = Height(Parent[b]) + 1
      /\ \A h \in 1..Height(Parent[b]) :
           FinalityAncestor(b, h) = FinalityAncestor(Parent[b], h)
  BY ParentFacts, ChainFacts, BlockCount
<1>3. Carries[b] # 0 => n # 0 /\ m[n].carrier = b
  BY <1>1, EntryTypes DEF Last
<1>4. /\ m2 \in Seq(Anchors)
      /\ Len(m2) = IF Carries[b] = 0 THEN n ELSE n - 1
      /\ \A i \in 1..Len(m2) : m2[i] = m[i]
  <2>1. CASE Carries[b] = 0
    BY <1>1, <2>1 DEF Undone
  <2>2. CASE Carries[b] # 0
    <3>1. \A i \in 1..(n - 1) : m[i] \in Anchors
      BY <1>1, EntryTypes
    <3>2. m2 = SubSeq(m, 1, n - 1)
      BY <2>2 DEF Undone, Front
    <3>3. n - 1 \in Nat
      BY <1>1, <1>3, <2>2
    <3> HIDE DEF m2, n
    <3>4. /\ m2 \in Seq(Anchors) /\ Len(m2) = n - 1
          /\ \A i \in 1..(n - 1) : m2[i] = m[i]
      BY <3>1, <3>2, <3>3, SubSeqProperties
    <3> QED BY <2>2, <3>4 DEF n
  <2> QED BY <2>1, <2>2
<1> HIDE DEF m2
<1>5. ASSUME NEW i \in 1..Len(m2)
      PROVE  /\ EntryOK(m2, i, Parent[b], r, s, c)
             /\ m2[i].carrier # b
  <2>1. /\ i \in 1..n /\ m2[i] = m[i] /\ \A j \in 1..i : m2[j] = m[j]
        /\ i # 1 => m2[i - 1] = m[i - 1]
    BY <1>1, <1>4
  <2>2. /\ EntryOK(m, i, b, r, s, c)
        /\ m[i].height \in Nat \ {0} /\ m[i].carrier \in Blocks \cup {None}
    BY <1>1, <2>1, EntryTypes DEF MirrorOK
  <2>3. m[i].carrier # b
    <3> SUFFICES ASSUME m[i].carrier = b PROVE FALSE
      OBVIOUS
    <3>1. Carries[b] = m[i].height /\ Carries[b] # 0
      BY <2>2, TreeAssumption DEF EntryOK
    <3>2. n \in 1..n /\ i \in 1..(n - 1) /\ m[n].carrier = b
      BY <1>1, <1>3, <1>4, <3>1
    <3>3. EntryOK(m, n, b, r, s, c)
      BY <3>2 DEF MirrorOK
    <3>4. m[i].height < m[n].height /\ Carries[b] = m[n].height
      BY <3>2, <3>3, TreeAssumption DEF EntryOK
    <3> QED BY <2>2, <3>1, <3>4
  <2>4. m[i].height \in 1..Height(Parent[b])
    <3>1. CASE m[i].carrier = None
      <4>1. Marker(r, s) /\ FinalityAncestor(b, m[i].height) = r
        BY <2>2, <3>1 DEF EntryOK
      <4>2. m[i].height \in 1..Height(b)
        BY <1>2, <2>2 DEF EntryOK
      <4>3. Height(r) = m[i].height
        BY <4>1, <4>2, AncestorFacts DEF Nodes
      <4> QED BY <1>2, <4>1, <4>2, <4>3
    <3>2. CASE m[i].carrier # None
      <4> DEFINE x == m[i].carrier
      <4>1. x \in Nodes /\ On(x, Parent[b]) /\ m[i].height < Height(x)
        BY <2>2, <2>3, <3>2, OnParent DEF EntryOK, Nodes
      <4>2. x # Root /\ Height(x) \in Nat
        BY <2>2, <3>2, <4>1, TreeAssumption, ChainFacts, BlockCount
      <4>3. Height(x) <= Height(Parent[b])
        BY <1>1, <4>1, <4>2, OnFacts
      <4> QED BY <1>2, <2>2, <4>1, <4>2, <4>3
    <3> QED BY <3>1, <3>2
  <2>5. m[i].carrier # None => On(m[i].carrier, Parent[b])
    BY <2>2, <2>3, OnParent DEF EntryOK, Nodes
  <2>6. m2[i].block = FinalityAncestor(Parent[b], m2[i].height)
    BY <1>2, <2>1, <2>2, <2>4 DEF EntryOK
  <2>7. (\A j \in 1..i : m2[j].block # r) => m2[i].height = i
    BY <2>1, <2>2 DEF EntryOK
  <2>8. \A j \in 1..(i - 1) : m2[j].height < m2[i].height
    BY <1>1, <2>1, <2>2 DEF EntryOK
  <2>9. m2[i].carrier # None =>
          /\ On(m2[i].carrier, Parent[b])
          /\ Carries[m2[i].carrier] = m2[i].height
          /\ m2[i].height < Height(m2[i].carrier)
          /\ m2[i].height = 1 + (IF i = 1 THEN 0 ELSE m2[i - 1].height)
          /\ m2[i].block = c[m2[i].height]
    BY <2>1, <2>2, <2>5 DEF EntryOK
  <2> QED BY <2>1, <2>2, <2>3, <2>4, <2>6, <2>7, <2>8, <2>9 DEF EntryOK
<1>6. ASSUME NEW x \in Blocks, On(x, Parent[b]), Carries[x] # 0
      PROVE  \E i \in 1..Len(m2) : m2[i].carrier = x
  <2>1. On(x, b) /\ x # b
    BY <1>6, OnParent DEF Nodes
  <2>2. PICK i \in 1..n : m[i].carrier = x
    BY <1>6, <2>1 DEF MirrorOK
  <2>3. i \in 1..Len(m2)
    BY <1>1, <1>3, <1>4, <2>1, <2>2
  <2> QED BY <1>4, <2>2, <2>3
<1>7. ASSUME Holds(m, r) PROVE Holds(m2, r)
  <2>1. PICK i \in 1..n : m[i].block = r
    BY <1>7 DEF Holds
  <2>2. i \in 1..Len(m2)
    <3> SUFFICES ASSUME Carries[b] # 0, i = n PROVE FALSE
      BY <1>1, <1>4
    <3>1. m[i].carrier # None /\ m[i].block # None /\ m[i].height \in Heights
      BY <1>1, <1>3, TreeAssumption, EntryTypes
    <3>2. m[i].block = c[m[i].height]
      BY <3>1 DEF MirrorOK, EntryOK
    <3> QED BY <2>1, <3>1, <3>2, CheckpointNotCertified
  <2> QED BY <1>4, <2>1, <2>2 DEF Holds
<1> QED BY <1>1, <1>4, <1>5, <1>6, <1>7 DEF MirrorOK, m2

(* More certified or saved takes nothing away.                             *)
LEMMA MirrorStable ==
  ASSUME NEW m, NEW t, NEW r, NEW s, NEW c, NEW s2, NEW c2,
         MirrorOK(m, t, r, s, c),
         Marker(r, s) => Marker(r, s2),
         \A h \in Heights : c[h] # None => c2[h] = c[h]
  PROVE  MirrorOK(m, t, r, s2, c2)
<1> SUFFICES ASSUME NEW i \in 1..Len(m) PROVE EntryOK(m, i, t, r, s2, c2)
  BY DEF MirrorOK
<1>1. /\ EntryOK(m, i, t, r, s, c)
      /\ m[i].height \in Heights /\ m[i].block # None
  BY EntryTypes, TreeAssumption DEF MirrorOK
<1> QED BY <1>1 DEF EntryOK

-----------------------------------------------------------------------------
(* Chain state as a whole: what connecting a block, saving an anchor and   *)
(* completing a checkpoint make of it.                                     *)
After(b, m, r, s) ==
  IF Marker(r, s) /\ b = r THEN SkipTo(r, RecordAnchor(b, m)) ELSE RecordAnchor(b, m)

Accepted(b, m, c) ==
  Carries[b] # 0 =>
    /\ Carries[b] = MirrorHeight(m) + 1
    /\ Carries[b] < Height(b)
    /\ c[Carries[b]] = FinalityAncestor(b, Carries[b])

LEMMA ConnectBlock ==
  ASSUME NEW m, NEW r, NEW s, NEW c \in Slots, NEW b \in Blocks,
         ImageOK(m, Parent[b], s, c, r), Checkpoint(r), Accepted(b, m, c)
  PROVE  /\ ImageOK(After(b, m, r, s), b, s, c, r)
         /\ Holds(m, r) => Holds(After(b, m, r, s), r)
         /\ Carries[b] # 0 =>
              Holds(After(b, m, r, s), r) \/ MirrorHeight(After(b, m, r, s)) = Carries[b]
         /\ Marker(r, s) /\ b = r => Holds(After(b, m, r, s), r)
<1> DEFINE m1 == RecordAnchor(b, m)
<1>1. /\ MirrorOK(m1, b, r, s, c)
      /\ Holds(m, r) => Holds(m1, r)
      /\ Carries[b] # 0 => MirrorHeight(m1) = Carries[b]
  <2>1. CASE Carries[b] = 0
    BY <2>1, ExtendPlain DEF ImageOK, RecordAnchor
  <2>2. CASE Carries[b] # 0
    BY <2>2, ExtendCarrier DEF ImageOK, Accepted
  <2> QED BY <2>1, <2>2
<1> HIDE DEF m1
<1>2. CASE Marker(r, s) /\ b = r
  <2>1. After(b, m, r, s) = SkipTo(r, m1)
    BY <1>2 DEF After, m1
  <2>2. MirrorOK(SkipTo(r, m1), b, r, s, c) /\ Holds(SkipTo(r, m1), r)
    BY <1>1, <1>2, OnSelf, SkipToCheckpoint DEF Nodes
  <2> QED BY <1>2, <2>1, <2>2 DEF ImageOK, Restored
<1>3. CASE ~ (Marker(r, s) /\ b = r)
  <2>1. After(b, m, r, s) = m1
    BY <1>3 DEF After, m1
  <2>2. Restored(m1, b, r, s)
    <3> SUFFICES ASSUME Marker(r, s), On(r, b), Top(s) # r PROVE Holds(m1, r)
      BY DEF Restored
    <3>1. r \in Nodes /\ On(r, Parent[b])
      BY <1>3, OnParent DEF Checkpoint, Marker, Nodes
    <3> QED BY <1>1, <3>1 DEF ImageOK, Restored
  <2> QED BY <1>1, <1>3, <2>1, <2>2 DEF ImageOK
<1> QED BY <1>2, <1>3

(* Chain state stays right when a certified anchor is saved that its       *)
(* mirror has reached or is about to.                                      *)
LEMMA SaveReached ==
  ASSUME NEW m, NEW t, NEW r, NEW s, NEW s2, NEW c, NEW b \in Blocks,
         s2 = With(s, b),
         ImageOK(m, t, s, c, r), SavedOK(s, c, r), CertifiedOK(c, r), Checkpoint(r),
         c[Height(b)] = b,
         Savable(b, s),
         Holds(m, r) \/ Height(b) <= MirrorHeight(m) + 1
  PROVE  ImageOK(m, t, s2, c, r)
<1>1. /\ SavedOK(s2, c, r)
      /\ Marker(r, s2) <=> Marker(r, s) \/ b = r
      /\ Above(b, s) => Top(s2) = b
      /\ ~ Above(b, s) => Top(s2) = Top(s)
  <2>1. Justified(b, c, r)
    BY DEF Justified
  <2> QED BY <2>1, SaveAnchor
<1>2. b # r
  BY CheckpointNotCertified, HeightRange, TreeAssumption
<1>3. MirrorOK(m, t, r, s2, c)
  BY <1>1, MirrorStable DEF ImageOK
<1>4. Restored(m, t, r, s2)
  <2> SUFFICES ASSUME Marker(r, s), On(r, t), Above(b, s) PROVE Holds(m, r)
    BY <1>1, <1>2 DEF ImageOK, Restored
  <2>1. r \in Blocks /\ Height(r) \in Heights /\ s[Height(r)] # None
    BY HeightRange DEF Checkpoint, Marker
  <2>2. Height(r) <= TopHeight(s) /\ TopHeight(s) \in Nat
    BY <2>1, TopFacts DEF SavedOK
  <2>3. MirrorOK(m, t, r, s, c) /\ MirrorHeight(m) \in Nat
    BY MirrorTop DEF ImageOK
  <2>4. Height(b) \in Nat /\ Height(r) \in Nat
    BY <2>1, HeightRange
  <2>5. Height(b) <= MirrorHeight(m) + 1 => Height(r) <= MirrorHeight(m)
    BY <2>2, <2>3, <2>4 DEF Above
  <2> QED BY <2>1, <2>3, <2>5, ReachedCheckpoint
<1> QED BY <1>3, <1>4 DEF ImageOK

(* A checkpoint is marked beyond a dead end, on the chain that the saved   *)
(* anchors are on.                                                         *)
LEMMA MarkCheckpoint ==
  ASSUME NEW m, NEW t, NEW r \in Blocks, NEW s, NEW s2, NEW c,
         s2 = With(s, r),
         ImageOK(m, t, s, c, r), SavedOK(s, c, r), CertifiedOK(c, r), Checkpoint(r),
         On(r, t), On(Top(s), t), r \notin Empty,
         Height(r) <= TopHeight(s) => Marker(r, s),
         ~ Marker(r, s) => FinalityAncestor(t, TopHeight(s) + 1) \in Empty
  PROVE  /\ DeadEnd(r, c)
         /\ Savable(r, s)
         /\ ImageOK(m, t, s2, c, r)
         /\ ImageOK(SkipTo(r, m), t, s2, c, r)
         /\ Holds(SkipTo(r, m), r)
<1> DEFINE h == TopHeight(s)
<1>a. t \in Nodes /\ s \in Slots /\ r # None
  BY TreeAssumption DEF ImageOK, MirrorOK, SavedOK
<1>b. h \in Nat /\ Top(s) \in Nodes /\ Height(Top(s)) = h
  BY <1>a, TopFacts, TopBlock
<1>c. Height(r) \in Heights /\ Height(r) \in Nat \ {0}
  BY HeightRange
<1>1. /\ t \in Nodes /\ h \in Nat /\ Height(r) \in Nat \ {0} /\ r # None
      /\ Top(s) \in Nodes /\ Height(Top(s)) = h /\ Height(r) \in Heights
  BY <1>a, <1>b, <1>c
<1>2. ASSUME Marker(r, s)
      PROVE  DeadEnd(r, c) /\ s[Height(r)] = r
  BY <1>2 DEF SavedOK, Marker
<1>3. ASSUME ~ Marker(r, s)
      PROVE  DeadEnd(r, c) /\ Height(r) > h /\ On(Top(s), r)
  <2>1. Height(r) > h
    BY <1>1, <1>3
  <2>2. On(Top(s), r)
    BY <1>1, <2>1, OnSameChain DEF Nodes
  <2>3. FinalityAncestor(t, Height(r)) = r /\ Height(r) \in 1..Height(t)
    BY <1>1, OnFacts DEF Nodes
  <2>4. FinalityAncestor(r, h + 1) = FinalityAncestor(t, h + 1)
    <3>1. h + 1 \in 1..Height(r)
      BY <1>1, <2>1
    <3> QED BY <1>1, <2>3, <3>1, AncestorFacts
  <2>5. h + 1 # Height(r)
    BY <1>3, <2>3
  <2>6. h > 0 => c[h] = FinalityAncestor(r, h)
    <3> SUFFICES ASSUME h > 0 PROVE c[h] = FinalityAncestor(r, h)
      OBVIOUS
    <3>1. h \in Heights /\ s[h] # None /\ Top(s) = s[h]
      BY TopFacts DEF SavedOK, Top
    <3>2. s[h] = c[h]
      <4>1. s[h] # r
        BY <1>1, <2>1, <3>1
      <4> QED BY <3>1, <4>1 DEF SavedOK
    <3>3. Top(s) # Root
      BY <1>1, RootHeight
    <3>4. FinalityAncestor(r, h) = Top(s)
      BY <1>1, <2>2, <3>3, OnFacts DEF Nodes
    <3> QED BY <3>1, <3>2, <3>4
  <2>7. h \in 0..(Height(r) - 2)
    BY <1>1, <2>1, <2>5
  <2> QED BY <1>3, <2>1, <2>2, <2>4, <2>6, <2>7 DEF DeadEnd
<1>4. DeadEnd(r, c) /\ Savable(r, s)
  BY <1>2, <1>3 DEF Savable, Above
<1>5. /\ Marker(r, s2)
      /\ Above(r, s) => Top(s2) = r
      /\ ~ Above(r, s) => Top(s2) = Top(s)
  <2>1. /\ SavedOK(s2, c, r)
        /\ Marker(r, s2) <=> Marker(r, s) \/ r = r
        /\ Above(r, s) => Top(s2) = r
        /\ ~ Above(r, s) => Top(s2) = Top(s)
    <3>1. Justified(r, c, r)
      BY <1>4 DEF Justified
    <3> QED BY <1>4, <3>1, SaveAnchor
  <2> QED BY <2>1
<1>6. MirrorOK(m, t, r, s2, c)
  BY <1>5, MirrorStable DEF ImageOK
<1>7. Restored(m, t, r, s2)
  <2> SUFFICES ASSUME On(r, t), ~ Above(r, s), Top(s) # r PROVE Holds(m, r)
    BY <1>5 DEF Restored
  <2>1. Marker(r, s)
    BY <1>1 DEF Above
  <2> QED BY <2>1 DEF ImageOK, Restored
<1>8. MirrorOK(SkipTo(r, m), t, r, s2, c) /\ Holds(SkipTo(r, m), r)
  BY <1>5, <1>6, SkipToCheckpoint
<1> QED BY <1>4, <1>6, <1>7, <1>8 DEF ImageOK, Restored

-----------------------------------------------------------------------------
(* The inductive invariant: the world, the node's memory, the flushed one. *)
WorldOK ==
  /\ network \in Networks
  /\ known \subseteq Blocks
  /\ failed \subseteq Blocks
  /\ journal \in Blocks \cup {None}
  /\ CertifiedOK(chosen, Recovery)
  /\ SavedOK(store, chosen, Recovery)

TargetOK(tg, t) ==
  tg # None => tg.to \in Nodes \ {t} /\ tg.over \in 0..Cardinality(Blocks)

UpOK(t, m, s, r) == On(Top(s), t) /\ (Marker(r, s) => Holds(m, r))

NodeOK(md, t, m, tg, s, c, r) ==
  /\ md \in {"down", "starting", "up", "refused"}
  /\ TargetOK(tg, t)
  /\ md = "down" => tg = None
  /\ ImageOK(m, t, s, c, r)
  /\ md = "up" => UpOK(t, m, s, r)

DiskOK(d, s, c, r) == d # Broken => ImageOK(d.mirror, d.tip, s, c, r)

IInv ==
  /\ WorldOK
  /\ NodeOK(mode, tip, mirror, target, store, chosen, Recovery)
  /\ DiskOK(disk, store, chosen, Recovery)

(* What is saved stays.                                                    *)
Extends(s2, s) ==
  /\ TopHeight(s2) >= TopHeight(s)
  /\ \A h \in Heights : s[h] # None => s2[h] = s[h]

LEMMA Vocabulary ==
  /\ StoreHeight = TopHeight(store)
  /\ StoreTip = Top(store)
  /\ Marked <=> Marker(Recovery, store)
  /\ \A b, m : MirrorAfter(b, m) = After(b, m, Recovery, store)
  /\ \A m : RestoreRecovery(m) = SkipTo(Recovery, m)
<1>1. StoreHeight = TopHeight(store)
  BY DEF StoreHeight, TopHeight
<1>2. StoreTip = Top(store)
  BY <1>1 DEF StoreTip, Top
<1>3. Marked <=> Marker(Recovery, store)
  BY DEF Marked, Marker
<1>4. \A m : RestoreRecovery(m) = SkipTo(Recovery, m)
  BY DEF RestoreRecovery, SkipTo
<1>5. \A b, m : MirrorAfter(b, m) = After(b, m, Recovery, store)
  BY <1>3, <1>4 DEF MirrorAfter, After
<1> QED BY <1>1, <1>2, <1>3, <1>4, <1>5

LEMMA NetworkFacts ==
  ASSUME network \in Networks
  PROVE  Checkpoint(Recovery) /\ network.blocks \subseteq Blocks
<1>1. Recovery \in Blocks \cup {None} /\ network.blocks \subseteq Blocks
  BY TreeAssumption DEF Recovery
<1>2. Recovery \in {n.recovery : n \in Networks}
  BY DEF Recovery
<1> QED BY <1>1, <1>2, RecoveryAssumption DEF Checkpoint

LEMMA SameExtends == \A s \in Slots : Extends(s, s)
BY TopFacts DEF Extends

LEMMA RootImage ==
  ASSUME NEW s, NEW c, NEW r, Checkpoint(r)
  PROVE  ImageOK(<<>>, Root, s, c, r)
<1>1. <<>> \in Seq(Anchors) /\ Len(<<>>) = 0
  BY EmptySeq
<1>2. ~ \E b \in Blocks : On(b, Root)
  BY OnFacts, RootHeight, TreeAssumption DEF Nodes
<1>3. MirrorOK(<<>>, Root, r, s, c)
  BY <1>1, <1>2 DEF MirrorOK, Nodes
<1>4. Restored(<<>>, Root, r, s)
  BY <1>2 DEF Restored, Marker, Checkpoint
<1> QED BY <1>3, <1>4 DEF ImageOK

(* Whatever image the node dies with is what it comes back with.           *)
LEMMA DieKeeps ==
  ASSUME NEW image, NEW s, NEW c, NEW r, Checkpoint(r), Die(image),
         DiskOK(image, s, c, r)
  PROVE  NodeOK(mode', tip', mirror', target', s, c, r) /\ DiskOK(disk', s, c, r)
<1>1. mode' = "down" /\ target' = None /\ disk' = image
  BY DEF Die
<1>2. CASE image = Broken
  BY <1>1, <1>2, RootImage DEF Die, NodeOK, DiskOK, TargetOK
<1>3. CASE image # Broken
  BY <1>1, <1>3 DEF Die, NodeOK, DiskOK, TargetOK
<1> QED BY <1>2, <1>3

LEMMA InitInv == Init => IInv
<1> SUFFICES ASSUME Init PROVE IInv
  OBVIOUS
<1>1. Checkpoint(Recovery) /\ network \in Networks
  BY NetworkFacts DEF Init
<1>2. /\ store \in Slots /\ chosen \in Slots
      /\ \A h \in Heights : store[h] = None /\ chosen[h] = None
  BY DEF Init, Slots
<1>3. ~ Marker(Recovery, store)
  BY <1>1, <1>2, HeightRange DEF Marker, Checkpoint
<1>4. CertifiedOK(chosen, Recovery) /\ SavedOK(store, chosen, Recovery)
  BY <1>2, <1>3 DEF CertifiedOK, SavedOK
<1>5. Top(store) = Root
  BY <1>2, TopFacts DEF Top
<1>6. ImageOK(<<>>, Root, store, chosen, Recovery)
  BY <1>1, RootImage
<1>7. UpOK(Root, <<>>, store, Recovery)
  BY <1>3, <1>5, OnSelf, RootHeight DEF UpOK
<1> QED BY <1>1, <1>4, <1>6, <1>7 DEF Init, IInv, WorldOK, NodeOK, DiskOK, TargetOK

-----------------------------------------------------------------------------
(* Steps that save nothing.                                                *)
LEMMA NothingSaved ==
  ASSUME IInv, UNCHANGED <<network, chosen, store>>,
         known' \subseteq Blocks, failed' \subseteq Blocks, journal' \in Blocks \cup {None},
         NodeOK(mode', tip', mirror', target', store, chosen, Recovery),
         DiskOK(disk', store, chosen, Recovery)
  PROVE  IInv' /\ Extends(store', store)
<1>1. Recovery' = Recovery
  BY DEF Recovery
<1>2. store \in Slots
  BY DEF IInv, WorldOK, SavedOK
<1> QED BY <1>1, <1>2, SameExtends DEF IInv, WorldOK

LEMMA TypeFacts ==
  ASSUME IInv
  PROVE  /\ tip \in Nodes /\ Height(tip) \in 0..Cardinality(Blocks)
         /\ known \subseteq Blocks /\ failed \subseteq Blocks
         /\ journal \in Blocks \cup {None}
         /\ network.blocks \subseteq Blocks /\ Checkpoint(Recovery)
         /\ chosen \in Slots /\ store \in Slots
         /\ StoreTip \in Nodes /\ Height(StoreTip) = StoreHeight
BY NetworkFacts, ChainFacts, Vocabulary, TopBlock
   DEF IInv, WorldOK, NodeOK, ImageOK, MirrorOK, CertifiedOK, SavedOK

(* An activation is of another block than the tip.                         *)
LEMMA ActivateTarget ==
  ASSUME IInv, NEW b \in Nodes, b # tip, Activate(b)
  PROVE  TargetOK(target', tip)
BY TypeFacts DEF Activate, TargetOK

LEMMA LearnKeeps ==
  ASSUME IInv, NEW b \in network.blocks, Learn(b)
  PROVE  IInv' /\ Extends(store', store)
<1>1. UNCHANGED <<network, chosen, failed, mode, tip, mirror, target, disk, store, journal>>
  BY DEF Learn, node
<1>2. known' \subseteq Blocks
  BY TypeFacts DEF Learn
<1> QED BY <1>1, <1>2, TypeFacts, NothingSaved DEF IInv

LEMMA TargetKeeps ==
  ASSUME IInv, TargetOK(target', tip), mode = "down" => target' = None, failed' \subseteq Blocks,
         UNCHANGED <<network, chosen, known, mode, tip, mirror, disk, store, journal>>
  PROVE  IInv' /\ Extends(store', store)
<1>1. NodeOK(mode', tip', mirror', target', store, chosen, Recovery)
  BY DEF IInv, NodeOK
<1> QED BY <1>1, TypeFacts, NothingSaved DEF IInv

LEMMA SelectKeeps ==
  ASSUME IInv, NEW b \in network.blocks, SelectCandidate(b)
  PROVE  IInv' /\ Extends(store', store)
<1>1. b \in Nodes /\ b # tip
  BY TypeFacts, BlockCount DEF SelectCandidate, BetterCandidates, Nodes
<1>2. TargetOK(target', tip)
  BY <1>1, ActivateTarget DEF SelectCandidate
<1> QED BY <1>2, TypeFacts, TargetKeeps DEF SelectCandidate, Running

LEMMA PreferKeeps ==
  ASSUME IInv, NEW b \in network.blocks, PreferCertified(b)
  PROVE  IInv' /\ Extends(store', store)
<1>1. b \in Nodes /\ b # tip
  BY TypeFacts, OnSelf DEF PreferCertified, CertifiedForkCandidate, Nodes
<1>2. TargetOK(target', tip)
  BY <1>1, ActivateTarget DEF PreferCertified
<1> QED BY <1>2, TypeFacts, TargetKeeps DEF PreferCertified

LEMMA InvalidateKeeps ==
  ASSUME IInv, NEW b \in network.blocks, InvalidateBlock(b)
  PROVE  IInv' /\ Extends(store', store)
<1>1. b \in Blocks /\ failed' \subseteq Blocks
  BY TypeFacts DEF InvalidateBlock
<1>2. On(b, tip) => Parent[b] \in Nodes /\ Parent[b] # tip
  BY <1>1, TypeFacts, ParentFacts, OnParent DEF Nodes
<1>3. TargetOK(target', tip)
  <2>1. CASE On(b, tip)
    BY <1>2, <2>1, ActivateTarget DEF InvalidateBlock
  <2>2. CASE ~ On(b, tip)
    BY <2>2 DEF InvalidateBlock, IInv, NodeOK
  <2> QED BY <2>1, <2>2
<1> QED BY <1>1, <1>3, TargetKeeps DEF InvalidateBlock

(* The next block to connect, and what it takes to be accepted.            *)
LEMMA NextBlockFacts ==
  ASSUME IInv, Connecting
  PROVE  NextBlock \in Blocks /\ Parent[NextBlock] = tip /\ On(NextBlock, target.to)
<1>1. target.to \in Nodes /\ target.to # tip /\ On(tip, target.to)
  BY DEF Connecting, IInv, NodeOK, TargetOK
<1> QED BY <1>1, TypeFacts, NextOnChain DEF NextBlock

LEMMA ConnectInvalidKeeps ==
  ASSUME IInv, ConnectInvalid
  PROVE  IInv' /\ Extends(store', store)
<1>1. failed' \subseteq Blocks
  BY TypeFacts, NextBlockFacts DEF ConnectInvalid
<1>2. TargetOK(target', tip)
  BY DEF ConnectInvalid, TargetOK
<1> QED BY <1>1, <1>2, TargetKeeps DEF ConnectInvalid

LEMMA MemoryImageOK ==
  ASSUME IInv
  PROVE  DiskOK(MemoryImage, store, chosen, Recovery)
<1>1. MemoryImage.tip = tip /\ MemoryImage.mirror = mirror
  BY DEF MemoryImage
<1> QED BY <1>1 DEF IInv, NodeOK, DiskOK

LEMMA FlushKeeps ==
  ASSUME IInv, Flush
  PROVE  IInv' /\ Extends(store', store)
BY MemoryImageOK, TypeFacts, NothingSaved DEF Flush, node, IInv

LEMMA CrashKeeps ==
  ASSUME IInv, Crash
  PROVE  IInv' /\ Extends(store', store)
<1>1. PICK image : Die(image) /\ DiskOK(image, store, chosen, Recovery)
  <2>1. CASE Die(disk)
    BY <2>1 DEF IInv
  <2>2. CASE Die(Broken)
    BY <2>2 DEF DiskOK
  <2> QED BY <2>1, <2>2 DEF Crash
<1>2. /\ NodeOK(mode', tip', mirror', target', store, chosen, Recovery)
      /\ DiskOK(disk', store, chosen, Recovery)
  BY <1>1, TypeFacts, DieKeeps
<1> QED BY <1>2, TypeFacts, NothingSaved DEF Crash

LEMMA StartKeeps ==
  ASSUME IInv, Start
  PROVE  IInv' /\ Extends(store', store)
<1>1. NodeOK(mode', tip', mirror', target', store, chosen, Recovery)
  BY DEF Start, IInv, NodeOK
<1> QED BY <1>1, TypeFacts, NothingSaved DEF Start, IInv

LEMMA ReindexKeeps ==
  ASSUME IInv, Reindex
  PROVE  IInv' /\ Extends(store', store)
<1>1. ImageOK(<<>>, Root, store, chosen, Recovery)
  BY TypeFacts, RootImage
<1>2. TargetOK(target', Root)
  BY DEF TargetOK, Reindex, IInv, NodeOK
<1>3. NodeOK(mode', tip', mirror', target', store, chosen, Recovery)
  BY <1>1, <1>2 DEF Reindex, IInv, NodeOK
<1>4. DiskOK(disk', store, chosen, Recovery)
  BY <1>1 DEF Reindex, DiskOK
<1> QED BY <1>3, <1>4, TypeFacts, NothingSaved DEF Reindex, IInv

-----------------------------------------------------------------------------
(* A certificate of the committee: nothing that was certified changes.     *)
LEMMA CertifyKeeps ==
  ASSUME IInv, NEW b \in network.blocks, Certify(b)
  PROVE  IInv' /\ Extends(store', store)
<1> DEFINE r == Recovery
           h == Height(b)
<1>1. /\ b \in Blocks /\ h \in Heights /\ h \in Nat \ {0}
      /\ Parent[b] \in Nodes /\ h = Height(Parent[b]) + 1 /\ Height(Parent[b]) \in Nat
      /\ FinalityAncestor(b, h) = b
      /\ \A k \in 1..Height(Parent[b]) : FinalityAncestor(b, k) = FinalityAncestor(Parent[b], k)
  BY TypeFacts, HeightRange, ParentFacts, ChainFacts, BlockCount
<1>2. /\ chosen[h] = None /\ Parent[b] \notin Empty
      /\ chosen' \in Slots /\ chosen'[h] = b
      /\ \A k \in Heights \ {h} : chosen'[k] = chosen[k]
      /\ UNCHANGED <<network, known, failed, mode, tip, mirror, target, disk, store, journal>>
  BY <1>1, TypeFacts DEF Certify, Slots, node
<1>3. \A k \in Heights : chosen[k] # None => chosen'[k] = chosen[k]
  BY <1>2
<1>4. r' = r
  BY <1>2 DEF Recovery
<1>5. \/ r # None /\ On(r, b) /\ Height(r) < h
      \/ \A k \in 1..(h - 1) : FinalityAncestor(b, k) \notin Empty
  <2>1. CASE Parent[b] = Root
    BY <1>1, <2>1, RootHeight
  <2>2. CASE Parent[b] = r
    BY <1>1, <2>2, OnParent, OnSelf, TreeAssumption DEF Nodes
  <2>3. CASE Parent[b] \in ToSet(chosen)
    <3>1. PICK k \in Heights : Parent[b] = chosen[k]
      BY <2>3, TypeFacts DEF ToSet, Slots
    <3>2. Parent[b] # None
      BY <1>1, TreeAssumption DEF Nodes
    <3>3. /\ Height(Parent[b]) = k /\ k \in Nat
          /\ \/ r # None /\ On(r, Parent[b]) /\ Height(r) < k
             \/ \A j \in 1..(k - 1) : FinalityAncestor(Parent[b], j) \notin Empty
      BY <1>1, <3>1, <3>2 DEF IInv, WorldOK, CertifiedOK
    <3>4. CASE r # None /\ On(r, Parent[b]) /\ Height(r) < k
      <4>1. r \in Nodes /\ Height(r) \in Nat
        BY <3>4, TypeFacts, ChainFacts, BlockCount DEF Checkpoint, Nodes
      <4> QED BY <1>1, <3>3, <3>4, <4>1, OnParent
    <3>5. CASE \A j \in 1..(k - 1) : FinalityAncestor(Parent[b], j) \notin Empty
      <4>1. k # 0 => FinalityAncestor(b, k) = Parent[b]
        <5>1. Parent[b] \in Blocks
          BY <1>1, <3>1, <3>2, TypeFacts DEF Slots
        <5>2. FinalityAncestor(Parent[b], k) = Parent[b]
          BY <3>3, <5>1, ParentFacts
        <5> QED BY <1>1, <3>3, <5>2
      <4>2. \A j \in 1..(h - 1) : FinalityAncestor(b, j) \notin Empty
        BY <1>1, <1>2, <3>3, <3>5, <4>1
      <4> QED BY <4>2
    <3> QED BY <3>3, <3>4, <3>5
  <2> QED BY <2>1, <2>2, <2>3 DEF Certify
<1>6. CertifiedOK(chosen', r)
  <2> SUFFICES ASSUME NEW k \in Heights, chosen'[k] # None
               PROVE  /\ Height(chosen'[k]) = k
                      /\ \/ r # None /\ On(r, chosen'[k]) /\ Height(r) < k
                         \/ \A j \in 1..(k - 1) : FinalityAncestor(chosen'[k], j) \notin Empty
    BY <1>2 DEF CertifiedOK
  <2>1. CASE k = h
    BY <1>2, <1>5, <2>1
  <2>2. CASE k # h
    BY <1>2, <2>2 DEF IInv, WorldOK, CertifiedOK
  <2> QED BY <2>1, <2>2
<1>7. SavedOK(store, chosen', r)
  <2>1. \A k \in Heights : store[k] \in {None, chosen'[k], r}
    BY <1>3 DEF IInv, WorldOK, SavedOK
  <2>2. Marker(r, store) => DeadEnd(r, chosen')
    <3> SUFFICES ASSUME Marker(r, store) PROVE DeadEnd(r, chosen')
      OBVIOUS
    <3>1. r \in Blocks /\ Height(r) \in Nat
      BY TypeFacts, HeightRange DEF Marker, Checkpoint
    <3>2. PICK k \in 0..(Height(r) - 2) : /\ k > 0 => chosen[k] = FinalityAncestor(r, k)
                                         /\ FinalityAncestor(r, k + 1) \in Empty
      BY DEF IInv, WorldOK, SavedOK, DeadEnd
    <3>3. k > 0 => chosen'[k] = FinalityAncestor(r, k)
      <4> SUFFICES ASSUME k > 0 PROVE chosen'[k] = FinalityAncestor(r, k)
        OBVIOUS
      <4>1. k \in 1..Height(r) /\ k \in Heights
        BY <3>1, HeightRange
      <4>2. FinalityAncestor(r, k) # None
        BY <3>1, <4>1, AncestorFacts, TreeAssumption DEF Nodes
      <4> QED BY <1>3, <3>2, <4>1, <4>2
    <3> QED BY <3>2, <3>3 DEF DeadEnd
  <2> QED BY <2>1, <2>2 DEF IInv, WorldOK, SavedOK
<1>8. \A m, t : ImageOK(m, t, store, chosen, r) => ImageOK(m, t, store, chosen', r)
  BY <1>3, MirrorStable DEF ImageOK
<1>9. NodeOK(mode, tip, mirror, target, store, chosen', r) /\ DiskOK(disk, store, chosen', r)
  BY <1>8 DEF IInv, NodeOK, DiskOK
<1>10. WorldOK'
  BY <1>2, <1>4, <1>6, <1>7 DEF IInv, WorldOK
<1>11. /\ NodeOK(mode, tip, mirror, target, store, chosen, Recovery)'
       /\ DiskOK(disk, store, chosen, Recovery)'
  BY <1>2, <1>4, <1>9
<1>12. Extends(store', store)
  BY <1>2, TypeFacts, SameExtends
<1> QED BY <1>10, <1>11, <1>12 DEF IInv

LEMMA MarkedBelowTop ==
  ASSUME IInv, Marker(Recovery, store)
  PROVE  /\ Recovery \in Blocks /\ Height(Recovery) \in Nat
         /\ Height(Recovery) <= StoreHeight /\ StoreHeight \in Nat
<1>1. Recovery \in Blocks /\ Height(Recovery) \in Heights /\ Height(Recovery) \in Nat
  BY TypeFacts, HeightRange DEF Marker, Checkpoint
<1>2. store[Height(Recovery)] # None
  BY DEF Marker
<1> QED BY <1>1, <1>2, TypeFacts, TopFacts, Vocabulary

(* The tip goes, and with it only what it brought: a saved anchor or a     *)
(* marked checkpoint is never above the saved tip.                         *)
LEMMA DisconnectKeeps ==
  ASSUME IInv, DisconnectTip
  PROVE  IInv' /\ Extends(store', store)
<1> DEFINE r == Recovery
<1>1. tip \in Blocks /\ target # None /\ mode # "down"
  BY TypeFacts DEF DisconnectTip, On, Nodes, IInv, NodeOK
<1>2. UNCHANGED <<network, chosen, known, failed, store, journal>>
  BY DEF DisconnectTip
<1>3. CASE /\ ~ DisconnectRefused
           /\ tip' = Parent[tip]
           /\ mirror' = UndoBlock(tip)
           /\ target' = IF tip' = target.to THEN None ELSE target
           /\ UNCHANGED <<mode, disk>>
  <2>1. /\ Height(tip) > StoreHeight /\ Height(tip) \in Nat /\ StoreHeight \in Nat
        /\ Carries[tip] # 0 => mirror # <<>> /\ Last(mirror).carrier = tip
    BY <1>3, TypeFacts, BlockCount, TopFacts, Vocabulary DEF DisconnectRefused, UndoAccepts
  <2>2. mirror' = Undone(tip, mirror)
    BY <1>3 DEF UndoBlock, Undone
  <2>3. Marker(r, store) => Height(r) < Height(tip)
    BY <2>1, MarkedBelowTop
  <2>4. /\ MirrorOK(mirror', Parent[tip], r, store, chosen)
        /\ Holds(mirror, r) => Holds(mirror', r)
    BY <1>1, <2>1, <2>2, <2>3, TypeFacts, UndoTip DEF IInv, NodeOK, ImageOK, WorldOK
  <2>5. Restored(mirror', Parent[tip], r, store)
    <3> SUFFICES ASSUME Marker(r, store), On(r, Parent[tip]), Top(store) # r
                 PROVE  Holds(mirror', r)
      BY DEF Restored
    <3>1. On(r, tip)
      BY <1>1, MarkedBelowTop, OnParent DEF Nodes
    <3> QED BY <2>4, <3>1 DEF IInv, NodeOK, ImageOK, Restored
  <2>6. mode = "up" => UpOK(Parent[tip], mirror', store, r)
    <3> SUFFICES ASSUME mode = "up" PROVE UpOK(Parent[tip], mirror', store, r)
      OBVIOUS
    <3>1. UpOK(tip, mirror, store, r)
      BY DEF IInv, NodeOK
    <3>2. Top(store) \in Nodes /\ Top(store) # tip
      BY <2>1, TypeFacts, Vocabulary
    <3>3. On(Top(store), Parent[tip])
      BY <1>1, <3>1, <3>2, OnParent DEF UpOK
    <3> QED BY <2>4, <3>1, <3>3 DEF UpOK
  <2>7. TargetOK(target', tip')
    BY <1>3 DEF IInv, NodeOK, TargetOK
  <2>8. NodeOK(mode', tip', mirror', target', store, chosen, r)
    BY <1>1, <1>3, <2>4, <2>5, <2>6, <2>7 DEF IInv, NodeOK, ImageOK
  <2> QED BY <1>2, <1>3, <2>8, TypeFacts, NothingSaved DEF IInv
<1>4. CASE target' = None /\ UNCHANGED <<mode, tip, mirror, disk>>
  BY <1>2, <1>4, TypeFacts, TargetKeeps DEF TargetOK
<1>5. CASE Die(disk)
  <2>1. /\ NodeOK(mode', tip', mirror', target', store, chosen, Recovery)
        /\ DiskOK(disk', store, chosen, Recovery)
    BY <1>5, TypeFacts, DieKeeps DEF IInv
  <2> QED BY <1>2, <2>1, TypeFacts, NothingSaved
<1> QED BY <1>3, <1>4, <1>5 DEF DisconnectTip

(* The next block, with what it needs of a certificate if it carries one.  *)
LEMMA NextAccepted ==
  ASSUME IInv, Connecting, ConnectBlockAccepts(NextBlock)
  PROVE  LET b == NextBlock
             m == MirrorAfter(b, mirror)
         IN  /\ Accepted(b, mirror, chosen)
             /\ ImageOK(m, b, store, chosen, Recovery)
             /\ Holds(mirror, Recovery) => Holds(m, Recovery)
             /\ Carries[b] # 0 => Holds(m, Recovery) \/ MirrorHeight(m) = Carries[b]
             /\ TargetOK(IF b = target.to \/ Height(b) > target.over THEN None ELSE target, b)
<1> DEFINE b == NextBlock
           r == Recovery
<1>1. b \in Blocks /\ Parent[b] = tip
  BY NextBlockFacts
<1>2. Accepted(b, mirror, chosen)
  BY DEF ConnectBlockAccepts, CertificateAccepted, CertificateVerifies, Accepted
<1>3. /\ ImageOK(After(b, mirror, r, store), b, store, chosen, r)
      /\ Holds(mirror, r) => Holds(After(b, mirror, r, store), r)
      /\ Carries[b] # 0 => \/ Holds(After(b, mirror, r, store), r)
                           \/ MirrorHeight(After(b, mirror, r, store)) = Carries[b]
  <2>1. ImageOK(mirror, Parent[b], store, chosen, r)
    BY <1>1 DEF IInv, NodeOK
  <2> HIDE DEF b, r
  <2> QED BY <1>1, <1>2, <2>1, TypeFacts, ConnectBlock DEF r
<1>4. MirrorAfter(b, mirror) = After(b, mirror, r, store)
  BY Vocabulary
<1>5. TargetOK(IF b = target.to \/ Height(b) > target.over THEN None ELSE target, b)
  BY DEF IInv, NodeOK, TargetOK
<1> QED BY <1>2, <1>3, <1>4, <1>5

LEMMA ConnectTipKeeps ==
  ASSUME IInv, ConnectTip
  PROVE  IInv' /\ Extends(store', store)
<1> DEFINE b == NextBlock
<1>1. /\ Connecting /\ ConnectBlockAccepts(b) /\ b \in Blocks /\ Parent[b] = tip
      /\ tip' = b /\ mirror' = MirrorAfter(b, mirror) /\ mode' = mode
      /\ target' = IF b = target.to \/ Height(b) > target.over THEN None ELSE target
      /\ UNCHANGED <<network, chosen, known, failed, disk, store, journal>>
  BY NextBlockFacts DEF ConnectTip, Advance
<1>2. /\ ImageOK(mirror', tip', store, chosen, Recovery)
      /\ Holds(mirror, Recovery) => Holds(mirror', Recovery)
      /\ TargetOK(target', tip')
  BY <1>1, NextAccepted
<1>3. mode = "up" => UpOK(tip', mirror', store, Recovery)
  <2> SUFFICES ASSUME mode = "up" PROVE UpOK(tip', mirror', store, Recovery)
    OBVIOUS
  <2>1. UpOK(tip, mirror, store, Recovery)
    BY DEF IInv, NodeOK
  <2>2. On(Top(store), tip')
    BY <1>1, <2>1, TypeFacts, Vocabulary, OnParent DEF UpOK
  <2> QED BY <1>2, <2>1, <2>2 DEF UpOK
<1>4. mode # "down"
  BY <1>1 DEF Connecting, IInv, NodeOK
<1>5. NodeOK(mode', tip', mirror', target', store, chosen, Recovery)
  BY <1>1, <1>2, <1>3, <1>4 DEF IInv, NodeOK
<1> QED BY <1>1, <1>5, TypeFacts, NothingSaved DEF IInv

-----------------------------------------------------------------------------
(* Steps that save an anchor.                                              *)
LEMMA AnchorSaved ==
  ASSUME IInv, UNCHANGED <<network, chosen, known, failed>>,
         journal' \in Blocks \cup {None},
         SavedOK(store', chosen, Recovery),
         NodeOK(mode', tip', mirror', target', store', chosen, Recovery),
         DiskOK(disk', store', chosen, Recovery)
  PROVE  IInv'
<1>1. Recovery' = Recovery
  BY DEF Recovery
<1> QED BY <1>1 DEF IInv, WorldOK

LEMMA ConnectCarrierKeeps ==
  ASSUME IInv, ConnectCarrier
  PROVE  IInv' /\ Extends(store', store)
<1> DEFINE b == NextBlock
           r == Recovery
           m == MirrorAfter(b, mirror)
           flushed == [tip |-> b, mirror |-> m]
           anchor == FinalityAncestor(b, Carries[b])
<1>1. /\ Connecting /\ ConnectBlockAccepts(b) /\ Carries[b] # 0
      /\ UNCHANGED <<network, chosen, known, failed, journal>>
      /\ \/ Die(flushed) /\ UNCHANGED store
         \/ /\ StoreAccepts(anchor)
            /\ Advance(b)
            /\ disk' = flushed
            /\ StoreWrite(anchor)
  BY DEF ConnectCarrier
<1>2. b \in Blocks /\ Parent[b] = tip
  BY <1>1, NextBlockFacts
<1>3. /\ Accepted(b, mirror, chosen)
      /\ ImageOK(m, b, store, chosen, r)
      /\ Holds(mirror, r) => Holds(m, r)
      /\ Holds(m, r) \/ MirrorHeight(m) = Carries[b]
      /\ TargetOK(IF b = target.to \/ Height(b) > target.over THEN None ELSE target, b)
  BY <1>1, NextAccepted
<1> HIDE DEF b, m
<1>4. flushed.tip = b /\ flushed.mirror = m
  OBVIOUS
<1>5. CASE Die(flushed) /\ UNCHANGED store
  <2>1. DiskOK(flushed, store, chosen, r)
    BY <1>3, <1>4 DEF DiskOK
  <2>2. /\ NodeOK(mode', tip', mirror', target', store, chosen, r)
        /\ DiskOK(disk', store, chosen, r)
    BY <1>5, <2>1, TypeFacts, DieKeeps
  <2> QED BY <1>1, <1>5, <2>2, TypeFacts, NothingSaved
<1>6. CASE StoreAccepts(anchor) /\ Advance(b) /\ disk' = flushed /\ StoreWrite(anchor)
  <2>1. Carries[b] \in 1..Height(b) /\ chosen[Carries[b]] = anchor /\ Height(b) \in Nat
    <3>1. MirrorOK(mirror, tip, r, store, chosen)
      BY DEF IInv, NodeOK, ImageOK
    <3>2. MirrorHeight(mirror) \in Nat
      BY <3>1, MirrorTop
    <3>3. Height(b) \in Nat
      BY <1>2, ChainFacts, BlockCount DEF Nodes
    <3> QED BY <1>1, <1>3, <3>2, <3>3 DEF Accepted
  <2>2. anchor \in Blocks /\ Height(anchor) = Carries[b] /\ On(anchor, b)
    <3>1. anchor \in Blocks /\ Height(anchor) = Carries[b]
      BY <1>2, <2>1, AncestorFacts DEF Nodes
    <3> QED BY <1>2, <2>1, <3>1, OnFacts DEF Nodes
  <2> HIDE DEF anchor, flushed
  <2>3. Justified(anchor, chosen, r)
    BY <2>1, <2>2 DEF Justified
  <2>4. Savable(anchor, store)
    <3>1. CASE Height(anchor) > StoreHeight
      <4>1. StoreTip \in Nodes /\ Height(StoreTip) = StoreHeight /\ StoreHeight \in Nat
        BY TypeFacts, TopFacts, Vocabulary
      <4>2. On(StoreTip, b)
        <5> SUFFICES ASSUME On(b, StoreTip) PROVE FALSE
          BY <1>1 DEF ConnectBlockAccepts, IsAllowedBySavedAnchor, b
        <5>1. Height(b) <= Height(StoreTip)
          BY <1>2, <2>1, <4>1, OnFacts, TreeAssumption DEF Nodes
        <5> QED BY <2>1, <2>2, <3>1, <4>1, <5>1
      <4>3. On(StoreTip, anchor)
        BY <1>2, <2>1, <2>2, <3>1, <4>1, <4>2, OnSameChain DEF Nodes
      <4> QED BY <3>1, <4>3, Vocabulary DEF Savable, Above
    <3>2. CASE store[Height(anchor)] = anchor
      BY <3>2 DEF Savable
    <3> QED BY <1>6, <3>1, <3>2 DEF StoreAccepts
  <2>5. store' = With(store, anchor)
    BY <1>6 DEF StoreWrite, With
  <2>6. SavedOK(store, chosen, r) /\ CertifiedOK(chosen, r) /\ Checkpoint(r)
    BY TypeFacts DEF IInv, WorldOK
  <2>7. /\ SavedOK(store', chosen, r)
        /\ Extends(store', store)
        /\ Marker(r, store') <=> Marker(r, store) \/ anchor = r
        /\ Above(anchor, store) => Top(store') = anchor
        /\ ~ Above(anchor, store) => Top(store') = Top(store)
    BY <2>2, <2>3, <2>4, <2>5, <2>6, SaveAnchor DEF Extends
  <2>8. r # None => anchor # r
    BY <2>1, <2>2, <2>6, CheckpointNotCertified, HeightRange
  <2>9. ImageOK(m, b, store', chosen, r)
    <3>1. Holds(m, r) \/ Height(anchor) <= MirrorHeight(m) + 1
      BY <1>3, <2>1, <2>2
    <3> QED BY <1>3, <2>1, <2>2, <2>4, <2>5, <2>6, <3>1, SaveReached
  <2>10. tip' = b /\ mirror' = m /\ mode' = mode /\ TargetOK(target', b)
    BY <1>3, <1>6 DEF Advance, b, m
  <2>11. mode = "up" => UpOK(b, m, store', r)
    <3> SUFFICES ASSUME mode = "up" PROVE UpOK(b, m, store', r)
      OBVIOUS
    <3>1. UpOK(tip, mirror, store, r)
      BY DEF IInv, NodeOK
    <3>2. On(Top(store), b)
      BY <1>2, <3>1, TypeFacts, Vocabulary, OnParent DEF UpOK
    <3>3. Marker(r, store') => Holds(m, r)
      BY <1>3, <2>7, <2>8, <3>1 DEF UpOK, Marker
    <3> QED BY <2>2, <2>7, <3>2, <3>3 DEF UpOK
  <2>12. mode # "down"
    BY <1>1 DEF Connecting, IInv, NodeOK
  <2>13. NodeOK(mode', tip', mirror', target', store', chosen, r)
    BY <2>9, <2>10, <2>11, <2>12 DEF IInv, NodeOK
  <2>14. DiskOK(disk', store', chosen, r)
    BY <1>4, <1>6, <2>9 DEF DiskOK
  <2> QED BY <1>1, <2>7, <2>13, <2>14, TypeFacts, AnchorSaved
<1> QED BY <1>1, <1>5, <1>6

LEMMA CommitmentKeeps ==
  ASSUME IInv, RecordCommitment
  PROVE  IInv' /\ Extends(store', store)
<1> DEFINE h == VotingHeight
           b == FinalityAncestor(tip, h)
           r == Recovery
<1>1. /\ target = None /\ On(StoreTip, tip) /\ h <= Height(tip)
      /\ b = chosen[h] /\ MirrorHeight(mirror) + 1 = h /\ journal' = b
      /\ UNCHANGED <<network, chosen, known, failed>>
      /\ \/ Die(MemoryImage) /\ UNCHANGED store
         \/ disk' = MemoryImage /\ UNCHANGED <<mode, tip, mirror, target, store>>
         \/ disk' = MemoryImage /\ UNCHANGED <<mode, tip, mirror, target>> /\ StoreWrite(b)
  BY DEF RecordCommitment, node
<1>2. /\ MirrorHeight(mirror) \in Nat /\ Height(tip) \in Nat /\ StoreHeight \in Nat
      /\ Height(StoreTip) = StoreHeight /\ StoreTip \in Nodes /\ tip \in Nodes
  BY MirrorTop, TypeFacts, TopFacts, Vocabulary DEF IInv, NodeOK, ImageOK
<1>3. h \in 1..Height(tip) /\ StoreHeight < h
  <2>1. h \in 1..Height(tip)
    BY <1>1, <1>2
  <2>2. h = StoreHeight + 1 \/ StoreHeight = 0
    BY <1>2 DEF VotingHeight, HasSavedTip
  <2> QED BY <1>2, <2>1, <2>2
<1> HIDE DEF h
<1>4. b \in Blocks /\ Height(b) = h /\ On(b, tip)
  <2>1. b \in Blocks /\ Height(b) = h
    BY <1>2, <1>3, AncestorFacts
  <2> QED BY <1>2, <1>3, <2>1, OnFacts DEF Nodes
<1> HIDE DEF b
<1>5. CASE Die(MemoryImage) /\ UNCHANGED store
  <2>1. /\ NodeOK(mode', tip', mirror', target', store, chosen, r)
        /\ DiskOK(disk', store, chosen, r)
    BY <1>5, MemoryImageOK, TypeFacts, DieKeeps
  <2> QED BY <1>1, <1>4, <1>5, <2>1, TypeFacts, NothingSaved
<1>6. CASE disk' = MemoryImage /\ UNCHANGED <<mode, tip, mirror, target, store>>
  BY <1>1, <1>4, <1>6, MemoryImageOK, TypeFacts, NothingSaved DEF IInv
<1>7. CASE disk' = MemoryImage /\ UNCHANGED <<mode, tip, mirror, target>> /\ StoreWrite(b)
  <2>1. store' = With(store, b)
    BY <1>7 DEF StoreWrite, With
  <2>2. SavedOK(store, chosen, r) /\ CertifiedOK(chosen, r) /\ Checkpoint(r)
    BY TypeFacts DEF IInv, WorldOK
  <2>3. Justified(b, chosen, r)
    BY <1>1, <1>4 DEF Justified
  <2>4. Savable(b, store)
    <3>1. On(StoreTip, b)
      BY <1>1, <1>2, <1>3, <1>4, OnSameChain DEF Nodes
    <3> QED BY <1>3, <1>4, <3>1, Vocabulary DEF Savable, Above
  <2>5. Above(b, store)
    BY <1>3, <1>4, Vocabulary DEF Above
  <2>6. /\ SavedOK(store', chosen, r)
        /\ Extends(store', store)
        /\ Marker(r, store') <=> Marker(r, store) \/ b = r
        /\ Above(b, store) => Top(store') = b
    BY <1>4, <2>1, <2>2, <2>3, <2>4, SaveAnchor DEF Extends
  <2>7. r # None => b # r
    BY <1>1, <1>4, <2>2, CheckpointNotCertified, HeightRange
  <2>8. ImageOK(mirror, tip, store', chosen, r)
    <3>1. Height(b) <= MirrorHeight(mirror) + 1 /\ chosen[Height(b)] = b
      BY <1>1, <1>2, <1>3, <1>4
    <3>2. ImageOK(mirror, tip, store, chosen, r)
      BY DEF IInv, NodeOK
    <3> QED BY <1>4, <2>1, <2>2, <2>4, <3>1, <3>2, SaveReached
  <2>9. mode = "up" => UpOK(tip, mirror, store', r)
    <3> SUFFICES ASSUME mode = "up" PROVE UpOK(tip, mirror, store', r)
      OBVIOUS
    <3>1. UpOK(tip, mirror, store, r)
      BY DEF IInv, NodeOK
    <3>2. Marker(r, store') => Holds(mirror, r)
      BY <2>6, <2>7, <3>1 DEF UpOK, Marker
    <3> QED BY <1>4, <2>5, <2>6, <3>2 DEF UpOK
  <2>10. NodeOK(mode', tip', mirror', target', store', chosen, r)
    BY <1>7, <2>8, <2>9 DEF IInv, NodeOK
  <2>11. DiskOK(disk', store', chosen, r)
    BY <1>7, <2>8 DEF DiskOK, MemoryImage
  <2> QED BY <1>1, <1>4, <2>6, <2>10, <2>11, TypeFacts, AnchorSaved
<1> QED BY <1>1, <1>5, <1>6, <1>7 DEF b

(* The end of a start: with the checkpoint completed if it has to be.      *)
LEMMA FinishStartKeeps ==
  ASSUME NEW restored, NEW s, NEW r, NEW c,
         ImageOK(mirror, tip, s, c, r), TargetOK(target, tip),
         HasSavedTip' \/ DiskOK(disk, s, c, r), FinishStart(restored), Top(s) = StoreTip', r = Recovery,
         restored /\ On(Top(s), tip) =>
           /\ ImageOK(SkipTo(r, mirror), tip, s, c, r)
           /\ Holds(SkipTo(r, mirror), r),
         ~ restored /\ Marker(r, s) /\ On(Top(s), tip) => Holds(mirror, r)
  PROVE  NodeOK(mode', tip', mirror', target', s, c, r) /\ DiskOK(disk', s, c, r)
<1>1. RestoreRecovery(mirror) = SkipTo(r, mirror)
  BY Vocabulary
<1>2. /\ UNCHANGED <<tip, target>>
      /\ \/ disk' = [tip |-> tip, mirror |-> mirror']
         \/ disk' = disk /\ DiskOK(disk, s, c, r)
  BY DEF FinishStart
<1>3. ImageOK(mirror', tip, s, c, r) /\ (mode' = "up" => UpOK(tip, mirror', s, r))
      /\ mode' \in {"up", "refused"}
  <2>1. CASE On(StoreTip', tip) /\ (restored => RestoreAccepts(mirror))
    <3>1. CASE restored
      <4>1. mode' = "up" /\ mirror' = SkipTo(r, mirror)
        BY <1>1, <2>1, <3>1 DEF FinishStart
      <4> QED BY <2>1, <3>1, <4>1 DEF UpOK
    <3>2. CASE ~ restored
      <4>1. mode' = "up" /\ mirror' = mirror
        BY <2>1, <3>2 DEF FinishStart
      <4> QED BY <2>1, <3>2, <4>1 DEF UpOK
    <3> QED BY <3>1, <3>2
  <2>2. CASE ~ (On(StoreTip', tip) /\ (restored => RestoreAccepts(mirror)))
    <3>1. mode' = "refused" /\ mirror' = mirror
      BY <2>2 DEF FinishStart
    <3> QED BY <3>1
  <2> QED BY <2>1, <2>2
<1>4. DiskOK(disk', s, c, r)
  <2>1. CASE disk' = disk /\ DiskOK(disk, s, c, r)
    BY <2>1
  <2>2. CASE disk' = [tip |-> tip, mirror |-> mirror']
    BY <1>3, <2>2 DEF DiskOK
  <2> QED BY <1>2, <2>1, <2>2
<1> QED BY <1>2, <1>3, <1>4 DEF NodeOK

LEMMA ReconcileKeeps ==
  ASSUME IInv, Reconcile
  PROVE  IInv' /\ Extends(store', store)
<1> DEFINE r == Recovery
           restored == Marked /\ StoreTip = Recovery
<1>1. /\ UNCHANGED <<network, chosen, known, failed, store, journal>>
      /\ FinishStart(restored)
  BY DEF Reconcile
<1>2. Top(store) = StoreTip'
  BY <1>1 DEF StoreTip, StoreHeight, Top, TopHeight
<1>3. ImageOK(mirror, tip, store, chosen, r) /\ TargetOK(target, tip)
  BY DEF IInv, NodeOK
<1>4. restored <=> Marker(r, store) /\ Top(store) = r
  BY Vocabulary
<1>5. ASSUME restored, On(Top(store), tip)
      PROVE  /\ ImageOK(SkipTo(r, mirror), tip, store, chosen, r)
             /\ Holds(SkipTo(r, mirror), r)
  <2>1. Marker(r, store) /\ r \in Blocks /\ On(r, tip)
    BY <1>4, <1>5, MarkedBelowTop
  <2>2. MirrorOK(SkipTo(r, mirror), tip, r, store, chosen) /\ Holds(SkipTo(r, mirror), r)
    BY <1>3, <2>1, SkipToCheckpoint DEF ImageOK
  <2> QED BY <2>2 DEF ImageOK, Restored
<1>6. ASSUME ~ restored, Marker(r, store), On(Top(store), tip)
      PROVE  Holds(mirror, r)
  <2>1. r \in Blocks /\ Height(r) \in Heights /\ store[Height(r)] = r /\ r # None
    BY <1>6, MarkedBelowTop, HeightRange DEF Marker
  <2>2. On(r, Top(store))
    BY <2>1 DEF IInv, WorldOK, SavedOK
  <2>3. On(r, tip)
    BY <1>6, <2>1, <2>2, TypeFacts, Vocabulary, OnTransitive DEF Nodes
  <2> QED BY <1>3, <1>4, <1>6, <2>3 DEF ImageOK, Restored
<1> HIDE DEF restored
<1>7. DiskOK(disk, store, chosen, r)
  BY DEF IInv
<1>8. /\ NodeOK(mode', tip', mirror', target', store, chosen, r)
      /\ DiskOK(disk', store, chosen, r)
  BY <1>1, <1>2, <1>3, <1>5, <1>6, <1>7, FinishStartKeeps
<1> QED BY <1>1, <1>8, TypeFacts, NothingSaved

LEMMA ReconcileRecoveryKeeps ==
  ASSUME IInv, ReconcileRecovery
  PROVE  IInv' /\ Extends(store', store)
<1> DEFINE r == Recovery
<1>1. r # None /\ UNCHANGED <<network, chosen, known, failed, journal>>
  BY DEF ReconcileRecovery
<1>2. CASE Die(MemoryImage) /\ UNCHANGED store
  <2>1. /\ NodeOK(mode', tip', mirror', target', store, chosen, r)
        /\ DiskOK(disk', store, chosen, r)
    BY <1>2, MemoryImageOK, TypeFacts, DieKeeps
  <2> QED BY <1>1, <1>2, <2>1, TypeFacts, NothingSaved
<1>3. CASE /\ RecoveryValid
           /\ StoreWrite(r)
           /\ Die(MemoryImage) \/ FinishStart(TRUE)
  <2>1. /\ SavedOK(store, chosen, r) /\ CertifiedOK(chosen, r) /\ Checkpoint(r)
        /\ r \in Blocks /\ ImageOK(mirror, tip, store, chosen, r) /\ TargetOK(target, tip)
    BY <1>1, TypeFacts DEF IInv, WorldOK, NodeOK, Checkpoint
  <2>2. /\ On(r, tip) /\ On(Top(store), tip) /\ r \notin Empty
        /\ Height(r) <= TopHeight(store) => Marker(r, store)
        /\ ~ Marker(r, store) => FinalityAncestor(tip, TopHeight(store) + 1) \in Empty
    BY <1>3, Vocabulary DEF RecoveryValid
  <2>3. store' = With(store, r)
    BY <1>3 DEF StoreWrite, With
  <2>4. /\ DeadEnd(r, chosen) /\ Savable(r, store)
        /\ ImageOK(mirror, tip, store', chosen, r)
        /\ ImageOK(SkipTo(r, mirror), tip, store', chosen, r)
        /\ Holds(SkipTo(r, mirror), r)
    BY <2>1, <2>2, <2>3, MarkCheckpoint
  <2>5. SavedOK(store', chosen, r) /\ Extends(store', store)
    <3>1. Justified(r, chosen, r)
      BY <2>4 DEF Justified
    <3> QED BY <2>1, <2>3, <2>4, <3>1, SaveAnchor DEF Extends
  <2>6. /\ NodeOK(mode', tip', mirror', target', store', chosen, r)
        /\ DiskOK(disk', store', chosen, r)
    <3>1. CASE Die(MemoryImage)
      <4>1. DiskOK(MemoryImage, store', chosen, r)
        BY <2>4 DEF DiskOK, MemoryImage
      <4> QED BY <2>1, <3>1, <4>1, DieKeeps
    <3>2. CASE FinishStart(TRUE)
      <4> DEFINE s == store'
      <4>1. Top(s) = StoreTip'
        BY DEF StoreTip, StoreHeight, Top, TopHeight
      <4>2. HasSavedTip'
        <5>1. HasSavedTip /\ Seeded' = Seeded
          BY <1>1, <1>3 DEF RecoveryValid, Seeded
        <5>2. StoreHeight' >= StoreHeight /\ StoreHeight \in Nat /\ StoreHeight' \in Nat
          <6>1. StoreHeight' = TopHeight(store')
            BY DEF StoreHeight, TopHeight
          <6>2. TopHeight(store') \in Nat /\ TopHeight(store) \in Nat
            BY <2>1, <2>5, TopFacts DEF SavedOK
          <6> QED BY <2>5, <6>1, <6>2, Vocabulary DEF Extends
        <5> QED BY <5>1, <5>2 DEF HasSavedTip
      <4> QED BY <2>1, <2>4, <3>2, <4>1, <4>2, FinishStartKeeps
    <3> QED BY <1>3, <3>1, <3>2
  <2> QED BY <1>1, <2>5, <2>6, TypeFacts, AnchorSaved
<1> QED BY <1>2, <1>3 DEF ReconcileRecovery

-----------------------------------------------------------------------------
(* Each step keeps the invariant and what is saved.                        *)
LEMMA StepKeeps ==
  ASSUME IInv, [Next]_vars
  PROVE  IInv' /\ Extends(store', store)
<1>1. CASE \E b \in network.blocks :
             \/ Certify(b) \/ Learn(b) \/ SelectCandidate(b)
             \/ PreferCertified(b) \/ InvalidateBlock(b)
  BY <1>1, CertifyKeeps, LearnKeeps, SelectKeeps, PreferKeeps, InvalidateKeeps
<1>2. CASE DisconnectTip
  BY <1>2, DisconnectKeeps
<1>3. CASE ConnectInvalid
  BY <1>3, ConnectInvalidKeeps
<1>4. CASE ConnectTip
  BY <1>4, ConnectTipKeeps
<1>5. CASE ConnectCarrier
  BY <1>5, ConnectCarrierKeeps
<1>6. CASE RecordCommitment
  BY <1>6, CommitmentKeeps
<1>7. CASE Flush
  BY <1>7, FlushKeeps
<1>8. CASE Crash
  BY <1>8, CrashKeeps
<1>9. CASE Start
  BY <1>9, StartKeeps
<1>10. CASE Reindex
  BY <1>10, ReindexKeeps
<1>11. CASE Reconcile
  BY <1>11, ReconcileKeeps
<1>12. CASE ReconcileRecovery
  BY <1>12, ReconcileRecoveryKeeps
<1>13. CASE UNCHANGED vars
  <2>1. UNCHANGED <<network, chosen, known, failed, mode, tip, mirror, target, disk, store, journal>>
    BY <1>13 DEF vars, node
  <2> QED BY <2>1, TypeFacts, NothingSaved DEF IInv
<1> QED BY <1>1, <1>2, <1>3, <1>4, <1>5, <1>6, <1>7, <1>8, <1>9, <1>10, <1>11, <1>12, <1>13
        DEF Next

LEMMA Invariance == Spec => []IInv
<1>1. IInv /\ [Next]_vars => IInv'
  BY StepKeeps
<1> QED BY InitInv, <1>1, PTL DEF Spec

(* The variables have their types, in every network.                       *)
THEOREM TypeCorrect == Spec => []TypeOK
<1>1. IInv => TypeOK
  BY TypeFacts DEF IInv, WorldOK, NodeOK, TargetOK, Slots, Nodes, TypeOK
<1> QED BY Invariance, <1>1, PTL

(* Whatever the node does or dies of, an anchor it has saved is never      *)
(* replaced or removed, and its saved tip never goes down.                 *)
THEOREM SavedForEverHolds == Spec => SavedForEver
<1>1. IInv /\ [Next]_vars =>
        [/\ StoreHeight' >= StoreHeight
         /\ \A h \in Heights : store[h] # None => store'[h] = store[h]]_vars
  <2> SUFFICES ASSUME IInv, [Next]_vars
               PROVE  /\ StoreHeight' >= StoreHeight
                      /\ \A h \in Heights : store[h] # None => store'[h] = store[h]
    OBVIOUS
  <2>1. StoreHeight' = TopHeight(store')
    BY DEF StoreHeight, TopHeight
  <2> QED BY <2>1, StepKeeps, Vocabulary DEF Extends
<1> QED BY Invariance, <1>1, PTL DEF Spec, SavedForEver

(* What is saved was certified, or approved beyond a dead end, and the     *)
(* chain of a started node always has the last of it.                      *)
THEOREM SavedAnchorsHoldHolds == Spec => []SavedAnchorsHold
<1>1. IInv => SavedAnchorsHold
  <2> SUFFICES ASSUME IInv PROVE SavedAnchorsHold
    OBVIOUS
  <2>1. \A h \in Heights : store[h] \in {None, chosen[h], Recovery}
    BY DEF IInv, WorldOK, SavedOK
  <2>2. Marked => DeadEndBelow(Recovery)
    BY Vocabulary DEF IInv, WorldOK, SavedOK, DeadEnd, DeadEndBelow
  <2>3. mode = "up" => On(StoreTip, tip)
    BY Vocabulary DEF IInv, NodeOK, UpOK
  <2> QED BY <2>1, <2>2, <2>3 DEF SavedAnchorsHold
<1> QED BY Invariance, <1>1, PTL

(* A mirror of the invariant is one as the property has it.                *)
LEMMA MirrorsIs ==
  ASSUME NEW m, NEW t, MirrorOK(m, t, Recovery, store, chosen)
  PROVE  Mirrors(m, t)
<1>1. /\ m \in Seq(Anchors) /\ t \in Nodes /\ Len(m) \in Nat /\ DOMAIN m = 1..Len(m)
      /\ \A i \in 1..Len(m) : EntryOK(m, i, t, Recovery, store, chosen)
  BY EntryTypes DEF MirrorOK
<1>2. \A c : c \in Blocks /\ On(c, t) <=> c \in ToSet(ChainOf[t])
  <2>1. \A h \in 1..Height(t) : FinalityAncestor(t, h) \in Blocks
    BY <1>1, AncestorFacts
  <2>2. ToSet(ChainOf[t]) \subseteq Blocks
    <3>1. ToSet(ChainOf[t]) = {FinalityAncestor(t, h) : h \in 1..Height(t)}
      BY <1>1, ChainFacts
    <3>2. {FinalityAncestor(t, h) : h \in 1..Height(t)} \subseteq Blocks
      BY <2>1
    <3> QED BY <3>1, <3>2
  <2> QED BY <2>2, TreeAssumption DEF On
<1>3. {m[i].carrier : i \in DOMAIN m} \ {None} = {c \in ToSet(ChainOf[t]) : Carries[c] # 0}
  <2>1. ASSUME NEW i \in 1..Len(m), m[i].carrier # None
        PROVE  m[i].carrier \in ToSet(ChainOf[t]) /\ Carries[m[i].carrier] # 0
    BY <1>1, <1>2, <2>1, EntryTypes DEF EntryOK
  <2>2. ASSUME NEW c \in ToSet(ChainOf[t]), Carries[c] # 0
        PROVE  c # None /\ \E i \in 1..Len(m) : m[i].carrier = c
    BY <1>2, <2>2, TreeAssumption DEF MirrorOK
  <2> QED BY <1>1, <2>1, <2>2
<1>4. ASSUME NEW i \in DOMAIN m
      PROVE  LET below == MirrorHeight(SubSeq(m, 1, i - 1))
             IN  /\ m[i].block = FinalityAncestor(t, m[i].height)
                 /\ IF m[i].carrier = None
                    THEN Marked /\ m[i].block = Recovery /\ m[i].height > below
                    ELSE Carries[m[i].carrier] = m[i].height /\ m[i].height = below + 1
  <2> DEFINE below == MirrorHeight(SubSeq(m, 1, i - 1))
             last == IF i = 1 THEN 0 ELSE m[i - 1].height
  <2>1. i \in 1..Len(m) /\ EntryOK(m, i, t, Recovery, store, chosen)
    BY <1>1
  <2>2. below = last
    <3>1. CASE i = 1
      <4>1. SubSeq(m, 1, 0) = <<>>
        BY SubSeqEmpty
      <4> QED BY <3>1, <4>1 DEF MirrorHeight
    <3>2. CASE i # 1
      <4>1. i - 1 \in 1..Len(m) /\ i - 1 \in Nat
        BY <1>1, <2>1, <3>2
      <4>2. \A j \in 1..(i - 1) : m[j] \in Anchors
        BY <1>1, <2>1, EntryTypes
      <4> DEFINE front == SubSeq(m, 1, i - 1)
      <4>3. /\ front \in Seq(Anchors) /\ Len(front) = i - 1
            /\ front[i - 1] = m[i - 1]
        BY <4>1, <4>2, SubSeqProperties
      <4>4. front # <<>>
        BY <4>1, <4>3, EmptySeq
      <4> QED BY <3>2, <4>3, <4>4 DEF MirrorHeight, Last
    <3> QED BY <3>1, <3>2
  <2>3. m[i].height > last
    <3>1. m[i].height \in Nat \ {0}
      BY <1>1, <2>1, EntryTypes
    <3>2. i # 1 => i - 1 \in 1..(i - 1) /\ m[i - 1].height \in Nat
      BY <1>1, <2>1, EntryTypes
    <3> QED BY <2>1, <3>1, <3>2 DEF EntryOK
  <2>4. m[i].carrier = None => Marked /\ m[i].block = Recovery
    BY <2>1, Vocabulary DEF EntryOK
  <2>5. m[i].carrier # None =>
          Carries[m[i].carrier] = m[i].height /\ m[i].height = last + 1
    <3>1. last \in Nat
      BY <1>1, <2>1, EntryTypes
    <3> QED BY <2>1, <3>1 DEF EntryOK
  <2>6. m[i].block = FinalityAncestor(t, m[i].height)
    BY <2>1 DEF EntryOK
  <2> QED BY <2>2, <2>3, <2>4, <2>5, <2>6
<1> QED BY <1>3, <1>4 DEF Mirrors

(* The mirror is that of the chain, in memory and as flushed, through any  *)
(* reorganizations, crashes and reindexes.                                 *)
THEOREM MirrorMatchesChainHolds == Spec => []MirrorMatchesChain
<1>1. IInv => MirrorMatchesChain
  <2> SUFFICES ASSUME IInv PROVE MirrorMatchesChain
    OBVIOUS
  <2>1. Mirrors(mirror, tip)
    BY MirrorsIs DEF IInv, NodeOK, ImageOK
  <2>2. disk # Broken => Mirrors(disk.mirror, disk.tip)
    BY MirrorsIs DEF IInv, DiskOK, ImageOK
  <2>3. mode = "up" /\ Marked => \E i \in DOMAIN mirror : mirror[i].block = Recovery
    <3>1. DOMAIN mirror = 1..Len(mirror)
      BY EntryTypes DEF IInv, NodeOK, ImageOK, MirrorOK
    <3> QED BY <3>1, Vocabulary DEF IInv, NodeOK, UpOK, Holds
  <2> QED BY <2>1, <2>2, <2>3 DEF MirrorMatchesChain
<1> QED BY Invariance, <1>1, PTL

-----------------------------------------------------------------------------
(* Restarts, undos and reindexes: what a node has connected it can connect *)
(* again, and what it has saved it can reach.                              *)
(*                                                                         *)
(* A certificate is late when the block that carries it is above the       *)
(* approved checkpoint and the height it is for is not.                    *)
OnTime ==
  Recovery # None =>
    \A b \in Blocks :
      On(Recovery, Parent[b]) /\ Carries[b] # 0 => Carries[b] > Height(Recovery)

Punctual(r) ==
  r # None =>
    \A b \in Blocks : On(r, Parent[b]) /\ Carries[b] # 0 => Carries[b] > Height(r)

(* The certificate of b is the next one on b's own chain, or the first one *)
(* after the saved checkpoint.                                             *)
Fits(b, s, c, r) ==
  /\ Carries[b] < Height(b)
  /\ c[Carries[b]] = FinalityAncestor(b, Carries[b])
  /\ FinalityAncestor(b, Carries[b]) \notin Empty
  /\ \A a \in Blocks : On(a, Parent[b]) => Carries[a] < Carries[b]
  /\ \/ Carries[b] = 1
     \/ \E a \in Blocks : On(a, Parent[b]) /\ Carries[a] = Carries[b] - 1
     \/ Marker(r, s) /\ On(r, Parent[b]) /\ Carries[b] = Height(r) + 1

Fitting(t, s, c, r) == \A b \in Blocks : On(b, t) /\ Carries[b] # 0 => Fits(b, s, c, r)

LEMMA FittingRoot == \A s, c, r : Fitting(Root, s, c, r)
BY OnFacts, RootHeight, TreeAssumption DEF Fitting, Nodes

LEMMA FittingBelow ==
  ASSUME NEW a \in Nodes, NEW t \in Nodes, On(a, t), NEW s, NEW c, NEW r, Fitting(t, s, c, r)
  PROVE  Fitting(a, s, c, r)
BY OnTransitive DEF Fitting, Nodes

LEMMA FittingStable ==
  ASSUME NEW t \in Nodes, NEW s, NEW c, NEW r, NEW s2, NEW c2, Fitting(t, s, c, r),
         Marker(r, s) => Marker(r, s2),
         \A h \in Heights : c[h] # None => c2[h] = c[h]
  PROVE  Fitting(t, s2, c2, r)
<1> SUFFICES ASSUME NEW b \in Blocks, On(b, t), Carries[b] # 0 PROVE Fits(b, s2, c2, r)
  BY DEF Fitting
<1>1. Fits(b, s, c, r)
  BY DEF Fitting
<1>2. Carries[b] \in 1..Height(b) /\ Carries[b] \in Heights
  <2>1. Carries[b] \in Nat \ {0} /\ Height(b) \in Nat /\ Height(b) \in Heights
    BY TreeAssumption, BlockCount, HeightRange
  <2>2. PICK m \in Nat : Heights = 1..m
    BY HeightRange
  <2> QED BY <1>1, <2>1, <2>2 DEF Fits
<1>3. FinalityAncestor(b, Carries[b]) # None
  BY <1>2, AncestorFacts, TreeAssumption DEF Nodes
<1>4. c2[Carries[b]] = c[Carries[b]]
  BY <1>1, <1>2, <1>3 DEF Fits
<1> QED BY <1>1, <1>4 DEF Fits

LEMMA FittingNext ==
  ASSUME NEW b \in Blocks, NEW s, NEW c, NEW r, Fitting(Parent[b], s, c, r),
         Carries[b] # 0 => Fits(b, s, c, r)
  PROVE  Fitting(b, s, c, r)
BY OnParent DEF Fitting, Nodes

(* The heights of a mirror: each one of a carrier of the chain or of the   *)
(* checkpoint.                                                             *)
LEMMA MirrorCovers ==
  ASSUME NEW m, NEW t, NEW r, NEW s, NEW c, MirrorOK(m, t, r, s, c),
         CertifiedOK(c, r), Checkpoint(r)
  PROVE  /\ MirrorHeight(m) \in Nat
         /\ \A a \in Blocks : On(a, t) => Carries[a] <= MirrorHeight(m)
         /\ Holds(m, r) /\ r # None => Height(r) <= MirrorHeight(m)
         /\ \/ MirrorHeight(m) = 0
            \/ \E a \in Blocks : On(a, t) /\ Carries[a] = MirrorHeight(m)
            \/ /\ Marker(r, s) /\ On(r, t) /\ Holds(m, r)
               /\ Height(r) = MirrorHeight(m)
<1> DEFINE n == Len(m)
<1>1. /\ m \in Seq(Anchors) /\ n \in Nat /\ t \in Nodes
      /\ m = <<>> <=> n = 0
      /\ \A i \in 1..n : EntryOK(m, i, t, r, s, c)
  BY EntryTypes DEF MirrorOK
<1>2. /\ MirrorHeight(m) = IF n = 0 THEN 0 ELSE m[n].height
      /\ MirrorHeight(m) \in Nat /\ Height(t) \in Nat
      /\ \A i \in 1..n : m[i].height <= MirrorHeight(m)
  BY MirrorTop
<1>3. ASSUME NEW a \in Blocks, On(a, t) PROVE Carries[a] <= MirrorHeight(m)
  <2>1. CASE Carries[a] = 0
    BY <1>2, <2>1
  <2>2. CASE Carries[a] # 0
    <3>1. PICK i \in 1..n : m[i].carrier = a
      BY <1>3, <2>2 DEF MirrorOK
    <3>2. Carries[a] = m[i].height
      BY <1>1, <3>1, TreeAssumption DEF EntryOK
    <3> QED BY <1>2, <3>1, <3>2
  <2> QED BY <2>1, <2>2
<1>4. ASSUME NEW i \in 1..n, m[i].block = r, r # None
      PROVE  Height(r) = m[i].height /\ m[i].carrier = None
  <2>0. EntryOK(m, i, t, r, s, c) /\ m[i].height \in Nat \ {0}
    BY <1>1, EntryTypes
  <2>1. m[i].height \in 1..Height(t) /\ r = FinalityAncestor(t, m[i].height)
    BY <1>2, <1>4, <2>0 DEF EntryOK
  <2>2. Height(r) = m[i].height
    BY <1>1, <2>1, AncestorFacts
  <2>3. m[i].carrier = None
    <3> SUFFICES ASSUME m[i].carrier # None PROVE FALSE
      OBVIOUS
    <3>1. m[i].block = c[m[i].height] /\ m[i].height \in Heights
      BY <1>1, EntryTypes DEF EntryOK
    <3> QED BY <1>4, <3>1, CheckpointNotCertified
  <2> QED BY <2>2, <2>3
<1>5. Holds(m, r) /\ r # None => Height(r) <= MirrorHeight(m)
  BY <1>2, <1>4 DEF Holds
<1>6. ASSUME n # 0
      PROVE  \/ \E a \in Blocks : On(a, t) /\ Carries[a] = MirrorHeight(m)
             \/ /\ Marker(r, s) /\ On(r, t) /\ Holds(m, r)
                /\ Height(r) = MirrorHeight(m)
  <2>0. n \in 1..n /\ EntryOK(m, n, t, r, s, c)
    BY <1>1, <1>6
  <2>1. /\ EntryOK(m, n, t, r, s, c) /\ n \in 1..n
        /\ m[n].height \in 1..Height(t) /\ m[n].carrier \in Blocks \cup {None}
    <3>1. m[n].height \in Nat \ {0} /\ m[n].carrier \in Blocks \cup {None}
      BY <1>1, <2>0, EntryTypes
    <3> QED BY <1>2, <2>0, <3>1 DEF EntryOK
  <2>2. CASE m[n].carrier # None
    BY <1>2, <1>6, <2>1, <2>2 DEF EntryOK
  <2>3. CASE m[n].carrier = None
    <3>1. Marker(r, s) /\ m[n].block = r /\ r # None
      BY <2>1, <2>3 DEF EntryOK, Marker
    <3>2. Height(r) = m[n].height
      BY <1>4, <2>1, <3>1
    <3>3. r \in Blocks /\ FinalityAncestor(t, Height(r)) = r
      BY <2>1, <3>1, <3>2 DEF EntryOK, Checkpoint
    <3>4. On(r, t)
      BY <1>1, <2>1, <3>2, <3>3, OnFacts DEF Nodes
    <3> QED BY <1>2, <1>6, <2>1, <3>1, <3>2, <3>4 DEF Holds
  <2> QED BY <2>2, <2>3
<1> QED BY <1>2, <1>3, <1>5, <1>6

(* A certificate that the mirror accepts fits its chain.                   *)
LEMMA AcceptedFits ==
  ASSUME NEW b \in Blocks, NEW m, NEW r, NEW s, NEW c, MirrorOK(m, Parent[b], r, s, c),
         CertifiedOK(c, r), Checkpoint(r), Carries[b] # 0,
         Accepted(b, m, c), FinalityAncestor(b, Carries[b]) \notin Empty
  PROVE  Fits(b, s, c, r)
<1>1. /\ MirrorHeight(m) \in Nat /\ Carries[b] = MirrorHeight(m) + 1
      /\ \A a \in Blocks : On(a, Parent[b]) => Carries[a] <= MirrorHeight(m)
      /\ \/ MirrorHeight(m) = 0
         \/ \E a \in Blocks : On(a, Parent[b]) /\ Carries[a] = MirrorHeight(m)
         \/ Marker(r, s) /\ On(r, Parent[b]) /\ Height(r) = MirrorHeight(m)
  BY MirrorCovers DEF Accepted
<1>2. \A a \in Blocks : Carries[a] \in Nat
  BY TreeAssumption, BlockCount
<1>3. \A a \in Blocks : On(a, Parent[b]) => Carries[a] < Carries[b]
  BY <1>1, <1>2
<1>4. \/ Carries[b] = 1
      \/ \E a \in Blocks : On(a, Parent[b]) /\ Carries[a] = Carries[b] - 1
      \/ Marker(r, s) /\ On(r, Parent[b]) /\ Carries[b] = Height(r) + 1
  BY <1>1
<1> QED BY <1>3, <1>4 DEF Fits, Accepted

(* A certificate that fits its chain is accepted when the chain is         *)
(* connected once more, by the mirror it has then.                         *)
LEMMA FitsAccepted ==
  ASSUME NEW b \in Blocks, NEW m, NEW r, NEW s, NEW c, MirrorOK(m, Parent[b], r, s, c),
         CertifiedOK(c, r), Checkpoint(r), Punctual(r), Carries[b] # 0, Fits(b, s, c, r),
         Marker(r, s) /\ On(r, Parent[b]) => Holds(m, r)
  PROVE  Accepted(b, m, c) /\ FinalityAncestor(b, Carries[b]) \notin Empty
<1>1. /\ MirrorHeight(m) \in Nat
      /\ \A a \in Blocks : On(a, Parent[b]) => Carries[a] <= MirrorHeight(m)
      /\ Holds(m, r) /\ r # None => Height(r) <= MirrorHeight(m)
      /\ \/ MirrorHeight(m) = 0
         \/ \E a \in Blocks : On(a, Parent[b]) /\ Carries[a] = MirrorHeight(m)
         \/ Marker(r, s) /\ On(r, Parent[b]) /\ Height(r) = MirrorHeight(m)
  BY MirrorCovers
<1>2. Carries[b] \in Nat \ {0} /\ \A a \in Blocks : Carries[a] \in Nat
  BY TreeAssumption, BlockCount
<1>3. Marker(r, s) => r # None /\ Height(r) \in Nat
  BY HeightRange DEF Marker, Checkpoint
<1>4. MirrorHeight(m) < Carries[b]
  BY <1>1, <1>2, <1>3 DEF Fits, Punctual
<1>5. Carries[b] <= MirrorHeight(m) + 1
  <2>1. CASE Carries[b] = 1
    BY <1>1, <2>1
  <2>2. CASE \E a \in Blocks : On(a, Parent[b]) /\ Carries[a] = Carries[b] - 1
    BY <1>1, <1>2, <2>2
  <2>3. CASE Marker(r, s) /\ On(r, Parent[b]) /\ Carries[b] = Height(r) + 1
    BY <1>1, <1>3, <2>3
  <2> QED BY <2>1, <2>2, <2>3 DEF Fits
<1> QED BY <1>1, <1>2, <1>4, <1>5 DEF Accepted, Fits

(* The anchor of a tip above the saved checkpoint is the mirror's last.    *)
LEMMA LastCarrier ==
  ASSUME NEW b \in Blocks, NEW m, NEW r, NEW s, NEW c, MirrorOK(m, b, r, s, c),
         CertifiedOK(c, r), Checkpoint(r), Punctual(r), Carries[b] # 0, Fits(b, s, c, r),
         Marker(r, s) => Height(r) < Height(b)
  PROVE  m # <<>> /\ Last(m).carrier = b
<1> DEFINE n == Len(m)
<1>1. /\ m \in Seq(Anchors) /\ n \in Nat /\ b \in Nodes
      /\ m = <<>> <=> n = 0
      /\ \A i \in 1..n : EntryOK(m, i, b, r, s, c)
      /\ \A i \in 1..n : m[i].height \in Nat /\ m[i].carrier \in Blocks \cup {None}
  BY EntryTypes DEF MirrorOK, Nodes
<1>2. PICK i \in 1..n : m[i].carrier = b
  BY <1>1, OnSelf DEF MirrorOK
<1>3. m[i].height = Carries[b]
  BY <1>1, <1>2, TreeAssumption DEF EntryOK
<1> SUFFICES ASSUME i # n PROVE FALSE
  BY <1>1, <1>2 DEF Last
<1>4. n \in 1..n /\ i \in 1..(n - 1)
  BY <1>1
<1>5. m[i].height < m[n].height
  BY <1>1, <1>4 DEF EntryOK
<1>6. CASE m[n].carrier # None
  <2>1. /\ On(m[n].carrier, b) /\ m[n].carrier \in Blocks
        /\ Carries[m[n].carrier] = m[n].height
    BY <1>1, <1>4, <1>6 DEF EntryOK
  <2>2. m[n].carrier # b
    BY <1>1, <1>3, <1>4, <1>5, <2>1
  <2>3. On(m[n].carrier, Parent[b])
    BY <2>1, <2>2, OnParent DEF Nodes
  <2> QED BY <1>1, <1>3, <1>4, <1>5, <2>1, <2>3 DEF Fits
<1>7. CASE m[n].carrier = None
  <2>1. Marker(r, s) /\ m[n].block = r /\ r \in Blocks /\ r # None
    BY <1>1, <1>4, <1>7 DEF EntryOK, Marker, Checkpoint
  <2>2. m[n].height \in 1..Height(b) /\ r = FinalityAncestor(b, m[n].height)
    BY <1>1, <1>4, <2>1, EntryTypes, ChainFacts, BlockCount DEF EntryOK
  <2>3. Height(r) = m[n].height
    BY <1>1, <2>2, AncestorFacts
  <2>4. On(r, b)
    BY <1>1, <2>1, <2>2, <2>3, OnFacts DEF Nodes
  <2>5. r # b
    BY <2>1, HeightRange
  <2>6. On(r, Parent[b])
    BY <2>1, <2>4, <2>5, OnParent DEF Nodes
  <2>7. Carries[b] > Height(r)
    BY <2>1, <2>6 DEF Punctual
  <2> QED BY <1>1, <1>3, <1>4, <1>5, <2>3, <2>7
<1> QED BY <1>1, <1>4, <1>6, <1>7

-----------------------------------------------------------------------------
(* The way to the saved tip, with blocks k in the index, f of them failed, *)
(* s saved and c certified.                                                *)
Held(b, k) == b \in k \cup {Root}
Closed(k) == \A b \in k : \A a \in Blocks : On(a, b) => a \in k

(* The chain to t has the saved tip or can be extended to it.              *)
Leads(t, s, f) ==
  \/ On(Top(s), t)
  \/ On(t, Top(s)) /\ \A a \in Blocks : On(a, Top(s)) => a \notin f

Sound(t, k, s, c, r) == Held(t, k) /\ Fitting(t, s, c, r)
Led(t, k, f, s, c, r) == Sound(t, k, s, c, r) /\ Leads(t, s, f)

(* An activation never has to leave the saved tip.                         *)
Aimed(tg, t, k, s) ==
  tg # None =>
    /\ Held(tg.to, k)
    /\ \/ On(Top(s), tg.to)
       \/ On(t, tg.to) /\ On(tg.to, Top(s))

Paths ==
  /\ Closed(known)
  /\ Sound(Top(store), known, store, chosen, Recovery)
  /\ mode # "refused"
  /\ disk = Broken => mode = "down"
  /\ disk # Broken =>
       /\ Led(tip, known, failed, store, chosen, Recovery)
       /\ Led(disk.tip, known, failed, store, chosen, Recovery)
  /\ Aimed(target, tip, known, store)

LEMMA HeldBelow ==
  ASSUME NEW k, k \subseteq Blocks, Closed(k), NEW a \in Nodes, NEW t \in Nodes, On(a, t), Held(t, k)
  PROVE  Held(a, k)
<1>1. CASE t = Root
  BY <1>1, RootHeight, OnFacts DEF Held, Nodes
<1>2. CASE t # Root
  BY <1>2 DEF Held, Closed, Nodes
<1> QED BY <1>1, <1>2

LEMMA SoundBelow ==
  ASSUME NEW k, k \subseteq Blocks, Closed(k), NEW a \in Nodes, NEW t \in Nodes, On(a, t),
         NEW s, NEW c, NEW r, Sound(t, k, s, c, r)
  PROVE  Sound(a, k, s, c, r)
BY HeldBelow, FittingBelow DEF Sound

LEMMA SoundStable ==
  ASSUME NEW k, NEW k2, k \subseteq k2, NEW t \in Nodes, NEW s, NEW c, NEW r, NEW s2, NEW c2,
         Sound(t, k, s, c, r),
         Marker(r, s) => Marker(r, s2),
         \A h \in Heights : c[h] # None => c2[h] = c[h]
  PROVE  Sound(t, k2, s2, c2, r)
BY FittingStable DEF Sound, Held

(* What is saved grows on the chain to t, or under the saved tip.          *)
LEMMA LedSaved ==
  ASSUME NEW k, k \subseteq Blocks, Closed(k), NEW t \in Nodes, NEW f,
         NEW s, NEW s2, NEW c, NEW r, Checkpoint(r),
         \A h \in Heights : s[h] # None => s2[h] = s[h],
         Top(s) \in Nodes, Top(s2) \in Nodes, Sound(Top(s), k, s, c, r),
         Led(t, k, f, s, c, r),
         Top(s2) = Top(s) \/ On(Top(s2), t)
  PROVE  Sound(Top(s2), k, s2, c, r) /\ Led(t, k, f, s2, c, r)
<1>1. Marker(r, s) => Marker(r, s2)
  BY HeightRange DEF Marker, Checkpoint
<1>2. Sound(t, k, s2, c, r) /\ Sound(Top(s), k, s2, c, r)
  BY <1>1, SoundStable DEF Led
<1>3. Sound(Top(s2), k, s2, c, r)
  BY <1>2, SoundBelow
<1> QED BY <1>2, <1>3 DEF Led, Leads

(* The saved tip after b is saved.                                         *)
LEMMA SavedTop ==
  ASSUME NEW s \in Slots, NEW b \in Blocks, NEW s2 \in Slots, s2 = With(s, b),
         TopHeight(s2) >= TopHeight(s)
  PROVE  Top(s2) = Top(s) \/ Top(s2) = b
<1>1. /\ TopHeight(s) \in Nat /\ TopHeight(s2) \in Nat
      /\ TopHeight(s2) # 0 => TopHeight(s2) \in Heights /\ s2[TopHeight(s2)] # None
      /\ \A h \in Heights : s[h] # None => h <= TopHeight(s)
  BY TopFacts
<1>2. CASE TopHeight(s2) = 0
  BY <1>1, <1>2 DEF Top
<1>3. CASE TopHeight(s2) # 0 /\ TopHeight(s2) = Height(b)
  BY <1>1, <1>3 DEF Top, With, Slots
<1>4. CASE TopHeight(s2) # 0 /\ TopHeight(s2) # Height(b)
  <2>1. s2[TopHeight(s2)] = s[TopHeight(s2)]
    BY <1>1, <1>4 DEF With, Slots
  <2>2. TopHeight(s2) <= TopHeight(s)
    BY <1>1, <1>4, <2>1
  <2>3. TopHeight(s2) = TopHeight(s)
    BY <1>1, <2>2
  <2> QED BY <1>4, <2>1, <2>3 DEF Top
<1> QED BY <1>2, <1>3, <1>4

(* A started node has left the broken image behind.                        *)
LEMMA PathFacts ==
  ASSUME IInv, Paths
  PROVE  /\ known \subseteq Blocks /\ Closed(known)
         /\ Top(store) = StoreTip /\ Top(store) \in Nodes /\ tip \in Nodes
         /\ Height(Top(store)) = StoreHeight /\ StoreHeight \in Nat /\ Height(tip) \in Nat
         /\ Sound(Top(store), known, store, chosen, Recovery)
         /\ mode # "down" => disk # Broken /\ Led(tip, known, failed, store, chosen, Recovery)
         /\ target # None => mode # "down" /\ target.to \in Nodes \ {tip}
         /\ mode = "up" => On(Top(store), tip)
         /\ disk # Broken => disk.tip \in Nodes
<1>1. StoreHeight \in Nat
  BY TypeFacts, TopFacts, Vocabulary
<1>2. Height(tip) \in Nat
  BY TypeFacts, BlockCount
<1> QED BY <1>1, <1>2, TypeFacts, Vocabulary
        DEF Paths, IInv, NodeOK, TargetOK, UpOK, DiskOK, ImageOK, MirrorOK

(* An image of chain state is not a broken one.                            *)
LEMMA Intact ==
  ASSUME NEW t \in Nodes, NEW m \in Seq(Anchors)
  PROVE  [tip |-> t, mirror |-> m] # Broken /\ m # Broken
<1> DEFINE A == [height : Nat, block : Blocks, carrier : Blocks \cup {None}]
<1>1. Anchors \subseteq A
  BY HeightRange DEF Anchors
<1>2. m \in Seq(A)
  BY <1>1, SeqMonotonic
<1>3. [tip |-> t, mirror |-> m] \in [tip : Nodes, mirror : Seq(A)]
  BY <1>2
<1> QED BY <1>2, <1>3, BrokenAssumption DEF Nodes

LEMMA ImagesIntact ==
  ASSUME IInv
  PROVE  MemoryImage # Broken /\ [tip |-> Root, mirror |-> <<>>] # Broken
<1>1. mirror \in Seq(Anchors) /\ <<>> \in Seq(Anchors) /\ tip \in Nodes
  BY EmptySeq DEF IInv, NodeOK, ImageOK, MirrorOK
<1> QED BY <1>1, Intact, RootHeight DEF MemoryImage

(* A step that leaves the world alone.                                     *)
LEMMA SameWorld ==
  ASSUME Paths, UNCHANGED <<network, chosen, known, failed, store>>,
         mode' # "refused",
         disk' = Broken => mode' = "down",
         disk' # Broken =>
           /\ Led(tip', known, failed, store, chosen, Recovery)
           /\ Led(disk'.tip, known, failed, store, chosen, Recovery),
         Aimed(target', tip', known, store)
  PROVE  Paths'
<1>1. Recovery' = Recovery
  BY DEF Recovery
<1> QED BY <1>1 DEF Paths

LEMMA DiePath ==
  ASSUME Paths, NEW image, Die(image), UNCHANGED <<network, chosen, known, failed, store>>,
         image # Broken => Led(image.tip, known, failed, store, chosen, Recovery)
  PROVE  Paths'
<1>1. Aimed(target', tip', known, store)
  BY DEF Die, Aimed
<1> QED BY <1>1, SameWorld DEF Die

LEMMA AimPath ==
  ASSUME Paths, UNCHANGED <<network, chosen, known, failed, store, mode, tip, disk>>,
         Aimed(target', tip, known, store)
  PROVE  Paths'
BY SameWorld DEF Paths

-----------------------------------------------------------------------------
(* Steps that save nothing keep the way to the saved tip.                  *)
LEMMA CertifyPath ==
  ASSUME IInv, Paths, NEW b \in network.blocks, Certify(b)
  PROVE  Paths'
<1>1. /\ UNCHANGED <<network, known, failed, mode, tip, mirror, target, disk, store, journal>>
      /\ Recovery' = Recovery
  BY DEF Certify, node, Recovery
<1>2. \A h \in Heights : chosen[h] # None => chosen'[h] = chosen[h]
  BY TypeFacts DEF Certify, Slots
<1>3. \A t \in Nodes : Sound(t, known, store, chosen, Recovery)
                         => Sound(t, known, store, chosen', Recovery)
  BY <1>2, SoundStable
<1> QED BY <1>1, <1>3, PathFacts DEF Paths, Led

LEMMA LearnPath ==
  ASSUME IInv, Paths, NEW b \in network.blocks, Learn(b)
  PROVE  Paths'
<1>1. /\ UNCHANGED <<network, chosen, failed, mode, tip, mirror, target, disk, store, journal>>
      /\ Recovery' = Recovery /\ known' = known \cup {b} /\ Held(Parent[b], known)
      /\ b \in Blocks
  BY TypeFacts DEF Learn, node, Recovery, Held
<1>2. Closed(known')
  <2> SUFFICES ASSUME NEW x \in known', NEW a \in Blocks, On(a, x) PROVE a \in known'
    BY DEF Closed
  <2>1. CASE x \in known
    BY <1>1, <2>1 DEF Paths, Closed
  <2>2. CASE x = b
    <3>1. a = b \/ On(a, Parent[b])
      BY <1>1, <2>2, OnParent DEF Nodes
    <3>2. CASE On(a, Parent[b])
      <4>1. Held(a, known)
        BY <1>1, <3>2, HeldBelow, PathFacts, ParentFacts DEF Nodes
      <4> QED BY <1>1, <4>1, TreeAssumption DEF Held
    <3> QED BY <1>1, <3>1, <3>2
  <2> QED BY <1>1, <2>1, <2>2
<1>3. \A t : Held(t, known) => Held(t, known')
  BY <1>1 DEF Held
<1> QED BY <1>1, <1>2, <1>3 DEF Paths, Led, Sound, Aimed

(* A candidate not above the saved tip is on the way to it.                *)
LEMMA SelectPath ==
  ASSUME IInv, Paths, NEW b \in network.blocks, SelectCandidate(b)
  PROVE  Paths'
<1>1. /\ UNCHANGED <<network, chosen, known, failed, mode, tip, mirror, disk, store, journal>>
      /\ target' = [to |-> b, over |-> Height(tip)] /\ mode # "down"
      /\ b \in known /\ Height(b) > Height(tip)
      /\ On(StoreTip, b) \/ On(b, StoreTip)
  BY DEF SelectCandidate, BetterCandidates, IsAllowedBySavedAnchor, Activate, Running
<1>2. b \in Blocks /\ b \in Nodes /\ Height(b) \in Nat
  BY TypeFacts, HeightRange DEF Nodes
<1>3. ASSUME ~ On(StoreTip, b) PROVE On(tip, b)
  <2>1. On(b, StoreTip) /\ Height(b) <= StoreHeight
    BY <1>1, <1>2, <1>3, PathFacts, OnFacts, TreeAssumption
  <2>2. ~ On(StoreTip, tip)
    BY <1>1, <1>2, <2>1, PathFacts, OnFacts, RootHeight
  <2>3. On(tip, StoreTip)
    BY <1>1, <2>2, PathFacts DEF Led, Leads
  <2> QED BY <1>1, <1>2, <2>1, <2>3, PathFacts, OnSameChain
<1>4. Aimed(target', tip, known, store)
  BY <1>1, <1>3, PathFacts DEF Aimed, Held
<1> QED BY <1>1, <1>4, AimPath

LEMMA PreferPath ==
  ASSUME IInv, Paths, NEW b \in network.blocks, PreferCertified(b)
  PROVE  Paths'
<1>1. /\ UNCHANGED <<network, chosen, known, failed, mode, tip, mirror, disk, store, journal>>
      /\ target' = [to |-> b, over |-> Height(tip)]
      /\ b \in known /\ Height(b) > StoreHeight + 1
      /\ On(StoreTip, b) \/ On(b, StoreTip)
  BY DEF PreferCertified, CertifiedForkCandidate, IsAllowedBySavedAnchor, Activate
<1>2. b \in Blocks /\ b \in Nodes /\ Height(b) \in Nat
  BY TypeFacts, HeightRange DEF Nodes
<1>3. On(StoreTip, b)
  BY <1>1, <1>2, PathFacts, OnFacts
<1>4. Aimed(target', tip, known, store)
  BY <1>1, <1>3, PathFacts DEF Aimed, Held
<1> QED BY <1>1, <1>4, AimPath

LEMMA InvalidatePath ==
  ASSUME IInv, Paths, NEW b \in network.blocks, InvalidateBlock(b)
  PROVE  Paths'
<1>1. /\ UNCHANGED <<network, chosen, known, mode, tip, mirror, disk, store, journal>>
      /\ Recovery' = Recovery
      /\ mode = "up" /\ b \in known /\ failed' = failed \cup {b}
      /\ On(b, tip) => Height(b) > StoreHeight
      /\ IF On(b, tip) THEN Activate(Parent[b]) ELSE UNCHANGED target
  BY DEF InvalidateBlock, Recovery
<1>2. /\ b \in Blocks /\ b \in Nodes /\ Parent[b] \in Nodes /\ Height(b) \in Nat
      /\ On(Top(store), tip)
  BY <1>1, TypeFacts, HeightRange, ParentFacts, PathFacts DEF Nodes
<1>3. ~ On(b, Top(store))
  <2> SUFFICES ASSUME On(b, Top(store)) PROVE FALSE
    OBVIOUS
  <2>1. On(b, tip)
    BY <1>2, OnTransitive, PathFacts
  <2>2. Height(b) <= StoreHeight
    BY <1>2, OnFacts, PathFacts, TreeAssumption
  <2> QED BY <1>1, <1>2, <2>1, <2>2, PathFacts
<1>4. \A t : Led(t, known, failed, store, chosen, Recovery)
               => Led(t, known, failed', store, chosen, Recovery)
  BY <1>1, <1>3 DEF Led, Leads
<1>5. Aimed(target', tip, known, store)
  <2>1. CASE ~ On(b, tip)
    BY <1>1, <2>1 DEF Paths
  <2>2. CASE On(b, tip)
    <3>1. target'.to = Parent[b]
      BY <1>1, <2>2 DEF Activate
    <3>2. On(Top(store), b) /\ Top(store) # b
      BY <1>1, <1>2, <2>2, OnSameChain, PathFacts
    <3>3. On(Top(store), Parent[b])
      BY <1>2, <3>2, OnParent, PathFacts
    <3>4. Held(Parent[b], known)
      BY <1>1, <1>2, HeldBelow, PathFacts, OnParent, OnSelf DEF Held
    <3> QED BY <3>1, <3>3, <3>4 DEF Aimed
  <2> QED BY <2>1, <2>2
<1> QED BY <1>1, <1>4, <1>5 DEF Paths

(* The tip is undone only above the saved tip.                             *)
LEMMA DisconnectPath ==
  ASSUME IInv, Paths, DisconnectTip
  PROVE  Paths'
<1>1. /\ UNCHANGED <<network, chosen, known, failed, store, journal>>
      /\ target # None /\ ~ On(tip, target.to) /\ mode # "down" /\ disk # Broken
      /\ Led(tip, known, failed, store, chosen, Recovery)
  BY PathFacts DEF DisconnectTip
<1>2. CASE /\ ~ DisconnectRefused
           /\ tip' = Parent[tip]
           /\ target' = IF tip' = target.to THEN None ELSE target
           /\ UNCHANGED <<mode, disk>>
  <2>1. tip \in Blocks /\ Height(tip) > StoreHeight
    BY <1>1, <1>2, PathFacts DEF DisconnectRefused, On, Nodes
  <2>2. On(Top(store), tip) /\ Top(store) # tip
    BY <1>1, <2>1, PathFacts, OnFacts, TreeAssumption DEF Led, Leads
  <2>3. On(Top(store), Parent[tip])
    BY <2>1, <2>2, PathFacts, OnParent
  <2>4. Parent[tip] \in Nodes /\ On(Parent[tip], tip)
    BY <2>1, ParentFacts, OnParent, OnSelf
  <2>5. Led(Parent[tip], known, failed, store, chosen, Recovery)
    BY <1>1, <2>3, <2>4, SoundBelow, PathFacts DEF Led, Leads
  <2>6. Aimed(target', tip', known, store)
    BY <1>1, <1>2 DEF Paths, Aimed
  <2> QED BY <1>1, <1>2, <2>5, <2>6, SameWorld DEF Paths
<1>3. CASE target' = None /\ UNCHANGED <<mode, tip, mirror, disk>>
  BY <1>1, <1>3, AimPath DEF Aimed
<1>4. CASE Die(disk)
  BY <1>1, <1>4, DiePath DEF Paths
<1> QED BY <1>2, <1>3, <1>4 DEF DisconnectTip

(* A block on the way to the saved tip is never refused: its certificate   *)
(* was accepted before, and fits.                                          *)
LEMMA WayAccepted ==
  ASSUME IInv, Paths, OnTime, Connecting, On(NextBlock, StoreTip)
  PROVE  ConnectBlockAccepts(NextBlock)
<1> DEFINE b == NextBlock
           r == Recovery
<1>1. b \in Blocks /\ b \in Nodes /\ Parent[b] = tip
  BY NextBlockFacts DEF Nodes
<1>2. /\ CertifiedOK(chosen, r) /\ Checkpoint(r)
      /\ MirrorOK(mirror, Parent[b], r, store, chosen)
      /\ Restored(mirror, tip, r, store)
  BY <1>1, TypeFacts DEF IInv, WorldOK, NodeOK, ImageOK
<1>3. Punctual(r)
  BY DEF OnTime, Punctual
<1>4. Carries[b] # 0 => Fits(b, store, chosen, r)
  BY <1>1, PathFacts DEF Sound, Fitting
<1>5. ASSUME Marker(r, store), On(r, Parent[b]) PROVE Holds(mirror, r)
  <2>1. r \in Nodes /\ r # None
    BY <1>5, MarkedBelowTop DEF Nodes, Marker
  <2>2. Top(store) # r
    <3> SUFFICES ASSUME Top(store) = r PROVE FALSE
      OBVIOUS
    <3>1. On(b, Parent[b])
      BY <1>1, <1>5, <2>1, PathFacts, OnTransitive
    <3> QED BY <1>1, <3>1, OnParent
  <2> QED BY <1>1, <1>2, <1>5, <2>2 DEF Restored
<1>6. Carries[b] # 0 => Accepted(b, mirror, chosen) /\ FinalityAncestor(b, Carries[b]) \notin Empty
  <2> HIDE DEF b, r
  <2> QED BY <1>1, <1>2, <1>3, <1>4, <1>5, FitsAccepted
<1> QED BY <1>6 DEF ConnectBlockAccepts, IsAllowedBySavedAnchor, CertificateAccepted,
                    CertificateVerifies, Accepted

LEMMA ConnectInvalidPath ==
  ASSUME IInv, Paths, OnTime, ConnectInvalid
  PROVE  Paths'
<1>1. /\ UNCHANGED <<network, chosen, known, mode, tip, mirror, disk, store, journal>>
      /\ Recovery' = Recovery /\ target' = None /\ failed' = failed \cup {NextBlock}
      /\ ~ On(NextBlock, Top(store))
  BY WayAccepted, PathFacts DEF ConnectInvalid, Recovery
<1>2. \A t : Led(t, known, failed, store, chosen, Recovery)
               => Led(t, known, failed', store, chosen, Recovery)
  BY <1>1 DEF Led, Leads
<1> QED BY <1>1, <1>2 DEF Paths, Aimed

(* The next block, once accepted, is on the way too.                       *)
LEMMA NextLed ==
  ASSUME IInv, Paths, Connecting, ConnectBlockAccepts(NextBlock)
  PROVE  LET b == NextBlock
         IN  /\ b \in Nodes /\ On(b, target.to)
             /\ Led(b, known, failed, store, chosen, Recovery)
             /\ Aimed(IF b = target.to \/ Height(b) > target.over THEN None ELSE target,
                      b, known, store)
<1> DEFINE b == NextBlock
<1>1. /\ b \in Blocks /\ b \in Nodes /\ Parent[b] = tip /\ On(b, target.to)
      /\ target # None /\ mode # "down" /\ target.to \in Nodes
  BY NextBlockFacts, PathFacts DEF Connecting, Nodes
<1>2. Held(b, known)
  BY <1>1, HeldBelow, PathFacts DEF Paths, Aimed
<1>3. Carries[b] # 0 => Fits(b, store, chosen, Recovery)
  <2>1. /\ CertifiedOK(chosen, Recovery) /\ Checkpoint(Recovery)
        /\ MirrorOK(mirror, Parent[b], Recovery, store, chosen)
    BY <1>1, TypeFacts DEF IInv, WorldOK, NodeOK, ImageOK
  <2>2. Accepted(b, mirror, chosen)
    BY NextAccepted
  <2>3. Carries[b] # 0 => FinalityAncestor(b, Carries[b]) \notin Empty
    BY DEF ConnectBlockAccepts, CertificateAccepted
  <2> HIDE DEF b
  <2> QED BY <1>1, <2>1, <2>2, <2>3, AcceptedFits
<1>4. Fitting(b, store, chosen, Recovery)
  <2>1. Fitting(Parent[b], store, chosen, Recovery)
    BY <1>1, PathFacts DEF Led, Sound
  <2> HIDE DEF b
  <2> QED BY <1>1, <1>3, <2>1, FittingNext
<1>5. Leads(b, store, failed)
  <2>1. On(Top(store), b) \/ On(b, Top(store))
    BY PathFacts DEF ConnectBlockAccepts, IsAllowedBySavedAnchor
  <2>2. ASSUME On(b, Top(store)) PROVE ~ On(Top(store), tip)
    <3> SUFFICES ASSUME On(Top(store), tip) PROVE FALSE
      OBVIOUS
    <3>1. On(b, Parent[b])
      BY <1>1, <2>2, PathFacts, OnTransitive
    <3> QED BY <1>1, <3>1, OnParent
  <2>3. Leads(tip, store, failed)
    BY <1>1, PathFacts DEF Led
  <2> QED BY <2>1, <2>2, <2>3 DEF Leads
<1>6. Aimed(IF b = target.to \/ Height(b) > target.over THEN None ELSE target, b, known, store)
  BY <1>1 DEF Paths, Aimed
<1> QED BY <1>1, <1>2, <1>4, <1>5, <1>6 DEF Led, Sound

LEMMA ConnectTipPath ==
  ASSUME IInv, Paths, ConnectTip
  PROVE  Paths'
<1> DEFINE b == NextBlock
<1>1. /\ Connecting /\ ConnectBlockAccepts(b)
      /\ tip' = b /\ mode' = mode
      /\ target' = IF b = target.to \/ Height(b) > target.over THEN None ELSE target
      /\ UNCHANGED <<network, chosen, known, failed, disk, store, journal>>
  BY DEF ConnectTip, Advance
<1>2. Led(tip', known, failed, store, chosen, Recovery) /\ Aimed(target', tip', known, store)
  BY <1>1, NextLed
<1> QED BY <1>1, <1>2, SameWorld DEF Paths

LEMMA FlushPath ==
  ASSUME IInv, Paths, Flush
  PROVE  Paths'
<1>1. disk' = [tip |-> tip, mirror |-> mirror] /\ mode # "down"
      /\ UNCHANGED <<network, chosen, known, failed, mode, tip, target, store>>
  BY DEF Flush, MemoryImage, Running, node
<1>2. Led(tip, known, failed, store, chosen, Recovery) /\ disk'.tip = tip /\ disk' # Broken
  BY <1>1, PathFacts, ImagesIntact DEF MemoryImage
<1> QED BY <1>1, <1>2, SameWorld DEF Paths

LEMMA CrashPath ==
  ASSUME IInv, Paths, Crash
  PROVE  Paths'
<1>1. UNCHANGED <<network, chosen, known, failed, store>>
  BY DEF Crash
<1>2. CASE Die(disk)
  BY <1>1, <1>2, DiePath DEF Paths
<1>3. CASE Die(Broken)
  BY <1>1, <1>3, DiePath
<1> QED BY <1>2, <1>3 DEF Crash

LEMMA StartPath ==
  ASSUME IInv, Paths, Start
  PROVE  Paths'
BY SameWorld DEF Start, Paths

LEMMA ReindexPath ==
  ASSUME IInv, Paths, Reindex
  PROVE  Paths'
<1>1. /\ UNCHANGED <<network, chosen, known, target, store, journal>> /\ Recovery' = Recovery
      /\ mode' = "starting" /\ failed' = {} /\ tip' = Root
      /\ disk' = [tip |-> Root, mirror |-> <<>>] /\ target = None
  BY PathFacts DEF Reindex, Recovery
<1>2. Led(Root, known, {}, store, chosen, Recovery)
  BY FittingRoot, OnSelf, PathFacts DEF Led, Sound, Held, Leads
<1>3. disk' # Broken /\ disk'.tip = Root
  BY <1>1, ImagesIntact
<1> QED BY <1>1, <1>2, <1>3 DEF Paths, Aimed

-----------------------------------------------------------------------------
(* Steps that save an anchor keep it too.                                  *)
LEMMA SavedPath ==
  ASSUME IInv, Paths, IInv', Extends(store', store),
         NEW b \in Blocks, StoreWrite(b),
         NEW t \in Nodes, Led(t, known, failed, store, chosen, Recovery), On(b, t),
         NEW tg, Aimed(tg, t, known, store), tg # None => tg.to \in Nodes /\ On(t, tg.to)
  PROVE  /\ Sound(Top(store'), known, store', chosen, Recovery)
         /\ Led(t, known, failed, store', chosen, Recovery)
         /\ Aimed(tg, t, known, store')
         /\ Top(store') = Top(store) \/ Top(store') = b
<1>1. store' = With(store, b)
  BY DEF StoreWrite, With
<1>2. store \in Slots /\ store' \in Slots /\ Top(store') \in Nodes /\ Checkpoint(Recovery)
  BY TypeFacts, TopBlock DEF IInv, WorldOK, SavedOK
<1>3. Top(store') = Top(store) \/ Top(store') = b
  BY <1>1, <1>2, SavedTop DEF Extends
<1>4. Sound(Top(store'), known, store', chosen, Recovery)
      /\ Led(t, known, failed, store', chosen, Recovery)
  BY <1>2, <1>3, PathFacts, LedSaved DEF Extends
<1>5. Aimed(tg, t, known, store')
  <2>1. CASE Top(store') = Top(store)
    BY <2>1 DEF Aimed
  <2>2. CASE Top(store') = b
    BY <2>2, OnTransitive DEF Aimed, Nodes
  <2> QED BY <1>3, <2>1, <2>2
<1> QED BY <1>3, <1>4, <1>5

LEMMA PathsSaved ==
  ASSUME Paths, UNCHANGED <<network, chosen, known, failed>>,
         Sound(Top(store'), known, store', chosen, Recovery),
         Led(tip', known, failed, store', chosen, Recovery),
         disk' # Broken, disk'.tip = tip', mode' # "refused",
         Aimed(target', tip', known, store')
  PROVE  Paths'
<1>1. Recovery' = Recovery
  BY DEF Recovery
<1> QED BY <1>1 DEF Paths

LEMMA ConnectCarrierPath ==
  ASSUME IInv, Paths, ConnectCarrier
  PROVE  Paths'
<1> DEFINE b == NextBlock
           m == MirrorAfter(b, mirror)
           flushed == [tip |-> b, mirror |-> m]
           anchor == FinalityAncestor(b, Carries[b])
           tg == IF b = target.to \/ Height(b) > target.over THEN None ELSE target
<1>1. /\ Connecting /\ ConnectBlockAccepts(b) /\ Carries[b] # 0
      /\ UNCHANGED <<network, chosen, known, failed, journal>>
      /\ \/ Die(flushed) /\ UNCHANGED store
         \/ Advance(b) /\ disk' = flushed /\ StoreWrite(anchor)
  BY DEF ConnectCarrier
<1>2. /\ b \in Nodes /\ b \in Blocks /\ On(b, target.to) /\ target.to \in Nodes
      /\ Led(b, known, failed, store, chosen, Recovery)
      /\ Aimed(tg, b, known, store)
  BY <1>1, NextLed, NextBlockFacts, PathFacts DEF Connecting
<1>3. Accepted(b, mirror, chosen) /\ ImageOK(m, b, store, chosen, Recovery)
  BY <1>1, NextAccepted
<1>4. flushed # Broken /\ flushed.tip = b
  <2> HIDE DEF b, m
  <2> QED BY <1>2, <1>3, Intact DEF ImageOK, MirrorOK
<1>5. CASE Die(flushed) /\ UNCHANGED store
  <2> HIDE DEF b, m, flushed
  <2> QED BY <1>1, <1>2, <1>4, <1>5, DiePath
<1>6. CASE Advance(b) /\ disk' = flushed /\ StoreWrite(anchor)
  <2>1. tip' = b /\ mode' = mode /\ target' = tg
    BY <1>6 DEF Advance
  <2>2. anchor \in Blocks /\ On(anchor, b)
    <3>1. Carries[b] \in 1..Height(b)
      <4>1. Carries[b] \in Nat \ {0} /\ Height(b) \in Nat
        BY <1>1, <1>2, TreeAssumption, BlockCount, HeightRange
      <4> QED BY <1>1, <1>3, <4>1 DEF Accepted
    <3>2. anchor \in Blocks /\ Height(anchor) = Carries[b]
      BY <1>2, <3>1, AncestorFacts
    <3> QED BY <1>2, <3>1, <3>2, OnFacts DEF Nodes
  <2>3. IInv' /\ Extends(store', store)
    BY ConnectCarrierKeeps
  <2> HIDE DEF b, m, flushed, anchor
  <2>4. /\ Sound(Top(store'), known, store', chosen, Recovery)
        /\ Led(b, known, failed, store', chosen, Recovery)
        /\ Aimed(tg, b, known, store')
    BY <1>2, <1>6, <2>2, <2>3, SavedPath
  <2>5. mode' # "refused"
    BY <2>1 DEF Paths
  <2> QED BY <1>1, <1>4, <1>6, <2>1, <2>4, <2>5, PathsSaved
<1> QED BY <1>1, <1>5, <1>6

LEMMA CommitmentPath ==
  ASSUME IInv, Paths, RecordCommitment
  PROVE  Paths'
<1> DEFINE h == VotingHeight
           b == FinalityAncestor(tip, h)
<1>1. /\ target = None /\ On(StoreTip, tip) /\ h <= Height(tip)
      /\ MirrorHeight(mirror) + 1 = h /\ mode # "down"
      /\ UNCHANGED <<network, chosen, known, failed>>
      /\ \/ Die(MemoryImage) /\ UNCHANGED store
         \/ disk' = MemoryImage /\ UNCHANGED <<mode, tip, mirror, target, store>>
         \/ disk' = MemoryImage /\ UNCHANGED <<mode, tip, mirror, target>> /\ StoreWrite(b)
  BY DEF RecordCommitment, node, Running
<1>2. /\ Led(tip, known, failed, store, chosen, Recovery) /\ tip \in Nodes
      /\ MemoryImage # Broken /\ MemoryImage.tip = tip
  BY <1>1, PathFacts, ImagesIntact DEF MemoryImage
<1>3. b \in Blocks /\ On(b, tip)
  <2>1. MirrorHeight(mirror) \in Nat /\ Height(tip) \in Nat
    BY MirrorTop DEF IInv, NodeOK, ImageOK
  <2>2. h \in 1..Height(tip)
    BY <1>1, <2>1
  <2>3. b \in Blocks /\ Height(b) = h
    BY <1>2, <2>2, AncestorFacts
  <2> QED BY <1>2, <2>2, <2>3, OnFacts DEF Nodes
<1>4. Aimed(None, tip, known, store)
  BY DEF Aimed
<1> HIDE DEF b, h
<1>5. CASE Die(MemoryImage) /\ UNCHANGED store
  BY <1>1, <1>2, <1>5, DiePath
<1>6. CASE disk' = MemoryImage /\ UNCHANGED <<mode, tip, mirror, target, store>>
  BY <1>1, <1>2, <1>4, <1>6, SameWorld DEF Paths
<1>7. CASE disk' = MemoryImage /\ UNCHANGED <<mode, tip, mirror, target>> /\ StoreWrite(b)
  <2>1. IInv' /\ Extends(store', store)
    BY CommitmentKeeps
  <2>2. /\ Sound(Top(store'), known, store', chosen, Recovery)
        /\ Led(tip, known, failed, store', chosen, Recovery)
        /\ Aimed(None, tip, known, store')
    BY <1>2, <1>3, <1>4, <1>7, <2>1, SavedPath
  <2>3. mode' # "refused"
    BY <1>7 DEF Paths
  <2> QED BY <1>1, <1>2, <1>7, <2>2, <2>3, PathsSaved
<1> QED BY <1>1, <1>5, <1>6, <1>7

-----------------------------------------------------------------------------
(* The end of a start finds the saved tip on the chain: it would be a      *)
(* better candidate if it were not.                                        *)
LEMMA ImportedHasTop ==
  ASSUME IInv, Paths, Imported
  PROVE  On(Top(store), tip)
<1> SUFFICES ASSUME ~ On(Top(store), tip) PROVE FALSE
  OBVIOUS
<1>1. mode # "down" /\ BetterCandidates = {}
  BY DEF Imported
<1>2. On(tip, Top(store)) /\ \A a \in Blocks : On(a, Top(store)) => a \notin failed
  BY <1>1, PathFacts DEF Led, Leads
<1>3. Top(store) \in Blocks /\ Top(store) \in known
  BY PathFacts, OnSelf DEF Sound, Held, Nodes
<1>4. Height(tip) < StoreHeight
  <2>1. Height(tip) <= StoreHeight
    BY <1>2, PathFacts, OnFacts, RootHeight
  <2>2. Height(tip) # StoreHeight
    BY <1>2, PathFacts, OnSameChain, OnSelf
  <2> QED BY <2>1, <2>2, PathFacts
<1>5. NotFailed(Top(store))
  BY <1>2, <1>3, TreeAssumption, TypeFacts DEF NotFailed, On
<1>6. IsAllowedBySavedAnchor(Top(store))
  BY PathFacts, OnSelf DEF IsAllowedBySavedAnchor
<1> QED BY <1>1, <1>3, <1>4, <1>5, <1>6, PathFacts DEF BetterCandidates

(* A mirror of a chain with the checkpoint skips to it or has it.          *)
LEMMA RestoreWorks ==
  ASSUME IInv, Recovery \in Blocks, On(Recovery, tip)
  PROVE  RestoreAccepts(mirror)
<1>1. MirrorOK(mirror, tip, Recovery, store, chosen)
  BY DEF IInv, NodeOK, ImageOK
<1>2. DOMAIN mirror = 1..Len(mirror)
  BY <1>1, EntryTypes DEF MirrorOK
<1> QED BY <1>1, <1>2, ReachedCheckpoint DEF RestoreAccepts, Holds

LEMMA FinishPath ==
  ASSUME NEW restored, FinishStart(restored), On(StoreTip', tip),
         restored => RestoreAccepts(mirror)
  PROVE  /\ mode' = "up" /\ tip' = tip /\ target' = target
         /\ disk' = disk \/ disk' = [tip |-> tip, mirror |-> mirror']
         /\ HasSavedTip' => disk' = [tip |-> tip, mirror |-> mirror']
BY DEF FinishStart

LEMMA ReconcilePath ==
  ASSUME IInv, Paths, Reconcile
  PROVE  Paths'
<1> DEFINE restored == Marked /\ StoreTip = Recovery
<1>1. /\ UNCHANGED <<network, chosen, known, failed, store, journal>>
      /\ FinishStart(restored) /\ Imported /\ mode # "down" /\ target = None
  BY DEF Reconcile, Imported
<1>2. On(Top(store), tip)
  BY <1>1, ImportedHasTop
<1>3. restored => RestoreAccepts(mirror)
  BY <1>2, PathFacts, Vocabulary, MarkedBelowTop, RestoreWorks
<1>4. StoreTip' = StoreTip
  BY <1>1 DEF StoreTip, StoreHeight
<1> HIDE DEF restored
<1>5. /\ mode' = "up" /\ tip' = tip /\ target' = None
      /\ disk' = disk \/ disk' = [tip |-> tip, mirror |-> mirror']
  BY <1>1, <1>2, <1>3, <1>4, PathFacts, FinishPath
<1>6. [tip |-> tip, mirror |-> mirror'] # Broken
  <2>1. IInv'
    BY ReconcileKeeps
  <2>2. mirror' \in Seq(Anchors)
    BY <2>1 DEF IInv, NodeOK, ImageOK, MirrorOK
  <2> QED BY <2>2, PathFacts, Intact
<1>7. Led(tip, known, failed, store, chosen, Recovery) /\ disk # Broken
  BY <1>1, PathFacts
<1>8. Aimed(target', tip', known, store)
  BY <1>5 DEF Aimed
<1>9. disk' # Broken /\ Led(disk'.tip, known, failed, store, chosen, Recovery)
  <2>1. CASE disk' = disk
    BY <1>7, <2>1 DEF Paths
  <2>2. CASE disk' = [tip |-> tip, mirror |-> mirror']
    <3>1. disk'.tip = tip
      BY <2>2
    <3> QED BY <1>6, <1>7, <2>2, <3>1
  <2> QED BY <1>5, <2>1, <2>2
<1> QED BY <1>1, <1>5, <1>7, <1>8, <1>9, SameWorld

LEMMA ReconcileRecoveryPath ==
  ASSUME IInv, Paths, ReconcileRecovery
  PROVE  Paths'
<1>1. /\ UNCHANGED <<network, chosen, known, failed, journal>>
      /\ Imported /\ Recovery # None /\ mode # "down" /\ target = None
  BY DEF ReconcileRecovery, Imported
<1>2. /\ Led(tip, known, failed, store, chosen, Recovery) /\ tip \in Nodes
      /\ MemoryImage # Broken /\ MemoryImage.tip = tip
  BY <1>1, PathFacts, ImagesIntact DEF MemoryImage
<1>3. CASE Die(MemoryImage) /\ UNCHANGED store
  BY <1>1, <1>2, <1>3, DiePath
<1>4. CASE /\ RecoveryValid
           /\ StoreWrite(Recovery)
           /\ Die(MemoryImage) \/ FinishStart(TRUE)
  <2>1. Recovery \in Blocks /\ On(Recovery, tip) /\ On(Top(store), tip)
    BY <1>1, <1>4, TypeFacts, PathFacts DEF RecoveryValid, Checkpoint
  <2>2. IInv' /\ Extends(store', store)
    BY ReconcileRecoveryKeeps
  <2>3. Aimed(None, tip, known, store)
    BY DEF Aimed
  <2>4. /\ Sound(Top(store'), known, store', chosen, Recovery)
        /\ Led(tip, known, failed, store', chosen, Recovery)
        /\ Aimed(None, tip, known, store')
        /\ Top(store') = Top(store) \/ Top(store') = Recovery
    BY <1>2, <1>4, <2>1, <2>2, <2>3, SavedPath
  <2>5. CASE Die(MemoryImage)
    <3>1. tip' = tip /\ mode' = "down" /\ target' = None /\ disk' = MemoryImage
      BY <1>2, <2>5 DEF Die
    <3> QED BY <1>1, <1>2, <2>4, <3>1, PathsSaved
  <2>6. ASSUME FinishStart(TRUE) PROVE Paths'
    <3>1. StoreTip' = Top(store')
      BY DEF StoreTip, StoreHeight, Top, TopHeight
    <3>2. RestoreAccepts(mirror)
      BY <2>1, RestoreWorks
    <3>3. HasSavedTip'
      <4>1. HasSavedTip /\ Seeded' = Seeded
        BY <1>1, <1>4 DEF RecoveryValid, Seeded
      <4>2. StoreHeight' = TopHeight(store')
        BY DEF StoreHeight, TopHeight
      <4>3. TopHeight(store') \in Nat
        BY <2>2, TopFacts DEF IInv, WorldOK, SavedOK
      <4>4. StoreHeight' >= StoreHeight /\ StoreHeight \in Nat /\ StoreHeight' \in Nat
        BY <2>2, <4>2, <4>3, Vocabulary, PathFacts DEF Extends
      <4> QED BY <4>1, <4>4 DEF HasSavedTip
    <3>4. mode' = "up" /\ tip' = tip /\ target' = None
          /\ disk' = [tip |-> tip, mirror |-> mirror']
      BY <1>1, <2>1, <2>4, <2>6, <3>1, <3>2, <3>3, FinishPath
    <3>5. disk' # Broken /\ disk'.tip = tip
      <4>1. mirror' \in Seq(Anchors)
        BY <2>2 DEF IInv, NodeOK, ImageOK, MirrorOK
      <4> QED BY <3>4, <4>1, PathFacts, Intact
    <3> QED BY <1>1, <2>4, <3>4, <3>5, PathsSaved
  <2> QED BY <1>4, <2>5, <2>6, Zenon
<1> QED BY <1>3, <1>4, Zenon DEF ReconcileRecovery

-----------------------------------------------------------------------------
(* Each step keeps the way to the saved tip, where certificates are in     *)
(* time.                                                                   *)
LEMMA PathKeeps ==
  ASSUME IInv, Paths, OnTime, [Next]_vars
  PROVE  Paths'
<1>1. CASE \E b \in network.blocks :
             \/ Certify(b) \/ Learn(b) \/ SelectCandidate(b)
             \/ PreferCertified(b) \/ InvalidateBlock(b)
  BY <1>1, CertifyPath, LearnPath, SelectPath, PreferPath, InvalidatePath
<1>2. CASE DisconnectTip
  BY <1>2, DisconnectPath
<1>3. CASE ConnectInvalid
  BY <1>3, ConnectInvalidPath
<1>4. CASE ConnectTip
  BY <1>4, ConnectTipPath
<1>5. CASE ConnectCarrier
  BY <1>5, ConnectCarrierPath
<1>6. CASE RecordCommitment
  BY <1>6, CommitmentPath
<1>7. CASE Flush
  BY <1>7, FlushPath
<1>8. CASE Crash
  BY <1>8, CrashPath
<1>9. CASE Start
  BY <1>9, StartPath
<1>10. CASE Reindex
  BY <1>10, ReindexPath
<1>11. CASE Reconcile
  BY <1>11, ReconcilePath
<1>12. CASE ReconcileRecovery
  BY <1>12, ReconcileRecoveryPath
<1>13. CASE UNCHANGED vars
  BY <1>13, SameWorld DEF vars, node, Paths
<1> QED BY <1>1, <1>2, <1>3, <1>4, <1>5, <1>6, <1>7, <1>8, <1>9, <1>10, <1>11, <1>12, <1>13
        DEF Next

LEMMA InitPaths == Init => Paths
<1> SUFFICES ASSUME Init PROVE Paths
  OBVIOUS
<1>1. IInv
  BY InitInv
<1>2. Top(store) = Root
  <2>1. \A h \in Heights : store[h] = None
    BY DEF Init
  <2> QED BY <1>1, <2>1, TypeFacts, TopFacts DEF Top
<1>3. /\ known = {} /\ failed = {} /\ mode = "up" /\ tip = Root /\ target = None
      /\ disk = [tip |-> Root, mirror |-> <<>>]
  BY DEF Init
<1>4. disk # Broken /\ disk.tip = Root
  BY <1>1, <1>3, ImagesIntact
<1>5. Led(Root, known, failed, store, chosen, Recovery)
  BY <1>2, FittingRoot, OnSelf, RootHeight DEF Led, Sound, Held, Leads
<1> QED BY <1>2, <1>3, <1>4, <1>5 DEF Paths, Closed, Aimed, Led

(* The network, and so whether certificates are in time, never changes.    *)
LEMMA NetworkStays ==
  ASSUME [Next]_vars
  PROVE  OnTime' => OnTime
<1>1. network' = network
  BY DEF Next, vars, Certify, Learn, SelectCandidate, PreferCertified, InvalidateBlock,
         DisconnectTip, ConnectInvalid, ConnectTip, ConnectCarrier, RecordCommitment, Flush,
         Crash, Start, Reindex, Reconcile, ReconcileRecovery
<1> QED BY <1>1 DEF OnTime, Recovery

LEMMA PathInvariance == Spec => [](OnTime => Paths)
<1>1. Init => (OnTime => Paths)
  BY InitPaths
<1>2. IInv /\ (OnTime => Paths) /\ [Next]_vars => (OnTime => Paths)'
  <2> SUFFICES ASSUME IInv, OnTime => Paths, [Next]_vars, OnTime' PROVE Paths'
    OBVIOUS
  <2>1. OnTime
    BY NetworkStays
  <2> QED BY <2>1, PathKeeps
<1> QED BY Invariance, <1>1, <1>2, PTL DEF Spec

(* Wherever the node dies or a write fails, it comes back: the flushed     *)
(* chain has the saved tip or leads to it, and no start is refused.        *)
THEOREM RestartAcceptedHolds == Spec => [](OnTime => RestartAccepted)
<1>1. IInv /\ (OnTime => Paths) => (OnTime => RestartAccepted)
  BY PathFacts DEF Paths, Led, Leads, RestartAccepted
<1> QED BY Invariance, PathInvariance, <1>1, PTL

(* An undo is always of a block above the saved tip, whose anchor, if it   *)
(* has one, is the mirror's last.                                          *)
LEMMA UndoAllowed ==
  ASSUME IInv, Paths, OnTime
  PROVE  NeverForcedToAbort
<1> SUFFICES ASSUME target # None, ~ On(tip, target.to) PROVE ~ DisconnectRefused
  BY DEF NeverForcedToAbort
<1>1. /\ Led(tip, known, failed, store, chosen, Recovery) /\ tip \in Nodes
      /\ target.to \in Nodes /\ On(Top(store), target.to)
  BY PathFacts DEF Paths, Aimed
<1>2. On(Top(store), tip) /\ Top(store) # tip
  <2>1. ~ On(tip, Top(store))
    BY <1>1, PathFacts, OnTransitive
  <2> QED BY <1>1, <2>1, OnSelf DEF Led, Leads
<1>3. tip \in Blocks /\ Height(tip) > StoreHeight
  <2>1. tip # Root
    BY <1>1, OnSelf
  <2>2. Height(tip) >= StoreHeight
    BY <1>1, <1>2, PathFacts, OnFacts, RootHeight
  <2>3. Height(tip) # StoreHeight
    BY <1>1, <1>2, PathFacts, OnSameChain, OnSelf
  <2> QED BY <1>1, <2>1, <2>2, <2>3, PathFacts DEF Nodes
<1>4. Carries[tip] # 0 => mirror # <<>> /\ Last(mirror).carrier = tip
  <2> SUFFICES ASSUME Carries[tip] # 0 PROVE mirror # <<>> /\ Last(mirror).carrier = tip
    OBVIOUS
  <2>1. /\ MirrorOK(mirror, tip, Recovery, store, chosen)
        /\ CertifiedOK(chosen, Recovery) /\ Checkpoint(Recovery) /\ Punctual(Recovery)
    BY TypeFacts DEF IInv, WorldOK, NodeOK, ImageOK, OnTime, Punctual
  <2>2. Fits(tip, store, chosen, Recovery)
    BY <1>1, <1>3, OnSelf DEF Led, Sound, Fitting
  <2>3. Marker(Recovery, store) => Height(Recovery) < Height(tip)
    BY <1>3, MarkedBelowTop, PathFacts
  <2> QED BY <1>3, <2>1, <2>2, <2>3, LastCarrier
<1> QED BY <1>3, <1>4, PathFacts DEF DisconnectRefused, UndoAccepts

(* No activation, with whatever carriers are on its way, makes the node    *)
(* abort.                                                                  *)
THEOREM NeverForcedToAbortHolds == Spec => [](OnTime => NeverForcedToAbort)
<1>1. IInv /\ (OnTime => Paths) => (OnTime => NeverForcedToAbort)
  BY UndoAllowed
<1> QED BY Invariance, PathInvariance, <1>1, PTL

-----------------------------------------------------------------------------
(* A reindex connects a chain again from the bootstrap block.  The mirror  *)
(* it has after each block is defined by recursion on parents, and there   *)
(* is such a function since heights end.                                   *)
Replayed(b, m) ==
  IF m = Broken \/ ~ CertificateAccepted(b, m) THEN Broken ELSE MirrorAfter(b, m)

ReplayStep(f, b) == IF b = Root THEN <<>> ELSE Replayed(b, f[Parent[b]])

Replays(f) == f = [b \in Blocks \cup {Root} |-> ReplayStep(f, b)]

LEMMA ReplayUpTo ==
  \A n \in Nat : \E f :
    /\ f = [b \in Nodes |-> f[b]]
    /\ \A b \in Nodes : Height(b) <= n => f[b] = ReplayStep(f, b)
<1> DEFINE P(n) == \E f : /\ f = [b \in Nodes |-> f[b]]
                          /\ \A b \in Nodes : Height(b) <= n => f[b] = ReplayStep(f, b)
           Bad == {n \in Nat : ~ P(n)}
<1> SUFFICES ASSUME Bad # {} PROVE FALSE
  OBVIOUS
<1>1. PICK n \in Bad : \A m \in Bad : n <= m
  <2>1. Bad \subseteq Nat
    OBVIOUS
  <2> HIDE DEF Bad
  <2> QED BY <2>1, LeastNat
<1>2. n \in Nat /\ ~ P(n)
  OBVIOUS
<1>3. \A b \in Nodes : Height(b) \in Nat /\ (Height(b) = 0 <=> b = Root)
  BY OnFacts
<1>4. \A b \in Blocks : Parent[b] \in Nodes /\ Height(b) = Height(Parent[b]) + 1
  BY ParentFacts
<1>5. CASE n = 0
  <2> DEFINE f == [b \in Nodes |-> <<>>]
  <2>1. f = [b \in Nodes |-> f[b]]
    OBVIOUS
  <2>2. \A b \in Nodes : Height(b) <= 0 => f[b] = ReplayStep(f, b)
    BY <1>3 DEF ReplayStep
  <2> HIDE DEF f
  <2> QED BY <1>2, <1>5, <2>1, <2>2
<1>6. CASE n # 0
  <2>1. P(n - 1)
    <3>1. n - 1 \in Nat /\ ~ (n <= n - 1)
      BY <1>2, <1>6
    <3>2. n - 1 \notin Bad
      BY <1>1, <3>1
    <3> HIDE DEF P
    <3> QED BY <3>1, <3>2
  <2>2. PICK f : /\ f = [b \in Nodes |-> f[b]]
                 /\ \A b \in Nodes : Height(b) <= n - 1 => f[b] = ReplayStep(f, b)
    BY <2>1
  <2> DEFINE g == [b \in Nodes |-> IF Height(b) = n THEN ReplayStep(f, b) ELSE f[b]]
  <2>3. g = [b \in Nodes |-> g[b]]
    OBVIOUS
  <2>4. ASSUME NEW b \in Nodes, Height(b) <= n PROVE g[b] = ReplayStep(g, b)
    <3>1. ReplayStep(g, b) = ReplayStep(f, b)
      <4>1. CASE b = Root
        BY <4>1 DEF ReplayStep
      <4>2. CASE b # Root
        <5>1. Parent[b] \in Nodes /\ Height(Parent[b]) # n
          BY <1>2, <1>3, <1>4, <2>4, <4>2 DEF Nodes
        <5>2. g[Parent[b]] = f[Parent[b]]
          BY <5>1
        <5> HIDE DEF g
        <5> QED BY <5>2 DEF ReplayStep
      <4> QED BY <4>1, <4>2
    <3>2. CASE Height(b) = n
      <4>1. g[b] = ReplayStep(f, b)
        BY <3>2
      <4> HIDE DEF g
      <4> QED BY <3>1, <4>1
    <3>3. CASE Height(b) # n
      <4>1. g[b] = f[b]
        BY <3>3
      <4>2. f[b] = ReplayStep(f, b)
        BY <1>2, <1>3, <2>2, <2>4, <3>3
      <4> HIDE DEF g
      <4> QED BY <3>1, <4>1, <4>2
    <3> QED BY <3>2, <3>3
  <2> HIDE DEF g
  <2>5. P(n)
    BY <2>3, <2>4
  <2> QED BY <1>2, <2>5
<1> QED BY <1>5, <1>6

LEMMA ReplayExists == \E f : Replays(f)
<1>1. PICK f : /\ f = [b \in Nodes |-> f[b]]
               /\ \A b \in Nodes : Height(b) <= Cardinality(Blocks) => f[b] = ReplayStep(f, b)
  BY BlockCount, ReplayUpTo
<1>2. \A b \in Nodes : f[b] = ReplayStep(f, b)
  BY <1>1, BlockCount, ChainFacts
<1>3. f = [b \in Nodes |-> ReplayStep(f, b)]
  BY <1>1, <1>2
<1> QED BY <1>3 DEF Replays, Nodes

(* Each block of a sound chain is accepted by the mirror of the chain      *)
(* replayed up to it.                                                      *)
LEMMA ReplayAccepts ==
  ASSUME IInv, Paths, OnTime, NEW f, Replays(f), NEW t \in Nodes,
         Sound(t, known, store, chosen, Recovery)
  PROVE  \A b \in Nodes : On(b, t) =>
           /\ MirrorOK(f[b], b, Recovery, store, chosen)
           /\ Marker(Recovery, store) /\ On(Recovery, b) => Holds(f[b], Recovery)
<1> DEFINE r == Recovery
           Good(b) == /\ MirrorOK(f[b], b, r, store, chosen)
                      /\ Marker(r, store) /\ On(r, b) => Holds(f[b], r)
           Bad == {n \in Nat : \E b \in Nodes : Height(b) = n /\ On(b, t) /\ ~ Good(b)}
<1> SUFFICES ASSUME Bad # {} PROVE FALSE
  BY OnFacts
<1>1. PICK n \in Bad : \A m \in Bad : n <= m
  <2>1. Bad \subseteq Nat
    OBVIOUS
  <2> HIDE DEF Bad
  <2> QED BY <2>1, LeastNat
<1>2. PICK b \in Nodes : Height(b) = n /\ On(b, t) /\ ~ Good(b)
  OBVIOUS
<1>3. /\ CertifiedOK(chosen, r) /\ Checkpoint(r) /\ Punctual(r) /\ chosen \in Slots
      /\ Marker(r, store) => r \in Nodes /\ r # Root
  BY TypeFacts, MarkedBelowTop, TreeAssumption DEF IInv, WorldOK, OnTime, Punctual, Nodes
<1>4. CASE b = Root
  <2>1. f[b] = <<>>
    BY <1>4 DEF Replays, ReplayStep
  <2>2. MirrorOK(<<>>, Root, r, store, chosen)
    BY <1>3, RootImage DEF ImageOK
  <2>3. ~ (Marker(r, store) /\ On(r, Root))
    BY <1>3, OnFacts, RootHeight
  <2> QED BY <1>2, <1>4, <2>1, <2>2, <2>3
<1>5. CASE b # Root
  <2> DEFINE p == Parent[b]
             m == f[p]
  <2>1. b \in Blocks /\ p \in Nodes /\ On(p, b) /\ Height(b) = Height(p) + 1 /\ Height(p) \in Nat
    BY <1>2, <1>5, ParentFacts, OnParent, OnSelf, ChainFacts, BlockCount DEF Nodes
  <2>2. On(p, t)
    BY <1>2, <2>1, OnTransitive
  <2>3. Good(p)
    <3> SUFFICES ASSUME ~ Good(p) PROVE FALSE
      OBVIOUS
    <3> HIDE DEF Good
    <3>1. Height(p) \in Bad
      BY <2>1, <2>2
    <3> HIDE DEF Bad
    <3> QED BY <1>1, <1>2, <2>1, <3>1
  <2>4. MirrorOK(m, p, r, store, chosen) /\ (Marker(r, store) /\ On(r, p) => Holds(m, r))
    BY <2>3
  <2>5. Carries[b] # 0 => Fits(b, store, chosen, r)
    BY <1>2, <2>1 DEF Sound, Fitting
  <2> HIDE DEF m, Good, Bad
  <2>6. Carries[b] # 0 => Accepted(b, m, chosen) /\ FinalityAncestor(b, Carries[b]) \notin Empty
    <3> HIDE DEF r
    <3> QED BY <1>3, <2>1, <2>4, <2>5, FitsAccepted
  <2>7. Accepted(b, m, chosen)
    BY <2>6 DEF Accepted
  <2>8. CertificateAccepted(b, m)
    BY <2>6 DEF Accepted, CertificateAccepted, CertificateVerifies
  <2>9. m # Broken
    BY <2>1, <2>4, Intact DEF MirrorOK
  <2>10. f[b] = After(b, m, r, store)
    <3>1. f[b] = Replayed(b, m)
      BY <2>1, <1>5 DEF Replays, ReplayStep, m, Nodes
    <3> QED BY <2>8, <2>9, <3>1, Vocabulary DEF Replayed
  <2>11. ImageOK(m, p, store, chosen, r)
    BY <2>4 DEF ImageOK, Restored
  <2>12. /\ MirrorOK(f[b], b, r, store, chosen)
         /\ Holds(m, r) => Holds(f[b], r)
         /\ Marker(r, store) /\ b = r => Holds(f[b], r)
    <3> HIDE DEF r
    <3> QED BY <1>3, <2>1, <2>7, <2>10, <2>11, ConnectBlock DEF ImageOK
  <2>13. Marker(r, store) /\ On(r, b) => Holds(f[b], r)
    BY <1>3, <2>1, <2>4, <2>12, OnParent
  <2> QED BY <1>2, <2>12, <2>13 DEF Good
<1> QED BY <1>4, <1>5

LEMMA ReplayOfTip ==
  ASSUME IInv, Paths, OnTime
  PROVE  ReindexKeepsChain
<1> DEFINE replay == CHOOSE f : Replays(f)
<1>1. Replays(replay)
  BY ReplayExists
<1> HIDE DEF replay
<1>2. ASSUME mode = "up" PROVE replay[tip] # Broken
  <2>1. Sound(tip, known, store, chosen, Recovery) /\ tip \in Nodes
    BY <1>2, PathFacts DEF Led
  <2>2. MirrorOK(replay[tip], tip, Recovery, store, chosen)
    BY <1>1, <2>1, ReplayAccepts, OnSelf
  <2> QED BY <2>1, <2>2, Intact DEF MirrorOK
<1> QED BY <1>2 DEF ReindexKeepsChain, replay, Replays, ReplayStep, Replayed

(* A node that is told to reindex connects its chain once more.            *)
THEOREM ReindexKeepsChainHolds == Spec => [](OnTime => ReindexKeepsChain)
<1>1. IInv /\ (OnTime => Paths) => (OnTime => ReindexKeepsChain)
  BY ReplayOfTip
<1> QED BY Invariance, PathInvariance, <1>1, PTL
=============================================================================
