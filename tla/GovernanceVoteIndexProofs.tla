---------------------- MODULE GovernanceVoteIndexProofs ----------------------
(***************************************************************************)
(* Blocks connected and disconnected keep the index a function of the      *)
(* active chain, memory agrees with it as far as the code promises, both   *)
(* passes over a block decide alike, and the payments are those of the     *)
(* votes as they stand: for any chain, transactions and budget.            *)
(*                                                                         *)
(* The folds of the model are recursive functions; what is needed of each  *)
(* is that it runs from one state to the next, which holds because such a  *)
(* function exists.                                                        *)
(***************************************************************************)
EXTENDS GovernanceVoteIndex, SequenceTheorems, FiniteSetTheorems, WellFoundedInduction, TLAPS

-----------------------------------------------------------------------------
(* Numbers and sequences.                                                  *)

LEMMA LeastNat ==
  ASSUME NEW S, S \subseteq Nat, S # {}
  PROVE  \E n \in S : \A m \in S : n <= m
<1>1. PICK n \in S : \A m \in S : <<m, n>> \notin OpToRel(<, Nat)
  BY NatLessThanWellFounded, WFMin
<1>2. \A m \in S : ~ (m < n)
  <2> SUFFICES ASSUME NEW m \in S, m < n PROVE FALSE
    OBVIOUS
  <2>1. <<m, n>> \in Nat \X Nat
    OBVIOUS
  <2>2. <<m, n>> \in OpToRel(<, Nat)
    BY <2>1 DEF OpToRel
  <2> QED BY <1>1, <2>2
<1> QED BY <1>2

(* What is true of the first of a run of states, and moves on from each to *)
(* the next, is true of all of them; good is the set of those it is true   *)
(* of.                                                                     *)
LEMMA Climb ==
  ASSUME NEW a \in Nat, NEW b \in Nat, NEW good, a \in good,
         \A i \in a..(b - 1) : i \in good => i + 1 \in good
  PROVE  \A i \in a..b : i \in good
<1> DEFINE bad == {i \in a..b : i \notin good}
<1> SUFFICES ASSUME bad # {} PROVE FALSE
  OBVIOUS
<1>1. PICK i \in bad : \A j \in bad : i <= j
  <2>1. bad \subseteq Nat
    OBVIOUS
  <2> QED BY <2>1, LeastNat
<1>2. i \in a..b /\ i \notin good /\ i # a
  BY <1>1
<1>3. i - 1 \in a..(b - 1) /\ i - 1 \in a..b /\ (i - 1) + 1 = i
  BY <1>2
<1>4. i - 1 \in good
  <2>1. ~ (i <= i - 1)
    BY <1>2
  <2> QED BY <1>1, <1>3, <2>1
<1> QED BY <1>2, <1>3, <1>4

IsSeq(s) == s \in Seq({s[i] : i \in DOMAIN s})

LEMMA SeqIs ==
  ASSUME NEW S, NEW s \in Seq(S)
  PROVE  IsSeq(s)
<1>1. Len(s) \in Nat /\ DOMAIN s = 1..Len(s) /\ s \in [1..Len(s) -> S]
  BY LenProperties
<1>2. s \in [1..Len(s) -> {s[i] : i \in DOMAIN s}]
  BY <1>1
<1> QED BY <1>1, <1>2, SeqDef DEF IsSeq

LEMMA SeqFacts ==
  ASSUME NEW s, IsSeq(s)
  PROVE  /\ Len(s) \in Nat
         /\ DOMAIN s = 1..Len(s)
         /\ s = <<>> <=> Len(s) = 0
         /\ Last(s) = s[Len(s)]
BY LenProperties, EmptySeq DEF IsSeq, Last

LEMMA AppendFacts ==
  ASSUME NEW s, IsSeq(s), NEW x
  PROVE  /\ IsSeq(Append(s, x))
         /\ Len(Append(s, x)) = Len(s) + 1
         /\ \A i \in 1..Len(s) : Append(s, x)[i] = s[i]
         /\ Append(s, x)[Len(s) + 1] = x
         /\ Last(Append(s, x)) = x
<1> DEFINE S == {s[i] : i \in DOMAIN s} \cup {x}
<1>1. s \in Seq(S) /\ x \in S
  BY SeqMonotonic DEF IsSeq
<1> HIDE DEF S
<1>2. /\ Append(s, x) \in Seq(S)
      /\ Len(Append(s, x)) = Len(s) + 1
      /\ \A i \in 1..Len(s) : Append(s, x)[i] = s[i]
      /\ Append(s, x)[Len(s) + 1] = x
  BY <1>1, AppendProperties
<1> QED BY <1>2, SeqIs DEF Last

LEMMA FrontFacts ==
  ASSUME NEW s, IsSeq(s), s # <<>>
  PROVE  /\ IsSeq(Front(s))
         /\ Len(Front(s)) = Len(s) - 1
         /\ \A i \in 1..(Len(s) - 1) : Front(s)[i] = s[i]
<1> DEFINE S == {s[i] : i \in DOMAIN s}
<1>1. Len(s) \in Nat \ {0} /\ DOMAIN s = 1..Len(s)
  BY SeqFacts
<1>2. \A i \in 1..(Len(s) - 1) : s[i] \in S
  BY <1>1
<1> HIDE DEF S
<1>3. /\ Front(s) \in Seq(S)
      /\ Len(Front(s)) = Len(s) - 1
      /\ \A i \in 1..(Len(s) - 1) : Front(s)[i] = s[i]
  BY <1>1, <1>2, SubSeqProperties DEF Front
<1> QED BY <1>3, SeqIs

LEMMA MaxIs ==
  ASSUME NEW S, NEW m \in Nat, S \subseteq 0..m, S # {}
  PROVE  Max(S) \in S /\ \A n \in S : n <= Max(S)
<1>1. PICK d \in {m - n : n \in S} : \A e \in {m - n : n \in S} : d <= e
  <2> DEFINE D == {m - n : n \in S}
  <2>a. \A n \in S : m - n \in Nat
    OBVIOUS
  <2>1. D \subseteq Nat /\ D # {}
    BY <2>a
  <2> HIDE DEF D
  <2>2. \E d \in D : \A e \in D : d <= e
    BY <2>1, LeastNat
  <2> QED BY <2>2 DEF D
<1>2. PICK x \in S : d = m - x
  BY <1>1
<1>3. \A y \in S : x >= y
  <2> SUFFICES ASSUME NEW y \in S PROVE x >= y
    OBVIOUS
  <2>1. m - x <= m - y
    BY <1>1, <1>2
  <2> QED BY <1>2, <2>1
<1> QED BY <1>2, <1>3 DEF Max

-----------------------------------------------------------------------------
(* Folds.                                                                  *)
LEMMA MaxUpTo ==
  ASSUME NEW n \in Nat, NEW T \in SUBSET (1..n), T # {}
  PROVE  Max(T) \in T /\ \A x \in T : x <= Max(T)
<1>1. T \subseteq 0..n
  OBVIOUS
<1> QED BY <1>1, MaxIs

(* A step that takes the n-th of N items: F[n] is a function on the states. *)
Closed(F, N, S) == \A n \in 1..N, s \in S : F[n][s] \in S

\* FoldLeft takes from a set of positions the last one.
IsFold(it, F, N, S, base) ==
  /\ it = [T \in SUBSET (1..N) |-> IF T = {} THEN base ELSE F[Max(T)][it[T \ {Max(T)}]]]
  /\ \A T \in SUBSET (1..N) : it[T] \in S

\* A run goes from one state to the next.
IsRun(run, F, N, S, base) ==
  /\ run \in [0..N -> S]
  /\ run[0] = base
  /\ \A n \in 1..N : run[n] = F[n][run[n - 1]]

LEMMA FoldExists ==
  ASSUME NEW S, NEW base \in S, NEW N \in Nat, NEW F, Closed(F, N, S)
  PROVE  \E it : IsFold(it, F, N, S, base)
<1>0. \A n \in 1..N, s \in S : F[n][s] \in S
  BY DEF Closed
<1> DEFINE Folds(it, n) ==
             /\ it = [T \in SUBSET (1..n) |->
                        IF T = {} THEN base ELSE F[Max(T)][it[T \ {Max(T)}]]]
             /\ \A T \in SUBSET (1..n) : it[T] \in S
           good == {n \in 0..N : \E it : Folds(it, n)}
<1>1. 0 \in good
  <2> DEFINE it == [T \in SUBSET (1..0) |-> base]
  <2>1. \A T \in SUBSET (1..0) : T = {}
    OBVIOUS
  <2>2. Folds(it, 0)
    BY <2>1
  <2> HIDE DEF Folds
  <2> QED BY <2>2
<1>2. ASSUME NEW n \in 0..(N - 1), n \in good
      PROVE  n + 1 \in good
  <2>1. PICK it : Folds(it, n)
    BY <1>2
  <2> DEFINE m == n + 1
             up == [T \in SUBSET (1..m) |-> IF m \in T THEN F[m][it[T \ {m}]] ELSE it[T]]
  <2>2. m \in 1..N /\ n \in Nat /\ m \in Nat
    OBVIOUS
  <2>3. \A T \in SUBSET (1..m) : m \notin T => T \in SUBSET (1..n)
    BY <2>2
  <2>4. \A T \in SUBSET (1..m) : T \ {m} \in SUBSET (1..n) /\ T \ {m} \in SUBSET (1..m)
    BY <2>2
  <2>5. \A T \in SUBSET (1..n) : it[T] \in S /\ T \in SUBSET (1..m) /\ m \notin T
    <3>1. 1..n \subseteq 1..m /\ m \notin 1..n
      BY <2>2
    <3>2. \A T \in SUBSET (1..n) : it[T] \in S
      BY <2>1
    <3> HIDE DEF m
    <3> QED BY <3>1, <3>2
  <2>6. \A T \in SUBSET (1..n) : up[T] = it[T]
    BY <2>5
  <2>7. \A T \in SUBSET (1..m) : up[T] \in S
    BY <1>0, <2>2, <2>3, <2>4, <2>5
  <2>8. ASSUME NEW T \in SUBSET (1..m)
        PROVE  up[T] = IF T = {} THEN base ELSE F[Max(T)][up[T \ {Max(T)}]]
    <3>1. CASE m \in T
      <4>1. Max(T) \in T /\ \A x \in T : x <= Max(T)
        BY <2>2, <3>1, MaxUpTo
      <4>2. Max(T) = m
        <5>1. Max(T) \in 1..m /\ m <= Max(T)
          BY <3>1, <4>1
        <5> HIDE DEF m
        <5> QED BY <2>2, <5>1
      <4>3. up[T \ {m}] = it[T \ {m}]
        BY <2>4, <2>6
      <4> QED BY <3>1, <4>2, <4>3
    <3>2. CASE m \notin T
      <4>1. T \in SUBSET (1..n) /\ up[T] = it[T]
        BY <2>3, <3>2
      <4>2. it[T] = IF T = {} THEN base ELSE F[Max(T)][it[T \ {Max(T)}]]
        BY <2>1, <4>1
      <4>3. T \ {Max(T)} \in SUBSET (1..n)
        BY <4>1
      <4> QED BY <2>6, <4>1, <4>2, <4>3
    <3> QED BY <3>1, <3>2
  <2> HIDE DEF up
  <2>9. up = [T \in SUBSET (1..m) |-> IF T = {} THEN base ELSE F[Max(T)][up[T \ {Max(T)}]]]
    <3>1. up = [T \in SUBSET (1..m) |-> up[T]]
      BY DEF up
    <3> QED BY <2>8, <3>1
  <2>10. Folds(up, m)
    BY <2>7, <2>9
  <2> HIDE DEF Folds
  <2>11. m \in 0..N
    BY <2>2
  <2> QED BY <2>10, <2>11
<1> HIDE DEF Folds
<1>3. N \in good
  <2>1. 0 \in Nat /\ N \in 0..N
    OBVIOUS
  <2> HIDE DEF good
  <2> QED BY <1>1, <1>2, <2>1, Climb
<1> QED BY <1>3 DEF Folds, IsFold

LEMMA FirstOnes ==
  ASSUME NEW N \in Nat, NEW n \in 1..N
  PROVE  /\ 1..n \in SUBSET (1..N) /\ 1..n # {}
         /\ Max(1..n) = n /\ (1..n) \ {Max(1..n)} = 1..(n - 1)
<1>1. n \in Nat /\ n \in 1..n
  OBVIOUS
<1>2. 1..n \in SUBSET (1..N) /\ 1..n # {} /\ 1..n \in SUBSET (1..n)
  BY <1>1
<1>3. Max(1..n) \in 1..n /\ \A x \in 1..n : x <= Max(1..n)
  BY <1>1, <1>2, MaxUpTo
<1>4. Max(1..n) = n
  BY <1>1, <1>3
<1>5. (1..n) \ {n} = 1..(n - 1)
  BY <1>1
<1> QED BY <1>2, <1>4, <1>5

\* The fold's values on the first n positions, as a run.
LEMMA RunOf ==
  ASSUME NEW S, NEW base \in S, NEW N \in Nat,
         NEW F, Closed(F, N, S),
         NEW it, it[{}] = base,
         \A n \in 1..N : it[1..(n - 1)] \in S => it[1..n] = F[n][it[1..(n - 1)]]
  PROVE  \E run : IsRun(run, F, N, S, base) /\ run[N] = it[1..N]
<1>0. \A n \in 1..N, s \in S : F[n][s] \in S
  BY DEF Closed
<1> DEFINE run == [n \in 0..N |-> it[1..n]]
<1>1. run[0] = base
  <2>1. 1..0 = {} /\ 0 \in 0..N
    OBVIOUS
  <2> QED BY <2>1
<1>2. ASSUME NEW n \in 1..N, run[n - 1] \in S
      PROVE  run[n] = F[n][run[n - 1]] /\ run[n] \in S
  <2>1. n \in 0..N /\ n - 1 \in 0..N
    OBVIOUS
  <2>2. run[n] = it[1..n] /\ run[n - 1] = it[1..(n - 1)]
    BY <2>1
  <2> HIDE DEF run
  <2> QED BY <1>0, <1>2, <2>2
<1>3. \A n \in 0..N : run[n] \in S
  <2> DEFINE good == {n \in 0..N : run[n] \in S}
  <2>1. 0 \in good
    BY <1>1
  <2>2. ASSUME NEW n \in 0..(N - 1), n \in good
        PROVE  n + 1 \in good
    <3>1. n + 1 \in 1..N /\ n + 1 \in 0..N /\ (n + 1) - 1 = n
      OBVIOUS
    <3>2. run[n] \in S
      BY <2>2
    <3> HIDE DEF run
    <3> QED BY <1>2, <3>1, <3>2
  <2> HIDE DEF good
  <2>3. \A n \in 0..N : n \in good
    BY <2>1, <2>2, Climb
  <2> QED BY <2>3 DEF good
<1>4. run[N] = it[1..N] /\ run \in [0..N -> S]
  BY <1>3
<1>5. \A n \in 1..N : run[n] = F[n][run[n - 1]]
  <2>1. \A n \in 1..N : n - 1 \in 0..N
    OBVIOUS
  <2> HIDE DEF run
  <2> QED BY <1>2, <1>3, <2>1
<1> HIDE DEF run
<1> QED BY <1>1, <1>4, <1>5 DEF IsRun

-----------------------------------------------------------------------------
(* The weight of a set of locks, which the fold takes one at a time.       *)
Pick(T) == CHOOSE x \in T : TRUE

Weighs(it, S) ==
  it = [T \in SUBSET S |-> IF T = {} THEN 0 ELSE Tx[Pick(T)].weight + it[T \ {Pick(T)}]]

LEMMA LocksFinite ==
  /\ IsFiniteSet(Locks)
  /\ \A lock \in Locks : Tx[lock].weight \in Nat
  /\ \A T \in SUBSET Locks : IsFiniteSet(T) /\ Cardinality(T) \in Nat
<1>1. Locks \in SUBSET Txs
  BY DEF Locks
<1>2. IsFiniteSet(Locks)
  BY <1>1, FS_Subset, GovernanceAssumption
<1>3. \A lock \in Locks : Tx[lock].weight \in Nat
  BY GovernanceAssumption DEF Locks
<1> QED BY <1>2, <1>3, FS_Subset, FS_CardinalityType

LEMMA PickFacts ==
  ASSUME NEW T \in SUBSET Locks, T # {}
  PROVE  /\ Pick(T) \in T /\ Pick(T) \in Locks
         /\ T \ {Pick(T)} \in SUBSET Locks
         /\ Cardinality(T \ {Pick(T)}) = Cardinality(T) - 1
<1>1. Pick(T) \in T
  BY DEF Pick
<1>2. IsFiniteSet(T)
  BY LocksFinite
<1>3. Cardinality(T \ {Pick(T)}) = Cardinality(T) - 1
  BY <1>1, <1>2, FS_RemoveElement
<1> QED BY <1>1, <1>3

\* A set of locks is smaller by one without one of them.
LEMMA WithoutOne ==
  ASSUME NEW T \in SUBSET Locks, NEW x \in T
  PROVE  Cardinality(T \ {x}) = Cardinality(T) - 1 /\ Cardinality(T) \in Nat \ {0}
<1>1. IsFiniteSet(T) /\ Cardinality(T) \in Nat
  BY LocksFinite
<1>2. Cardinality(T \ {x}) = Cardinality(T) - 1
  BY <1>1, FS_RemoveElement
<1>3. Cardinality(T \ {x}) \in Nat
  BY LocksFinite
<1> QED BY <1>1, <1>2, <1>3

LEMMA WeighingExists ==
  ASSUME NEW S \in SUBSET Locks
  PROVE  \E it : Weighs(it, S)
<1> DEFINE Upto(n) == {T \in SUBSET S : Cardinality(T) <= n}
           Fits(it, n) ==
             it = [T \in Upto(n) |->
                     IF T = {} THEN 0 ELSE Tx[Pick(T)].weight + it[T \ {Pick(T)}]]
           N == Cardinality(S)
           good == {n \in 0..N : \E it : Fits(it, n)}
<1>0. N \in Nat /\ \A T \in SUBSET S : T \in SUBSET Locks /\ Cardinality(T) \in Nat
  BY LocksFinite
<1>1. 0 \in good
  <2> DEFINE it == [T \in Upto(0) |-> 0]
  <2>1. \A T \in Upto(0) : T = {}
    <3> SUFFICES ASSUME NEW T \in Upto(0), T # {} PROVE FALSE
      OBVIOUS
    <3>1. Pick(T) \in T /\ T \in SUBSET Locks
      BY DEF Pick
    <3>2. Cardinality(T) \in Nat \ {0}
      BY <3>1, WithoutOne
    <3> QED BY <3>2
  <2>2. Fits(it, 0)
    BY <2>1
  <2> HIDE DEF Fits
  <2> QED BY <1>0, <2>2
<1>2. ASSUME NEW n \in 0..(N - 1), n \in good
      PROVE  n + 1 \in good
  <2>1. PICK it : Fits(it, n)
    BY <1>2
  <2> DEFINE m == n + 1
             up == [T \in Upto(m) |->
                      IF T = {} THEN 0 ELSE Tx[Pick(T)].weight + it[T \ {Pick(T)}]]
  <2>2. m \in 0..N /\ \A k \in Nat : (k <= n => k <= m) /\ (k <= m => k - 1 <= n)
    BY <1>0
  <2>3. ASSUME NEW T \in Upto(m), T # {}
        PROVE  T \ {Pick(T)} \in Upto(n) /\ T \ {Pick(T)} \in Upto(m)
    <3>1. T \in SUBSET Locks /\ T \in SUBSET S /\ Cardinality(T) \in Nat /\ Cardinality(T) <= m
      BY <1>0
    <3>2. Cardinality(T \ {Pick(T)}) = Cardinality(T) - 1 /\ T \ {Pick(T)} \in SUBSET S
      BY <2>3, <3>1, PickFacts
    <3>3. Cardinality(T \ {Pick(T)}) \in Nat
      BY <1>0, <3>2
    <3> HIDE DEF m
    <3> QED BY <2>2, <3>1, <3>2, <3>3
  <2>4. \A T \in Upto(n) : T \in Upto(m) /\ up[T] = it[T]
    <3> SUFFICES ASSUME NEW T \in Upto(n) PROVE T \in Upto(m) /\ up[T] = it[T]
      OBVIOUS
    <3>1. T \in SUBSET S /\ Cardinality(T) \in Nat /\ Cardinality(T) <= n
      BY <1>0
    <3>2. T \in Upto(m)
      <4> HIDE DEF m
      <4> QED BY <2>2, <3>1
    <3>3. it[T] = IF T = {} THEN 0 ELSE Tx[Pick(T)].weight + it[T \ {Pick(T)}]
      BY <2>1
    <3>4. up[T] = IF T = {} THEN 0 ELSE Tx[Pick(T)].weight + it[T \ {Pick(T)}]
      BY <3>2
    <3> QED BY <3>2, <3>3, <3>4
  <2>5. ASSUME NEW T \in Upto(m)
        PROVE  up[T] = IF T = {} THEN 0 ELSE Tx[Pick(T)].weight + up[T \ {Pick(T)}]
    BY <2>3, <2>4
  <2>6. up = [T \in Upto(m) |-> up[T]]
    OBVIOUS
  <2> HIDE DEF up, Upto
  <2>7. Fits(up, m)
    BY <2>5, <2>6
  <2> HIDE DEF Fits
  <2> QED BY <2>2, <2>7
<1>3. N \in good
  <2>1. 0 \in Nat /\ N \in 0..N
    BY <1>0
  <2> HIDE DEF good
  <2> QED BY <1>0, <1>1, <1>2, <2>1, Climb
<1>4. PICK it : Fits(it, N)
  BY <1>3
<1>5. Upto(N) = SUBSET S
  <2>1. IsFiniteSet(S)
    BY LocksFinite
  <2>2. \A T \in SUBSET S : Cardinality(T) <= N
    BY <2>1, FS_Subset
  <2> QED BY <2>2
<1> HIDE DEF Upto
<1> QED BY <1>4, <1>5 DEF Weighs

\* Two weighings agree on the sets they both weigh.
LEMMA WeighingUnique ==
  ASSUME NEW S \in SUBSET Locks, NEW U \in SUBSET S, NEW f, Weighs(f, S), NEW g, Weighs(g, U)
  PROVE  g[U] = f[U]
<1> DEFINE apart == {T \in SUBSET U : g[T] # f[T]}
           sizes == {Cardinality(T) : T \in apart}
<1> SUFFICES ASSUME apart # {} PROVE FALSE
  OBVIOUS
<1>1. \A T \in SUBSET U : T \in SUBSET S /\ T \in SUBSET Locks /\ Cardinality(T) \in Nat
  BY LocksFinite
<1>2. PICK k \in sizes : \A l \in sizes : k <= l
  <2>1. sizes \subseteq Nat /\ sizes # {}
    BY <1>1
  <2> HIDE DEF sizes
  <2> QED BY <2>1, LeastNat
<1>3. PICK T \in apart : k = Cardinality(T)
  OBVIOUS
<1>4. /\ T \in SUBSET U /\ T \in SUBSET S /\ T \in SUBSET Locks /\ Cardinality(T) \in Nat
      /\ g[T] # f[T]
  BY <1>1
<1>5. /\ f[T] = IF T = {} THEN 0 ELSE Tx[Pick(T)].weight + f[T \ {Pick(T)}]
      /\ g[T] = IF T = {} THEN 0 ELSE Tx[Pick(T)].weight + g[T \ {Pick(T)}]
  BY <1>4 DEF Weighs
<1>6. T # {}
  BY <1>4, <1>5
<1>7. Cardinality(T \ {Pick(T)}) = Cardinality(T) - 1 /\ T \ {Pick(T)} \in SUBSET U
  BY <1>4, <1>6, PickFacts
<1>8. T \ {Pick(T)} \notin apart
  <2>1. T \ {Pick(T)} \in apart => Cardinality(T) <= Cardinality(T) - 1
    BY <1>2, <1>3, <1>7
  <2> QED BY <1>4, <2>1
<1> QED BY <1>4, <1>5, <1>6, <1>7, <1>8

LEMMA WeightIs ==
  /\ WeightOf({}) = 0
  /\ \A S \in SUBSET Locks :
       S # {} => WeightOf(S) = Tx[Pick(S)].weight + WeightOf(S \ {Pick(S)})
<1>1. ASSUME NEW S \in SUBSET Locks
      PROVE  \E it : Weighs(it, S) /\ WeightOf(S) = it[S]
  <2> DEFINE w == CHOOSE it : Weighs(it, S)
  <2>1. Weighs(w, S)
    BY WeighingExists
  <2>2. WeightOf(S) = w[S]
    BY DEF WeightOf, MapThenSumSet, MapThenFoldSet, Weighs, Pick
  <2> HIDE DEF w
  <2> QED BY <2>1, <2>2
<1>2. WeightOf({}) = 0
  <2>1. {} \in SUBSET Locks
    OBVIOUS
  <2>2. PICK it : Weighs(it, {}) /\ WeightOf({}) = it[{}]
    BY <1>1, <2>1
  <2>3. {} \in SUBSET {}
    OBVIOUS
  <2> QED BY <2>2, <2>3 DEF Weighs
<1>3. ASSUME NEW S \in SUBSET Locks, S # {}
      PROVE  WeightOf(S) = Tx[Pick(S)].weight + WeightOf(S \ {Pick(S)})
  <2> DEFINE U == S \ {Pick(S)}
  <2>1. U \in SUBSET Locks /\ U \in SUBSET S
    OBVIOUS
  <2>2. PICK f : Weighs(f, S) /\ WeightOf(S) = f[S]
    BY <1>1
  <2>3. PICK g : Weighs(g, U) /\ WeightOf(U) = g[U]
    BY <1>1, <2>1
  <2>4. g[U] = f[U]
    BY <2>1, <2>2, <2>3, WeighingUnique
  <2>5. f[S] = Tx[Pick(S)].weight + f[U]
    BY <1>3, <2>2 DEF Weighs
  <2> QED BY <2>2, <2>3, <2>4, <2>5
<1> QED BY <1>2, <1>3

LEMMA WeightNat ==
  ASSUME NEW S \in SUBSET Locks
  PROVE  WeightOf(S) \in Nat
<1> DEFINE odd == {T \in SUBSET Locks : WeightOf(T) \notin Nat}
           sizes == {Cardinality(T) : T \in odd}
<1> SUFFICES ASSUME odd # {} PROVE FALSE
  OBVIOUS
<1>1. PICK k \in sizes : \A l \in sizes : k <= l
  <2>1. sizes \subseteq Nat /\ sizes # {}
    BY LocksFinite
  <2> HIDE DEF sizes
  <2> QED BY <2>1, LeastNat
<1>2. PICK T \in odd : k = Cardinality(T)
  OBVIOUS
<1>3. T \in SUBSET Locks /\ WeightOf(T) \notin Nat /\ Cardinality(T) \in Nat
  BY LocksFinite
<1>4. T # {}
  BY <1>3, WeightIs
<1>5. /\ Pick(T) \in Locks /\ T \ {Pick(T)} \in SUBSET Locks
      /\ Cardinality(T \ {Pick(T)}) = Cardinality(T) - 1
  BY <1>3, <1>4, PickFacts
<1>6. T \ {Pick(T)} \notin odd
  <2>1. T \ {Pick(T)} \in odd => Cardinality(T) <= Cardinality(T) - 1
    BY <1>1, <1>2, <1>5
  <2> QED BY <1>3, <2>1
<1>7. WeightOf(T \ {Pick(T)}) \in Nat
  BY <1>5, <1>6
<1>8. WeightOf(T) = Tx[Pick(T)].weight + WeightOf(T \ {Pick(T)})
  BY <1>3, <1>4, WeightIs
<1> QED BY <1>3, <1>5, <1>7, <1>8, LocksFinite

\* Whichever lock is taken out first.
LEMMA WeightWithout ==
  ASSUME NEW S \in SUBSET Locks, NEW x \in S
  PROVE  WeightOf(S) = Tx[x].weight + WeightOf(S \ {x})
<1> DEFINE odd == {T \in SUBSET Locks : \E y \in T : WeightOf(T) # Tx[y].weight + WeightOf(T \ {y})}
           sizes == {Cardinality(T) : T \in odd}
<1> SUFFICES ASSUME odd # {} PROVE FALSE
  OBVIOUS
<1>1. PICK k \in sizes : \A l \in sizes : k <= l
  <2>1. sizes \subseteq Nat /\ sizes # {}
    BY LocksFinite
  <2> HIDE DEF sizes
  <2> QED BY <2>1, LeastNat
<1>2. PICK T \in odd : k = Cardinality(T)
  OBVIOUS
<1>3. T \in SUBSET Locks /\ Cardinality(T) \in Nat
  BY LocksFinite
<1>4. PICK y \in T : WeightOf(T) # Tx[y].weight + WeightOf(T \ {y})
  OBVIOUS
<1> DEFINE z == Pick(T)
<1>5. z \in T
  BY <1>4 DEF Pick
<1> HIDE DEF z
<1>6. WeightOf(T) = Tx[z].weight + WeightOf(T \ {z})
  BY <1>3, <1>5, WeightIs DEF z
<1>7. z # y
  BY <1>4, <1>6
<1>8. ASSUME NEW v \in {y, z}
      PROVE  /\ T \ {v} \in SUBSET Locks /\ T \ {v} \notin odd
  <2>1. v \in T /\ T \ {v} \in SUBSET Locks
    BY <1>3, <1>5
  <2>2. Cardinality(T \ {v}) = Cardinality(T) - 1
    BY <1>3, <2>1, WithoutOne
  <2>3. T \ {v} \in odd => Cardinality(T) <= Cardinality(T) - 1
    BY <1>1, <1>2, <2>2
  <2>4. ~ (Cardinality(T) <= Cardinality(T) - 1)
    BY <1>3
  <2> HIDE DEF odd
  <2> QED BY <2>1, <2>3, <2>4
<1> DEFINE rest == (T \ {y}) \ {z}
<1>9. rest = (T \ {z}) \ {y} /\ rest \in SUBSET Locks
  BY <1>3
<1>10. WeightOf(T \ {z}) = Tx[y].weight + WeightOf(rest)
  <2>1. y \in T \ {z} /\ T \ {z} \in SUBSET Locks /\ T \ {z} \notin odd
    BY <1>7, <1>8
  <2>2. WeightOf(T \ {z}) = Tx[y].weight + WeightOf((T \ {z}) \ {y})
    BY <2>1
  <2> QED BY <1>9, <2>2
<1>11. WeightOf(T \ {y}) = Tx[z].weight + WeightOf(rest)
  <2>1. z \in T \ {y} /\ T \ {y} \in SUBSET Locks /\ T \ {y} \notin odd
    BY <1>5, <1>7, <1>8
  <2> QED BY <2>1
<1> HIDE DEF rest
<1>12. Tx[y].weight \in Nat /\ Tx[z].weight \in Nat /\ WeightOf(rest) \in Nat
  BY <1>3, <1>5, <1>9, LocksFinite, WeightNat
<1> QED BY <1>4, <1>6, <1>10, <1>11, <1>12

LEMMA WeightUnion ==
  ASSUME NEW A \in SUBSET Locks, NEW B \in SUBSET Locks, A \cap B = {}
  PROVE  WeightOf(A \cup B) = WeightOf(A) + WeightOf(B)
<1> DEFINE odd == {T \in SUBSET A : WeightOf(T \cup B) # WeightOf(T) + WeightOf(B)}
           sizes == {Cardinality(T) : T \in odd}
<1> SUFFICES ASSUME odd # {} PROVE FALSE
  OBVIOUS
<1>0. \A T \in SUBSET A : T \in SUBSET Locks
  OBVIOUS
<1>1. PICK k \in sizes : \A l \in sizes : k <= l
  <2>1. sizes \subseteq Nat /\ sizes # {}
    BY <1>0, LocksFinite
  <2> HIDE DEF sizes
  <2> QED BY <2>1, LeastNat
<1>2. PICK T \in odd : k = Cardinality(T)
  OBVIOUS
<1>3. T \in SUBSET A /\ T \in SUBSET Locks /\ Cardinality(T) \in Nat
      /\ WeightOf(T \cup B) # WeightOf(T) + WeightOf(B)
  BY <1>0, LocksFinite
<1>4. T # {}
  <2>1. {} \cup B = B /\ WeightOf(B) \in Nat /\ WeightOf({}) = 0
    BY WeightNat, WeightIs
  <2>2. WeightOf({}) + WeightOf(B) = WeightOf(B)
    BY <2>1
  <2> QED BY <1>3, <2>1, <2>2
<1>5. PICK x \in T : TRUE
  BY <1>4
<1> DEFINE U == T \ {x}
<1>6. /\ U \in SUBSET A /\ U \in SUBSET Locks /\ x \in Locks
      /\ (T \cup B) \ {x} = U \cup B /\ U \cup B \in SUBSET Locks /\ T \cup B \in SUBSET Locks
  BY <1>3
<1>7. U \notin odd
  <2>1. Cardinality(U) = Cardinality(T) - 1
    BY <1>3, WithoutOne
  <2>2. U \in odd => Cardinality(T) <= Cardinality(T) - 1
    BY <1>1, <1>2, <2>1
  <2> QED BY <1>3, <2>2
<1>8. WeightOf(U \cup B) = WeightOf(U) + WeightOf(B)
  BY <1>6, <1>7
<1>9. WeightOf(T) = Tx[x].weight + WeightOf(U)
  BY <1>3, WeightWithout
<1>10. WeightOf(T \cup B) = Tx[x].weight + WeightOf(U \cup B)
  <2>1. x \in T \cup B
    OBVIOUS
  <2>2. WeightOf(T \cup B) = Tx[x].weight + WeightOf((T \cup B) \ {x})
    BY <1>6, <2>1, WeightWithout
  <2> QED BY <1>6, <2>2
<1> HIDE DEF U
<1>11. Tx[x].weight \in Nat /\ WeightOf(U) \in Nat /\ WeightOf(B) \in Nat
  BY <1>6, LocksFinite, WeightNat
<1> QED BY <1>3, <1>8, <1>9, <1>10, <1>11

-----------------------------------------------------------------------------
(* The index as a function of the transactions that have been mined.       *)
Proposed(M) == {Tx[t].proposal : t \in {u \in M : Tx[u].mode = "PROPOSAL"}}

CastsOf(M, lock) == {t \in M : Tx[t].mode = "CAST" /\ lock \in Tx[t].locks}

LockState(M, lock) ==
  IF lock \notin M THEN None
  ELSE IF CastsOf(M, lock) = {} THEN "unused"
  ELSE Tx[Pick(CastsOf(M, lock))].direction

Voted(M, p, d) == {lock \in Locks : Tx[lock].proposal = p /\ LockState(M, lock) = d}

IndexFrom(M) ==
  [proposals |-> Proposed(M),
   locks |-> [lock \in Locks |-> LockState(M, lock)],
   tally |-> [p \in Proposals |-> [d \in Directions |-> WeightOf(Voted(M, p, d))]]]

\* What a chain's transactions have in common.
Legal(M) ==
  /\ \A t, u \in M : Tx[t].mode = "PROPOSAL" /\ Tx[u].mode = "PROPOSAL"
                       /\ Tx[t].proposal = Tx[u].proposal => t = u
  /\ \A t \in M : Tx[t].mode = "CAST" =>
       /\ Tx[t].proposal \in Proposed(M)
       /\ \A lock \in Tx[t].locks : lock \in M /\ Tx[lock].proposal = Tx[t].proposal
  /\ \A t, u \in M : Tx[t].mode = "CAST" /\ Tx[u].mode = "CAST"
                       /\ Tx[t].locks \cap Tx[u].locks # {} => t = u

\* t counts on u to be there before it.
Needs(t, u) ==
  /\ Tx[t].mode = "CAST"
  /\ \/ u \in Tx[t].locks
     \/ Tx[u].mode = "PROPOSAL" /\ Tx[u].proposal = Tx[t].proposal

\* t may be in the block of this height.
InTime(t, height) ==
  Tx[t].mode \in {"PROPOSAL", "CAST"} => height < Proposal[Tx[t].proposal].start

IndexType ==
  [proposals : SUBSET Proposals,
   locks : [Locks -> {None, "unused"} \cup Directions],
   tally : [Proposals -> [Directions -> Nat]]]

ViewType == [proposals : SUBSET Proposals, votes : [Proposals -> [Directions -> Nat]]]

\* No votes for what is not proposed.
Clean(view) == \A p \in Proposals \ view.proposals : view.votes[p] = [d \in Directions |-> 0]

\* The transactions of the first n blocks of a chain.
MinedBy(c, n) == UNION {ToSet(c[i].txs) : i \in 1..n}

BlockOK(c, n) ==
  LET txs == c[n].txs
      before == MinedBy(c, n - 1)
  IN  /\ txs \in Seq(Txs) /\ IsInjective(txs)
      /\ \A a, b \in DOMAIN txs : a < b => ~ Needs(txs[a], txs[b])
      /\ \A t \in ToSet(txs) :
           /\ t \notin before /\ InTime(t, n)
           /\ \A u \in before : ~ Needs(u, t)
      /\ c[n].paid = GetPQPayment(IndexView(IndexFrom(before)), n)

GInv ==
  /\ IsSeq(chain)
  /\ \A n \in 1..Height : BlockOK(chain, n)
  /\ Legal(Mined)
  /\ index = IndexFrom(Mined)
  /\ budgetman \in ViewType
  /\ agreement \in {"exact", "stale", "lost"}
  /\ agreement # "lost" => budgetman.proposals = index.proposals /\ Clean(budgetman)
  /\ agreement = "exact" => budgetman = IndexView(index)

-----------------------------------------------------------------------------
(* One transaction more.                                                   *)
LEMMA TxFacts ==
  ASSUME NEW t \in Txs
  PROVE  /\ Tx[t].mode \in {"PROPOSAL", "LOCK", "CAST"} /\ Tx[t].proposal \in Proposals
         /\ Tx[t].mode = "LOCK" <=> t \in Locks
         /\ Tx[t].mode = "CAST" => Tx[t].locks \in SUBSET Locks /\ Tx[t].direction \in Directions
BY GovernanceAssumption DEF Locks

LEMMA StateNames ==
  None \notin Directions /\ "unused" \notin Directions /\ None # "unused"
BY GovernanceAssumption DEF Directions

\* A lock's state, by the cast that has it.
LEMMA LockStates ==
  ASSUME NEW M \in SUBSET Txs, Legal(M), NEW lock \in Locks
  PROVE  /\ lock \notin M => LockState(M, lock) = None /\ CastsOf(M, lock) = {}
         /\ lock \in M /\ CastsOf(M, lock) = {} => LockState(M, lock) = "unused"
         /\ \A t \in CastsOf(M, lock) :
              /\ CastsOf(M, lock) = {t} /\ lock \in M /\ Tx[lock].proposal = Tx[t].proposal
              /\ LockState(M, lock) = Tx[t].direction /\ Tx[t].direction \in Directions
         /\ LockState(M, lock) \in {None, "unused"} \cup Directions
<1>1. ASSUME NEW t \in CastsOf(M, lock)
      PROVE  /\ CastsOf(M, lock) = {t} /\ lock \in M /\ Tx[lock].proposal = Tx[t].proposal
             /\ LockState(M, lock) = Tx[t].direction /\ Tx[t].direction \in Directions
  <2>1. t \in M /\ Tx[t].mode = "CAST" /\ lock \in Tx[t].locks
    BY DEF CastsOf
  <2>2. lock \in M /\ Tx[lock].proposal = Tx[t].proposal
    BY <2>1 DEF Legal
  <2>3. \A u \in CastsOf(M, lock) : u = t
    BY <2>1 DEF CastsOf, Legal
  <2>4. CastsOf(M, lock) = {t}
    BY <2>3
  <2>5. Pick(CastsOf(M, lock)) = t
    BY <2>4 DEF Pick
  <2> QED BY <2>1, <2>2, <2>4, <2>5, TxFacts DEF LockState
<1>2. lock \notin M => CastsOf(M, lock) = {}
  BY <1>1
<1>3. CastsOf(M, lock) = {} => LockState(M, lock) \in {None, "unused"}
  BY DEF LockState
<1>4. LockState(M, lock) \in {None, "unused"} \cup Directions
  <2>1. CASE CastsOf(M, lock) = {}
    BY <1>3, <2>1
  <2>2. CASE CastsOf(M, lock) # {}
    BY <1>1, <2>2
  <2> QED BY <2>1, <2>2
<1> QED BY <1>1, <1>2, <1>4 DEF LockState

LEMMA LegalLess ==
  ASSUME NEW M \in SUBSET Txs, NEW t \in Txs \ M, Legal(M \cup {t}), \A u \in M : ~ Needs(u, t)
  PROVE  Legal(M)
<1> DEFINE L == M \cup {t}
<1>1. ASSUME NEW u \in M, Tx[u].mode = "CAST"
      PROVE  /\ Tx[u].proposal \in Proposed(M)
             /\ \A lock \in Tx[u].locks : lock \in M /\ Tx[lock].proposal = Tx[u].proposal
  <2>1. /\ Tx[u].proposal \in Proposed(L)
        /\ \A lock \in Tx[u].locks : lock \in L /\ Tx[lock].proposal = Tx[u].proposal
    BY <1>1 DEF Legal
  <2>2. t \notin Tx[u].locks /\ ~ (Tx[t].mode = "PROPOSAL" /\ Tx[t].proposal = Tx[u].proposal)
    BY <1>1 DEF Needs
  <2>3. PICK v \in L : Tx[v].mode = "PROPOSAL" /\ Tx[u].proposal = Tx[v].proposal
    BY <2>1 DEF Proposed
  <2>4. v \in M
    BY <2>2, <2>3
  <2>5. Tx[u].proposal \in Proposed(M)
    BY <2>3, <2>4 DEF Proposed
  <2> QED BY <2>1, <2>2, <2>5
<1> QED BY <1>1 DEF Legal

\* What one more transaction changes.
LEMMA ProposalMore ==
  ASSUME NEW M \in SUBSET Txs, NEW t \in Txs \ M, Legal(M), Legal(M \cup {t}),
         Tx[t].mode = "PROPOSAL"
  PROVE  /\ Proposed(M \cup {t}) = Proposed(M) \cup {Tx[t].proposal}
         /\ Tx[t].proposal \notin Proposed(M)
         /\ \A lock \in Locks : LockState(M \cup {t}, lock) = LockState(M, lock)
         /\ \A p \in Proposals, d \in Directions : Voted(M \cup {t}, p, d) = Voted(M, p, d)
<1>1. Proposed(M \cup {t}) = Proposed(M) \cup {Tx[t].proposal}
  BY DEF Proposed
<1>2. Tx[t].proposal \notin Proposed(M)
  <2> SUFFICES ASSUME Tx[t].proposal \in Proposed(M) PROVE FALSE
    OBVIOUS
  <2>1. PICK u \in M : Tx[u].mode = "PROPOSAL" /\ Tx[u].proposal = Tx[t].proposal
    BY DEF Proposed
  <2>2. u = t
    BY <2>1 DEF Legal
  <2> QED BY <2>2
<1>3. ASSUME NEW lock \in Locks
      PROVE  LockState(M \cup {t}, lock) = LockState(M, lock)
  <2>1. t # lock
    BY TxFacts
  <2>2. CastsOf(M \cup {t}, lock) = CastsOf(M, lock)
    BY DEF CastsOf
  <2>3. lock \in M \cup {t} <=> lock \in M
    BY <2>1
  <2> QED BY <2>2, <2>3 DEF LockState
<1>4. \A p \in Proposals, d \in Directions : Voted(M \cup {t}, p, d) = Voted(M, p, d)
  BY <1>3 DEF Voted
<1> QED BY <1>1, <1>2, <1>3, <1>4

LEMMA LockMore ==
  ASSUME NEW M \in SUBSET Txs, NEW t \in Txs \ M, Legal(M), Legal(M \cup {t}),
         Tx[t].mode = "LOCK"
  PROVE  /\ t \in Locks
         /\ Proposed(M \cup {t}) = Proposed(M)
         /\ LockState(M, t) = None /\ LockState(M \cup {t}, t) = "unused"
         /\ \A lock \in Locks \ {t} : LockState(M \cup {t}, lock) = LockState(M, lock)
         /\ \A p \in Proposals, d \in Directions : Voted(M \cup {t}, p, d) = Voted(M, p, d)
<1>1. t \in Locks
  BY TxFacts
<1>2. Proposed(M \cup {t}) = Proposed(M)
  BY DEF Proposed
<1>3. \A lock \in Locks : CastsOf(M \cup {t}, lock) = CastsOf(M, lock)
  BY DEF CastsOf
<1>4. LockState(M, t) = None /\ CastsOf(M, t) = {}
  BY <1>1, LockStates
<1>5. LockState(M \cup {t}, t) = "unused"
  BY <1>1, <1>3, <1>4 DEF LockState
<1>6. \A lock \in Locks \ {t} : LockState(M \cup {t}, lock) = LockState(M, lock)
  <2> SUFFICES ASSUME NEW lock \in Locks \ {t}
               PROVE  LockState(M \cup {t}, lock) = LockState(M, lock)
    OBVIOUS
  <2>1. lock \in M \cup {t} <=> lock \in M
    OBVIOUS
  <2>2. CastsOf(M \cup {t}, lock) = CastsOf(M, lock)
    BY <1>3
  <2> QED BY <2>1, <2>2 DEF LockState
<1>7. \A p \in Proposals, d \in Directions : Voted(M \cup {t}, p, d) = Voted(M, p, d)
  BY <1>1, <1>4, <1>5, <1>6, StateNames DEF Voted
<1> QED BY <1>1, <1>2, <1>4, <1>5, <1>6, <1>7

LEMMA CastMore ==
  ASSUME NEW M \in SUBSET Txs, NEW t \in Txs \ M, Legal(M), Legal(M \cup {t}),
         Tx[t].mode = "CAST"
  PROVE  /\ Proposed(M \cup {t}) = Proposed(M)
         /\ Tx[t].proposal \in Proposed(M)
         /\ \A lock \in Locks :
              IF lock \in Tx[t].locks
              THEN LockState(M, lock) = "unused" /\ LockState(M \cup {t}, lock) = Tx[t].direction
              ELSE LockState(M \cup {t}, lock) = LockState(M, lock)
         /\ \A p \in Proposals, d \in Directions :
              WeightOf(Voted(M \cup {t}, p, d)) =
                WeightOf(Voted(M, p, d)) +
                  IF p = Tx[t].proposal /\ d = Tx[t].direction THEN Weight(t) ELSE 0
<1> DEFINE L == M \cup {t}
           own == Tx[t].locks
<1>0. /\ own \in SUBSET Locks /\ Tx[t].direction \in Directions /\ t \in L
      /\ \A lock \in own : lock \in L /\ Tx[lock].proposal = Tx[t].proposal /\ lock # t
      /\ L \in SUBSET Txs
  BY TxFacts DEF Legal
<1>1. Proposed(L) = Proposed(M)
  BY DEF Proposed
<1>2. Tx[t].proposal \in Proposed(M)
  BY <1>1 DEF Legal
<1>3. ASSUME NEW lock \in own
      PROVE  LockState(M, lock) = "unused" /\ LockState(L, lock) = Tx[t].direction
  <2>1. lock \in Locks /\ lock \in M
    BY <1>0
  <2>2. t \in CastsOf(L, lock)
    BY <1>0 DEF CastsOf
  <2>3. CastsOf(L, lock) = {t} /\ LockState(L, lock) = Tx[t].direction
    BY <1>0, <2>1, <2>2, LockStates
  <2>4. CastsOf(M, lock) = {}
    BY <2>3 DEF CastsOf
  <2> QED BY <2>1, <2>3, <2>4 DEF LockState
<1>4. ASSUME NEW lock \in Locks \ own
      PROVE  LockState(L, lock) = LockState(M, lock)
  <2>1. CastsOf(L, lock) = CastsOf(M, lock)
    BY DEF CastsOf
  <2>2. lock \in L <=> lock \in M
    BY TxFacts
  <2> HIDE DEF L
  <2> QED BY <2>1, <2>2 DEF LockState
<1>5. ASSUME NEW p \in Proposals, NEW d \in Directions
      PROVE  WeightOf(Voted(L, p, d)) =
               WeightOf(Voted(M, p, d)) +
                 IF p = Tx[t].proposal /\ d = Tx[t].direction THEN Weight(t) ELSE 0
  <2>0. Voted(M, p, d) \in SUBSET Locks
    BY DEF Voted
  <2>1. CASE p = Tx[t].proposal /\ d = Tx[t].direction
    <3>1. Voted(L, p, d) = Voted(M, p, d) \cup own
      BY <1>0, <1>3, <1>4, <2>1, StateNames DEF Voted
    <3>2. Voted(M, p, d) \cap own = {}
      BY <1>3, StateNames DEF Voted
    <3>3. WeightOf(Voted(L, p, d)) = WeightOf(Voted(M, p, d)) + WeightOf(own)
      BY <1>0, <2>0, <3>1, <3>2, WeightUnion
    <3> QED BY <2>1, <3>3 DEF Weight
  <2>2. CASE ~ (p = Tx[t].proposal /\ d = Tx[t].direction)
    <3>1. Voted(L, p, d) = Voted(M, p, d)
      BY <1>0, <1>3, <1>4, <2>2, StateNames DEF Voted
    <3>2. WeightOf(Voted(M, p, d)) \in Nat
      BY <2>0, WeightNat
    <3> QED BY <2>2, <3>1, <3>2
  <2> QED BY <2>1, <2>2
<1> QED BY <1>1, <1>2, <1>3, <1>4, <1>5

\* No vote is for what nobody proposed.
LEMMA VotedProposed ==
  ASSUME NEW M \in SUBSET Txs, Legal(M), NEW p \in Proposals \ Proposed(M), NEW d \in Directions
  PROVE  Voted(M, p, d) = {}
<1> SUFFICES ASSUME NEW lock \in Voted(M, p, d) PROVE FALSE
  OBVIOUS
<1>1. lock \in Locks /\ Tx[lock].proposal = p /\ LockState(M, lock) = d
  BY DEF Voted
<1>2. CastsOf(M, lock) # {}
  BY <1>1, LockStates, StateNames
<1>3. PICK t \in CastsOf(M, lock) : TRUE
  BY <1>2
<1>4. t \in M /\ Tx[t].mode = "CAST" /\ Tx[t].proposal = p
  BY <1>1, <1>3, LockStates DEF CastsOf
<1> QED BY <1>4 DEF Legal

\* A transaction that may be applied makes the rest no worse.
LEMMA NextLegal ==
  ASSUME NEW M \in SUBSET Txs, Legal(M), NEW t \in Txs \ M, NEW height \in Nat,
         CanApply(t, IndexFrom(M), IndexView(IndexFrom(M)), height)
  PROVE  Legal(M \cup {t}) /\ InTime(t, height) /\ \A u \in M : ~ Needs(u, t)
<1> DEFINE L == M \cup {t}
           p == Tx[t].proposal
<1>0. \A u \in M : Tx[u].mode = "CAST" =>
        /\ Tx[u].proposal \in Proposed(M) /\ Tx[u].proposal \in Proposed(L)
        /\ \A lock \in Tx[u].locks : lock \in M /\ lock \in L /\ Tx[lock].proposal = Tx[u].proposal
  BY DEF Legal, Proposed
<1>1. CASE Tx[t].mode = "PROPOSAL"
  <2>1. Proposal[p].start > height /\ p \notin Proposed(M)
    BY <1>1 DEF CanApply, IndexFrom, IndexView
  <2>2. \A u \in M : ~ (Tx[u].mode = "PROPOSAL" /\ Tx[u].proposal = p)
    BY <2>1 DEF Proposed
  <2>3. Legal(L)
    BY <1>0, <1>1, <2>2 DEF Legal
  <2>4. \A u \in M : ~ Needs(u, t)
    BY <1>0, <2>1 DEF Needs
  <2>5. height < Proposal[p].start
    BY <2>1, TxFacts, GovernanceAssumption
  <2> QED BY <2>3, <2>4, <2>5 DEF InTime
<1>2. CASE Tx[t].mode = "LOCK"
  <2>1. Legal(L)
    BY <1>0, <1>2 DEF Legal
  <2> QED BY <1>0, <1>2, <2>1 DEF Needs, InTime
<1>3. CASE Tx[t].mode = "CAST"
  <2>1. /\ p \in Proposed(M) /\ height < Proposal[p].start
        /\ \A lock \in Tx[t].locks : Tx[lock].proposal = p /\ IndexFrom(M).locks[lock] = "unused"
    BY <1>3 DEF CanApply, CheckAndStageCast, LockFits, VotingOpen, IndexFrom, IndexView
  <2>2. ASSUME NEW lock \in Tx[t].locks
        PROVE  lock \in M /\ CastsOf(M, lock) = {} /\ Tx[lock].proposal = p
    <3>1. lock \in Locks
      BY <1>3, TxFacts
    <3>2. LockState(M, lock) = "unused"
      BY <2>1, <3>1 DEF IndexFrom
    <3> QED BY <2>1, <3>1, <3>2, LockStates, StateNames
  <2>3. \A u \in M : Tx[u].mode = "CAST" => Tx[u].locks \cap Tx[t].locks = {}
    BY <2>2 DEF CastsOf
  <2>4. p \in Proposed(L)
    BY <2>1 DEF Proposed
  <2>5. Legal(L)
    <3>1. \A u, v \in L : Tx[u].mode = "PROPOSAL" /\ Tx[v].mode = "PROPOSAL"
                            /\ Tx[u].proposal = Tx[v].proposal => u = v
      BY <1>3 DEF Legal
    <3>2. \A u \in L : Tx[u].mode = "CAST" =>
            /\ Tx[u].proposal \in Proposed(L)
            /\ \A lock \in Tx[u].locks : lock \in L /\ Tx[lock].proposal = Tx[u].proposal
      BY <1>0, <2>2, <2>4
    <3>3. \A u, v \in L : Tx[u].mode = "CAST" /\ Tx[v].mode = "CAST"
                            /\ Tx[u].locks \cap Tx[v].locks # {} => u = v
      BY <2>3 DEF Legal
    <3> QED BY <3>1, <3>2, <3>3 DEF Legal
  <2>6. \A u \in M : ~ Needs(u, t)
    BY <1>3, TxFacts DEF Needs
  <2> QED BY <2>1, <2>5, <2>6 DEF InTime
<1> QED BY <1>1, <1>2, <1>3, TxFacts

Tally(M) == [p \in Proposals |-> [d \in Directions |-> WeightOf(Voted(M, p, d))]]

LockMap(M) == [lock \in Locks |-> LockState(M, lock)]

LEMMA IndexParts ==
  ASSUME NEW M \in SUBSET Txs, Legal(M)
  PROVE  /\ IndexFrom(M) = [proposals |-> Proposed(M), locks |-> LockMap(M), tally |-> Tally(M)]
         /\ IndexView(IndexFrom(M)) = [proposals |-> Proposed(M), votes |-> Tally(M)]
         /\ Proposed(M) \in SUBSET Proposals
         /\ LockMap(M) \in [Locks -> {None, "unused"} \cup Directions]
         /\ Tally(M) \in [Proposals -> [Directions -> Nat]]
         /\ \A p \in Proposals, d \in Directions : Tally(M)[p][d] = WeightOf(Voted(M, p, d))
         /\ \A p \in Proposals \ Proposed(M) : Tally(M)[p] = [d \in Directions |-> 0]
         /\ IndexFrom(M) \in IndexType /\ IndexView(IndexFrom(M)) \in ViewType
<1>1. Proposed(M) \in SUBSET Proposals
  BY TxFacts DEF Proposed
<1>2. LockMap(M) \in [Locks -> {None, "unused"} \cup Directions]
  BY LockStates DEF LockMap
<1>3. \A p \in Proposals, d \in Directions : WeightOf(Voted(M, p, d)) \in Nat
  BY WeightNat DEF Voted
<1>4. \A p \in Proposals \ Proposed(M) : Tally(M)[p] = [d \in Directions |-> 0]
  BY VotedProposed, WeightIs DEF Tally
<1>5. Tally(M) \in [Proposals -> [Directions -> Nat]]
  BY <1>3 DEF Tally
<1>6. /\ IndexFrom(M) = [proposals |-> Proposed(M), locks |-> LockMap(M), tally |-> Tally(M)]
      /\ IndexView(IndexFrom(M)) = [proposals |-> Proposed(M), votes |-> Tally(M)]
  BY DEF IndexFrom, IndexView, LockMap, Tally
<1>7. IndexFrom(M) \in IndexType /\ IndexView(IndexFrom(M)) \in ViewType
  BY <1>1, <1>2, <1>5, <1>6 DEF IndexType, ViewType
<1>8. \A p \in Proposals, d \in Directions : Tally(M)[p][d] = WeightOf(Voted(M, p, d))
  BY DEF Tally
<1> QED BY <1>1, <1>2, <1>4, <1>5, <1>6, <1>7, <1>8

LEMMA SameTally ==
  ASSUME NEW f \in [Proposals -> [Directions -> Nat]], NEW g \in [Proposals -> [Directions -> Nat]],
         \A p \in Proposals, d \in Directions : f[p][d] = g[p][d]
  PROVE  f = g
<1>1. ASSUME NEW p \in Proposals
      PROVE  f[p] = g[p]
  <2>1. f[p] \in [Directions -> Nat] /\ g[p] \in [Directions -> Nat]
    OBVIOUS
  <2>2. \A d \in Directions : f[p][d] = g[p][d]
    OBVIOUS
  <2> QED BY <2>1, <2>2
<1> QED BY <1>1

LEMMA TallyExcept ==
  ASSUME NEW f \in [Proposals -> [Directions -> Nat]], NEW p \in Proposals, NEW d \in Directions,
         NEW x \in Nat
  PROVE  /\ [f EXCEPT ![p][d] = x] \in [Proposals -> [Directions -> Nat]]
         /\ \A q \in Proposals, e \in Directions :
              [f EXCEPT ![p][d] = x][q][e] = IF q = p /\ e = d THEN x ELSE f[q][e]
<1>1. [f EXCEPT ![p][d] = x] = [f EXCEPT ![p] = [f[p] EXCEPT ![d] = x]]
  OBVIOUS
<1>2. f[p] \in [Directions -> Nat]
  OBVIOUS
<1> DEFINE row == [f[p] EXCEPT ![d] = x]
<1>3. row \in [Directions -> Nat] /\ \A e \in Directions : row[e] = IF e = d THEN x ELSE f[p][e]
  BY <1>2
<1> HIDE DEF row
<1>4. /\ [f EXCEPT ![p] = row] \in [Proposals -> [Directions -> Nat]]
      /\ \A q \in Proposals : [f EXCEPT ![p] = row][q] = IF q = p THEN row ELSE f[q]
  BY <1>3
<1> QED BY <1>1, <1>3, <1>4 DEF row

\* What each kind of transaction does to the parts of the index and memory.
Unvoted == [d \in Directions |-> 0]

LEMMA ProposalStep ==
  ASSUME NEW t \in Txs, Tx[t].mode = "PROPOSAL", NEW i \in IndexType, NEW v \in ViewType
  PROVE  /\ ApplyToIndex(t, i) =
              [proposals |-> i.proposals \cup {Tx[t].proposal}, locks |-> i.locks, tally |-> i.tally]
         /\ UndoInIndex(t, i) =
              [proposals |-> i.proposals \ {Tx[t].proposal}, locks |-> i.locks, tally |-> i.tally]
         /\ ApplyToMemory(t, v) =
              [proposals |-> v.proposals \cup {Tx[t].proposal},
               votes |-> [v.votes EXCEPT ![Tx[t].proposal] = Unvoted]]
         /\ UndoInMemory(t, v) =
              [proposals |-> v.proposals \ {Tx[t].proposal},
               votes |-> [v.votes EXCEPT ![Tx[t].proposal] = Unvoted]]
<1> DEFINE p == Tx[t].proposal
<1>0. /\ i = [proposals |-> i.proposals, locks |-> i.locks, tally |-> i.tally]
      /\ v = [proposals |-> v.proposals, votes |-> v.votes]
  BY DEF IndexType, ViewType
<1>1. /\ ApplyToIndex(t, i) = [i EXCEPT !.proposals = @ \cup {p}]
      /\ UndoInIndex(t, i) = [i EXCEPT !.proposals = @ \ {p}]
  BY DEF ApplyToIndex, UndoInIndex
<1>2. /\ ApplyToMemory(t, v) = [v EXCEPT !.proposals = @ \cup {p},
                                        !.votes[p] = Unvoted]
      /\ UndoInMemory(t, v) = [v EXCEPT !.proposals = @ \ {p},
                                       !.votes[p] = Unvoted]
  BY DEF ApplyToMemory, UndoInMemory, Unvoted
<1> HIDE DEF p
<1> QED BY <1>0, <1>1, <1>2 DEF p

LEMMA LockStep ==
  ASSUME NEW t \in Txs, Tx[t].mode = "LOCK", NEW i \in IndexType, NEW v \in ViewType
  PROVE  /\ ApplyToIndex(t, i) =
              [proposals |-> i.proposals, locks |-> [i.locks EXCEPT ![t] = "unused"],
               tally |-> i.tally]
         /\ UndoInIndex(t, i) =
              [proposals |-> i.proposals, locks |-> [i.locks EXCEPT ![t] = None],
               tally |-> i.tally]
         /\ ApplyToMemory(t, v) = v
         /\ UndoInMemory(t, v) = v
<1>0. i = [proposals |-> i.proposals, locks |-> i.locks, tally |-> i.tally]
  BY DEF IndexType
<1>1. /\ ApplyToIndex(t, i) = [i EXCEPT !.locks[t] = "unused"]
      /\ UndoInIndex(t, i) = [i EXCEPT !.locks[t] = None]
  BY DEF ApplyToIndex, UndoInIndex
<1>2. ApplyToMemory(t, v) = v /\ UndoInMemory(t, v) = v
  BY DEF ApplyToMemory, UndoInMemory
<1> QED BY <1>0, <1>1, <1>2

More(votes, t) ==
  [votes EXCEPT ![Tx[t].proposal][Tx[t].direction] =
     votes[Tx[t].proposal][Tx[t].direction] + Weight(t)]

Less(votes, t) ==
  [votes EXCEPT ![Tx[t].proposal][Tx[t].direction] =
     Larger(0, votes[Tx[t].proposal][Tx[t].direction] - Weight(t))]

LEMMA CastStep ==
  ASSUME NEW t \in Txs, Tx[t].mode = "CAST", NEW i \in IndexType, NEW v \in ViewType
  PROVE  /\ ApplyToIndex(t, i) =
              [proposals |-> i.proposals, locks |-> Stage(i.locks, t, Tx[t].direction),
               tally |-> More(i.tally, t)]
         /\ UndoInIndex(t, i) =
              [proposals |-> i.proposals, locks |-> Stage(i.locks, t, "unused"),
               tally |-> Less(i.tally, t)]
         /\ ApplyToMemory(t, v) =
              [proposals |-> v.proposals,
               votes |-> IF Tx[t].proposal \in v.proposals THEN More(v.votes, t) ELSE v.votes]
         /\ UndoInMemory(t, v) =
              [proposals |-> v.proposals,
               votes |-> IF Tx[t].proposal \in v.proposals THEN Less(v.votes, t) ELSE v.votes]
<1> DEFINE p == Tx[t].proposal
           d == Tx[t].direction
           w == Weight(t)
<1>0. /\ i = [proposals |-> i.proposals, locks |-> i.locks, tally |-> i.tally]
      /\ v = [proposals |-> v.proposals, votes |-> v.votes]
  BY DEF IndexType, ViewType
<1>1. /\ ApplyToIndex(t, i) = [i EXCEPT !.locks = Stage(@, t, d), !.tally[p][d] = @ + w]
      /\ UndoInIndex(t, i) =
           [i EXCEPT !.locks = Stage(@, t, "unused"), !.tally[p][d] = Larger(0, @ - w)]
  BY DEF ApplyToIndex, UndoInIndex
<1>2. /\ ApplyToMemory(t, v) = IF p \in v.proposals THEN [v EXCEPT !.votes[p][d] = @ + w] ELSE v
      /\ UndoInMemory(t, v) =
           IF p \in v.proposals THEN [v EXCEPT !.votes[p][d] = Larger(0, @ - w)] ELSE v
  BY DEF ApplyToMemory, UndoInMemory, AddVotes, SubVotes
<1>3. \A f : More(f, t) = [f EXCEPT ![p][d] = f[p][d] + w]
             /\ Less(f, t) = [f EXCEPT ![p][d] = Larger(0, f[p][d] - w)]
  BY DEF More, Less
<1> HIDE DEF p, d, w
<1>4. /\ ApplyToIndex(t, i) = [proposals |-> i.proposals, locks |-> Stage(i.locks, t, d),
                               tally |-> More(i.tally, t)]
      /\ UndoInIndex(t, i) = [proposals |-> i.proposals, locks |-> Stage(i.locks, t, "unused"),
                              tally |-> Less(i.tally, t)]
  <2>1. ApplyToIndex(t, i) = [proposals |-> i.proposals, locks |-> Stage(i.locks, t, d),
                              tally |-> [i.tally EXCEPT ![p][d] = i.tally[p][d] + w]]
    BY <1>0, <1>1
  <2>2. UndoInIndex(t, i) = [proposals |-> i.proposals, locks |-> Stage(i.locks, t, "unused"),
                             tally |-> [i.tally EXCEPT ![p][d] = Larger(0, i.tally[p][d] - w)]]
    BY <1>0, <1>1
  <2> QED BY <1>3, <2>1, <2>2
<1>5. /\ ApplyToMemory(t, v) = [proposals |-> v.proposals,
                                votes |-> IF p \in v.proposals THEN More(v.votes, t) ELSE v.votes]
      /\ UndoInMemory(t, v) = [proposals |-> v.proposals,
                               votes |-> IF p \in v.proposals THEN Less(v.votes, t) ELSE v.votes]
  BY <1>0, <1>2, <1>3
<1> QED BY <1>4, <1>5 DEF p, d

\* The index and memory after a transaction, and after it has been taken back.
LEMMA ApplyIs ==
  ASSUME NEW M \in SUBSET Txs, NEW t \in Txs \ M, Legal(M), Legal(M \cup {t})
  PROVE  /\ ApplyToIndex(t, IndexFrom(M)) = IndexFrom(M \cup {t})
         /\ ApplyToMemory(t, IndexView(IndexFrom(M))) = IndexView(IndexFrom(M \cup {t}))
         /\ UndoInIndex(t, IndexFrom(M \cup {t})) = IndexFrom(M)
         /\ UndoInMemory(t, IndexView(IndexFrom(M \cup {t}))) = IndexView(IndexFrom(M))
<1> DEFINE L == M \cup {t}
           p == Tx[t].proposal
           d == Tx[t].direction
<1>0. L \in SUBSET Txs /\ p \in Proposals
  BY TxFacts
<1>a. /\ IndexFrom(M) = [proposals |-> Proposed(M), locks |-> LockMap(M), tally |-> Tally(M)]
      /\ IndexView(IndexFrom(M)) = [proposals |-> Proposed(M), votes |-> Tally(M)]
      /\ Tally(M) \in [Proposals -> [Directions -> Nat]]
      /\ \A q \in Proposals \ Proposed(M) : Tally(M)[q] = Unvoted
      /\ IndexFrom(M) \in IndexType /\ IndexView(IndexFrom(M)) \in ViewType
  BY IndexParts DEF Unvoted
<1>b. /\ IndexFrom(L) = [proposals |-> Proposed(L), locks |-> LockMap(L), tally |-> Tally(L)]
      /\ IndexView(IndexFrom(L)) = [proposals |-> Proposed(L), votes |-> Tally(L)]
      /\ Tally(L) \in [Proposals -> [Directions -> Nat]]
      /\ IndexFrom(L) \in IndexType /\ IndexView(IndexFrom(L)) \in ViewType
  BY <1>0, IndexParts
<1>c. (\A q \in Proposals, e \in Directions : Voted(L, q, e) = Voted(M, q, e)) => Tally(L) = Tally(M)
  BY DEF Tally
<1>e. (\A lock \in Locks : LockState(L, lock) = LockState(M, lock)) => LockMap(L) = LockMap(M)
  BY DEF LockMap
<1>d. \A q \in Proposals, e \in Directions :
        Tally(M)[q][e] = WeightOf(Voted(M, q, e)) /\ Tally(L)[q][e] = WeightOf(Voted(L, q, e))
  BY DEF Tally
<1>1. CASE Tx[t].mode = "PROPOSAL"
  <2>1. /\ Proposed(L) = Proposed(M) \cup {p} /\ p \notin Proposed(M)
        /\ LockMap(L) = LockMap(M) /\ Tally(L) = Tally(M)
    <3>1. /\ Proposed(L) = Proposed(M) \cup {p} /\ p \notin Proposed(M)
          /\ \A lock \in Locks : LockState(L, lock) = LockState(M, lock)
          /\ \A q \in Proposals, e \in Directions : Voted(L, q, e) = Voted(M, q, e)
      BY <1>1, ProposalMore
    <3> HIDE DEF L, p
    <3> QED BY <1>c, <1>e, <3>1
  <2>2. [Tally(M) EXCEPT ![p] = Unvoted] = Tally(M)
    BY <1>0, <1>a, <2>1
  <2>3. Proposed(L) \ {p} = Proposed(M)
    BY <2>1
  <2>4. /\ ApplyToIndex(t, IndexFrom(M)) =
             [proposals |-> Proposed(M) \cup {p}, locks |-> LockMap(M), tally |-> Tally(M)]
        /\ UndoInIndex(t, IndexFrom(L)) =
             [proposals |-> Proposed(L) \ {p}, locks |-> LockMap(L), tally |-> Tally(L)]
    <3> HIDE DEF L
    <3>1. /\ ApplyToIndex(t, IndexFrom(M)) =
               [proposals |-> IndexFrom(M).proposals \cup {p}, locks |-> IndexFrom(M).locks,
                tally |-> IndexFrom(M).tally]
          /\ UndoInIndex(t, IndexFrom(L)) =
               [proposals |-> IndexFrom(L).proposals \ {p}, locks |-> IndexFrom(L).locks,
                tally |-> IndexFrom(L).tally]
      BY <1>1, <1>a, <1>b, ProposalStep
    <3> HIDE DEF p
    <3> QED BY <1>a, <1>b, <3>1
  <2>5. /\ ApplyToMemory(t, IndexView(IndexFrom(M))) =
             [proposals |-> Proposed(M) \cup {p},
              votes |-> [Tally(M) EXCEPT ![p] = Unvoted]]
        /\ UndoInMemory(t, IndexView(IndexFrom(L))) =
             [proposals |-> Proposed(L) \ {p},
              votes |-> [Tally(L) EXCEPT ![p] = Unvoted]]
    <3> HIDE DEF L
    <3> DEFINE v == IndexView(IndexFrom(M))
               u == IndexView(IndexFrom(L))
    <3>1. /\ ApplyToMemory(t, v) =
               [proposals |-> v.proposals \cup {p}, votes |-> [v.votes EXCEPT ![p] = Unvoted]]
          /\ UndoInMemory(t, u) =
               [proposals |-> u.proposals \ {p}, votes |-> [u.votes EXCEPT ![p] = Unvoted]]
      BY <1>1, <1>a, <1>b, ProposalStep
    <3>2. v.proposals = Proposed(M) /\ v.votes = Tally(M)
      BY <1>a
    <3>3. u.proposals = Proposed(L) /\ u.votes = Tally(L)
      BY <1>b
    <3> HIDE DEF p, v, u
    <3> QED BY <3>1, <3>2, <3>3 DEF v, u
  <2> HIDE DEF L, p
  <2> QED BY <1>a, <1>b, <2>1, <2>2, <2>3, <2>4, <2>5 DEF L
<1>2. CASE Tx[t].mode = "LOCK"
  <2>1. /\ t \in Locks /\ Proposed(L) = Proposed(M)
        /\ LockState(M, t) = None /\ LockState(L, t) = "unused"
        /\ \A lock \in Locks \ {t} : LockState(L, lock) = LockState(M, lock)
        /\ \A q \in Proposals, e \in Directions : Voted(L, q, e) = Voted(M, q, e)
    BY <1>2, LockMore
  <2> HIDE DEF L
  <2>2. Tally(L) = Tally(M)
    BY <1>c, <2>1
  <2>3. LockMap(L) = [LockMap(M) EXCEPT ![t] = "unused"] /\ LockMap(M) = [LockMap(L) EXCEPT ![t] = None]
    BY <2>1 DEF LockMap
  <2>4. /\ ApplyToIndex(t, IndexFrom(M)) =
             [proposals |-> Proposed(M), locks |-> [LockMap(M) EXCEPT ![t] = "unused"],
              tally |-> Tally(M)]
        /\ UndoInIndex(t, IndexFrom(L)) =
             [proposals |-> Proposed(L), locks |-> [LockMap(L) EXCEPT ![t] = None],
              tally |-> Tally(L)]
    <3>1. /\ IndexFrom(M).proposals = Proposed(M) /\ IndexFrom(M).locks = LockMap(M)
          /\ IndexFrom(M).tally = Tally(M)
      BY <1>a
    <3>2. /\ IndexFrom(L).proposals = Proposed(L) /\ IndexFrom(L).locks = LockMap(L)
          /\ IndexFrom(L).tally = Tally(L)
      BY <1>b
    <3> QED BY <1>2, <1>a, <1>b, <3>1, <3>2, LockStep
  <2>5. /\ ApplyToMemory(t, IndexView(IndexFrom(M))) = IndexView(IndexFrom(M))
        /\ UndoInMemory(t, IndexView(IndexFrom(L))) = IndexView(IndexFrom(L))
    BY <1>2, <1>a, <1>b, LockStep
  <2> QED BY <1>a, <1>b, <2>1, <2>2, <2>3, <2>4, <2>5 DEF L
<1>3. CASE Tx[t].mode = "CAST"
  <2> DEFINE w == Weight(t)
  <2>1. /\ Proposed(L) = Proposed(M) /\ p \in Proposed(M)
        /\ \A lock \in Locks :
             IF lock \in Tx[t].locks
             THEN LockState(M, lock) = "unused" /\ LockState(L, lock) = d
             ELSE LockState(L, lock) = LockState(M, lock)
        /\ \A q \in Proposals, e \in Directions :
             WeightOf(Voted(L, q, e)) =
               WeightOf(Voted(M, q, e)) + IF q = p /\ e = d THEN Weight(t) ELSE 0
    BY <1>3, CastMore
  <2>2. Stage(LockMap(M), t, d) = LockMap(L) /\ Stage(LockMap(L), t, "unused") = LockMap(M)
    <3> HIDE DEF L, d
    <3>1. \A lock \in Locks :
            /\ (IF lock \in Tx[t].locks THEN d ELSE LockMap(M)[lock]) = LockState(L, lock)
            /\ (IF lock \in Tx[t].locks THEN "unused" ELSE LockMap(L)[lock]) = LockState(M, lock)
      BY <2>1 DEF LockMap
    <3>2. /\ Stage(LockMap(M), t, d) = [lock \in Locks |-> LockState(L, lock)]
          /\ Stage(LockMap(L), t, "unused") = [lock \in Locks |-> LockState(M, lock)]
      BY <3>1 DEF Stage
    <3> QED BY <3>2 DEF LockMap
  <2>3. w \in Nat /\ d \in Directions
    BY <1>3, TxFacts, WeightNat DEF Weight
  <2>a. \A q \in Proposals, e \in Directions :
          Tally(L)[q][e] = Tally(M)[q][e] + IF q = p /\ e = d THEN w ELSE 0
    <3> HIDE DEF L, d, p
    <3> QED BY <1>d, <2>1
  <2> HIDE DEF w, L, p, d
  <2>4. \A q \in Proposals, e \in Directions : Tally(M)[q][e] \in Nat /\ Tally(L)[q][e] \in Nat
    BY <1>a, <1>b
  <2>5. Tally(L)[p][d] = Tally(M)[p][d] + w
    BY <1>0, <2>3, <2>a
  <2>b. ASSUME NEW q \in Proposals, NEW e \in Directions, ~ (q = p /\ e = d)
        PROVE  Tally(L)[q][e] = Tally(M)[q][e]
    <3>1. Tally(L)[q][e] = Tally(M)[q][e] + 0
      BY <2>a, <2>b
    <3>2. Tally(M)[q][e] \in Nat
      BY <2>4
    <3> QED BY <3>1, <3>2
  <2>6. Larger(0, Tally(L)[p][d] - w) = Tally(M)[p][d]
    BY <1>0, <2>3, <2>4, <2>5 DEF Larger
  <2>7. [Tally(M) EXCEPT ![p][d] = Tally(M)[p][d] + w] = Tally(L)
    <3> DEFINE x == Tally(M)[p][d] + w
               f == [Tally(M) EXCEPT ![p][d] = x]
    <3>0. x \in Nat /\ x = Tally(L)[p][d]
      BY <1>0, <2>3, <2>4, <2>5
    <3> HIDE DEF x
    <3>1. /\ f \in [Proposals -> [Directions -> Nat]]
          /\ \A q \in Proposals, e \in Directions :
               f[q][e] = IF q = p /\ e = d THEN x ELSE Tally(M)[q][e]
      BY <1>0, <1>a, <2>3, <3>0, TallyExcept
    <3> HIDE DEF f
    <3>2. \A q \in Proposals, e \in Directions : f[q][e] = Tally(L)[q][e]
      BY <2>b, <3>0, <3>1
    <3>3. f = Tally(L)
      BY <1>b, <3>1, <3>2, SameTally
    <3> QED BY <3>3 DEF f, x
  <2>8. [Tally(L) EXCEPT ![p][d] = Larger(0, Tally(L)[p][d] - w)] = Tally(M)
    <3> DEFINE x == Larger(0, Tally(L)[p][d] - w)
               f == [Tally(L) EXCEPT ![p][d] = x]
    <3>0. x \in Nat /\ x = Tally(M)[p][d]
      BY <1>0, <2>3, <2>4, <2>6
    <3> HIDE DEF x
    <3>1. /\ f \in [Proposals -> [Directions -> Nat]]
          /\ \A q \in Proposals, e \in Directions :
               f[q][e] = IF q = p /\ e = d THEN x ELSE Tally(L)[q][e]
      BY <1>0, <1>b, <2>3, <3>0, TallyExcept
    <3> HIDE DEF f
    <3>2. \A q \in Proposals, e \in Directions : f[q][e] = Tally(M)[q][e]
      BY <2>b, <3>0, <3>1
    <3>3. f = Tally(M)
      BY <1>a, <3>1, <3>2, SameTally
    <3> QED BY <3>3 DEF f, x
  <2>9. More(Tally(M), t) = Tally(L) /\ Less(Tally(L), t) = Tally(M)
    BY <2>7, <2>8 DEF More, Less, p, d, w
  <2>10. /\ ApplyToIndex(t, IndexFrom(M)) =
              [proposals |-> Proposed(M), locks |-> Stage(LockMap(M), t, d), tally |-> Tally(L)]
         /\ UndoInIndex(t, IndexFrom(L)) =
              [proposals |-> Proposed(L), locks |-> Stage(LockMap(L), t, "unused"),
               tally |-> Tally(M)]
    BY <1>3, <1>a, <1>b, <2>9, CastStep DEF d
  <2>11. /\ ApplyToMemory(t, IndexView(IndexFrom(M))) =
              [proposals |-> Proposed(M), votes |-> Tally(L)]
         /\ UndoInMemory(t, IndexView(IndexFrom(L))) =
              [proposals |-> Proposed(L), votes |-> Tally(M)]
    BY <1>3, <1>a, <1>b, <2>1, <2>9, CastStep DEF p
  <2> QED BY <1>a, <1>b, <2>1, <2>2, <2>10, <2>11 DEF L
<1> QED BY <1>0, <1>1, <1>2, <1>3, TxFacts

\* Whatever memory is, a transaction applied or taken back leaves it well formed.
LEMMA StepTypes ==
  ASSUME NEW t \in Txs, NEW i \in IndexType, NEW v \in ViewType
  PROVE  /\ ApplyToIndex(t, i) \in IndexType /\ UndoInIndex(t, i) \in IndexType
         /\ ApplyToMemory(t, v) \in ViewType /\ UndoInMemory(t, v) \in ViewType
         /\ Clean(v) => Clean(ApplyToMemory(t, v)) /\ Clean(UndoInMemory(t, v))
         /\ v.proposals = i.proposals =>
              /\ ApplyToMemory(t, v).proposals = ApplyToIndex(t, i).proposals
              /\ UndoInMemory(t, v).proposals = UndoInIndex(t, i).proposals
<1> DEFINE p == Tx[t].proposal
           d == Tx[t].direction
<1>0. /\ p \in Proposals
      /\ i.proposals \in SUBSET Proposals /\ i.locks \in [Locks -> {None, "unused"} \cup Directions]
      /\ i.tally \in [Proposals -> [Directions -> Nat]]
      /\ v.proposals \in SUBSET Proposals /\ v.votes \in [Proposals -> [Directions -> Nat]]
  BY TxFacts DEF IndexType, ViewType
<1>1. CASE Tx[t].mode = "PROPOSAL"
  <2> DEFINE f == [v.votes EXCEPT ![p] = Unvoted]
  <2>0. Unvoted \in [Directions -> Nat]
    BY DEF Unvoted
  <2>1. /\ f \in [Proposals -> [Directions -> Nat]] /\ f[p] = Unvoted
        /\ \A q \in Proposals \ {p} : f[q] = v.votes[q]
    BY <1>0, <2>0
  <2>2. /\ ApplyToIndex(t, i) = [proposals |-> i.proposals \cup {p}, locks |-> i.locks, tally |-> i.tally]
        /\ UndoInIndex(t, i) = [proposals |-> i.proposals \ {p}, locks |-> i.locks, tally |-> i.tally]
        /\ ApplyToMemory(t, v) = [proposals |-> v.proposals \cup {p}, votes |-> f]
        /\ UndoInMemory(t, v) = [proposals |-> v.proposals \ {p}, votes |-> f]
    BY <1>1, ProposalStep
  <2> HIDE DEF f, p
  <2>3. i.proposals \cup {p} \in SUBSET Proposals /\ v.proposals \cup {p} \in SUBSET Proposals
        /\ i.proposals \ {p} \in SUBSET Proposals /\ v.proposals \ {p} \in SUBSET Proposals
    BY <1>0
  <2>4. /\ ApplyToIndex(t, i) \in IndexType /\ UndoInIndex(t, i) \in IndexType
        /\ ApplyToMemory(t, v) \in ViewType /\ UndoInMemory(t, v) \in ViewType
    <3>1. /\ [proposals |-> i.proposals \cup {p}, locks |-> i.locks, tally |-> i.tally] \in IndexType
          /\ [proposals |-> i.proposals \ {p}, locks |-> i.locks, tally |-> i.tally] \in IndexType
      BY <1>0, <2>3 DEF IndexType
    <3>2. /\ [proposals |-> v.proposals \cup {p}, votes |-> f] \in ViewType
          /\ [proposals |-> v.proposals \ {p}, votes |-> f] \in ViewType
      BY <1>0, <2>1, <2>3 DEF ViewType
    <3> QED BY <2>2, <3>1, <3>2
  <2>5. /\ ApplyToMemory(t, v).proposals = v.proposals \cup {p} /\ ApplyToMemory(t, v).votes = f
        /\ UndoInMemory(t, v).proposals = v.proposals \ {p} /\ UndoInMemory(t, v).votes = f
        /\ ApplyToIndex(t, i).proposals = i.proposals \cup {p}
        /\ UndoInIndex(t, i).proposals = i.proposals \ {p}
    BY <2>2
  <2>6. Clean(v) => \A q \in Proposals \ (v.proposals \ {p}) : f[q] = Unvoted
    BY <2>1 DEF Clean, Unvoted
  <2>7. Clean(v) => Clean(ApplyToMemory(t, v)) /\ Clean(UndoInMemory(t, v))
    BY <2>5, <2>6 DEF Clean, Unvoted
  <2> QED BY <2>4, <2>5, <2>7
<1>2. CASE Tx[t].mode = "LOCK"
  <2>1. t \in Locks
    BY <1>2, TxFacts
  <2>2. /\ ApplyToIndex(t, i) = [proposals |-> i.proposals, locks |-> [i.locks EXCEPT ![t] = "unused"],
                                 tally |-> i.tally]
        /\ UndoInIndex(t, i) = [proposals |-> i.proposals, locks |-> [i.locks EXCEPT ![t] = None],
                                tally |-> i.tally]
        /\ ApplyToMemory(t, v) = v /\ UndoInMemory(t, v) = v
    BY <1>2, LockStep
  <2>3. /\ [i.locks EXCEPT ![t] = "unused"] \in [Locks -> {None, "unused"} \cup Directions]
        /\ [i.locks EXCEPT ![t] = None] \in [Locks -> {None, "unused"} \cup Directions]
    BY <1>0, <2>1
  <2>4. ApplyToIndex(t, i) \in IndexType /\ UndoInIndex(t, i) \in IndexType
    <3>1. /\ [proposals |-> i.proposals, locks |-> [i.locks EXCEPT ![t] = "unused"],
              tally |-> i.tally] \in IndexType
          /\ [proposals |-> i.proposals, locks |-> [i.locks EXCEPT ![t] = None],
              tally |-> i.tally] \in IndexType
      BY <1>0, <2>3 DEF IndexType
    <3> QED BY <2>2, <3>1
  <2>5. ApplyToIndex(t, i).proposals = i.proposals /\ UndoInIndex(t, i).proposals = i.proposals
    BY <2>2
  <2> QED BY <2>2, <2>4, <2>5
<1>3. CASE Tx[t].mode = "CAST"
  <2>0. d \in Directions /\ Weight(t) \in Nat
    BY <1>3, TxFacts, WeightNat DEF Weight
  <2>1. ASSUME NEW f \in [Proposals -> [Directions -> Nat]]
        PROVE  /\ More(f, t) \in [Proposals -> [Directions -> Nat]]
               /\ Less(f, t) \in [Proposals -> [Directions -> Nat]]
               /\ \A q \in Proposals \ {p} : More(f, t)[q] = f[q] /\ Less(f, t)[q] = f[q]
    <3> DEFINE x == f[p][d] + Weight(t)
               y == Larger(0, f[p][d] - Weight(t))
    <3>1. f[p][d] \in Nat
      BY <1>0, <2>0
    <3>2. x \in Nat /\ y \in Nat
      BY <2>0, <3>1 DEF Larger
    <3>3. More(f, t) = [f EXCEPT ![p][d] = x] /\ Less(f, t) = [f EXCEPT ![p][d] = y]
      BY DEF More, Less
    <3> HIDE DEF x, y, p, d
    <3>4. /\ [f EXCEPT ![p][d] = x] \in [Proposals -> [Directions -> Nat]]
          /\ [f EXCEPT ![p][d] = y] \in [Proposals -> [Directions -> Nat]]
      BY <1>0, <2>0, <3>2, TallyExcept
    <3>5. \A q \in Proposals \ {p} :
            [f EXCEPT ![p][d] = x][q] = f[q] /\ [f EXCEPT ![p][d] = y][q] = f[q]
      OBVIOUS
    <3> QED BY <3>3, <3>4, <3>5
  <2>2. /\ ApplyToIndex(t, i) = [proposals |-> i.proposals, locks |-> Stage(i.locks, t, d),
                                 tally |-> More(i.tally, t)]
        /\ UndoInIndex(t, i) = [proposals |-> i.proposals, locks |-> Stage(i.locks, t, "unused"),
                                tally |-> Less(i.tally, t)]
        /\ ApplyToMemory(t, v) = [proposals |-> v.proposals,
                                  votes |-> IF p \in v.proposals THEN More(v.votes, t) ELSE v.votes]
        /\ UndoInMemory(t, v) = [proposals |-> v.proposals,
                                 votes |-> IF p \in v.proposals THEN Less(v.votes, t) ELSE v.votes]
    BY <1>3, CastStep
  <2>3. /\ Stage(i.locks, t, d) \in [Locks -> {None, "unused"} \cup Directions]
        /\ Stage(i.locks, t, "unused") \in [Locks -> {None, "unused"} \cup Directions]
    BY <1>0, <2>0 DEF Stage
  <2> DEFINE more == IF p \in v.proposals THEN More(v.votes, t) ELSE v.votes
             less == IF p \in v.proposals THEN Less(v.votes, t) ELSE v.votes
  <2>4. /\ more \in [Proposals -> [Directions -> Nat]] /\ less \in [Proposals -> [Directions -> Nat]]
        /\ \A q \in Proposals \ v.proposals : more[q] = v.votes[q] /\ less[q] = v.votes[q]
    BY <1>0, <2>1
  <2>5. ApplyToIndex(t, i) \in IndexType /\ UndoInIndex(t, i) \in IndexType
    <3>1. More(i.tally, t) \in [Proposals -> [Directions -> Nat]]
          /\ Less(i.tally, t) \in [Proposals -> [Directions -> Nat]]
      BY <1>0, <2>1
    <3>2. /\ [proposals |-> i.proposals, locks |-> Stage(i.locks, t, d),
              tally |-> More(i.tally, t)] \in IndexType
          /\ [proposals |-> i.proposals, locks |-> Stage(i.locks, t, "unused"),
              tally |-> Less(i.tally, t)] \in IndexType
      BY <1>0, <2>3, <3>1 DEF IndexType
    <3> QED BY <2>2, <3>2
  <2> HIDE DEF more, less
  <2>6. /\ ApplyToMemory(t, v) = [proposals |-> v.proposals, votes |-> more]
        /\ UndoInMemory(t, v) = [proposals |-> v.proposals, votes |-> less]
    BY <2>2 DEF more, less
  <2>7. ApplyToMemory(t, v) \in ViewType /\ UndoInMemory(t, v) \in ViewType
    <3>1. /\ [proposals |-> v.proposals, votes |-> more] \in ViewType
          /\ [proposals |-> v.proposals, votes |-> less] \in ViewType
      BY <1>0, <2>4 DEF ViewType
    <3> QED BY <2>6, <3>1
  <2>8. /\ ApplyToMemory(t, v).proposals = v.proposals /\ ApplyToMemory(t, v).votes = more
        /\ UndoInMemory(t, v).proposals = v.proposals /\ UndoInMemory(t, v).votes = less
    BY <2>6
  <2>9. ApplyToIndex(t, i).proposals = i.proposals /\ UndoInIndex(t, i).proposals = i.proposals
    BY <2>2
  <2>10. Clean(v) => Clean(ApplyToMemory(t, v)) /\ Clean(UndoInMemory(t, v))
    BY <2>4, <2>8 DEF Clean
  <2> QED BY <2>5, <2>7, <2>8, <2>9, <2>10
<1> QED BY <1>1, <1>2, <1>3, TxFacts

(* A refresh changes votes only, of proposals that memory has.             *)
LEMMA SeenTypes ==
  ASSUME NEW moment, NEW refreshed, NEW i \in IndexType, NEW v \in ViewType
  PROVE  /\ Seen(moment, v, i, refreshed) \in ViewType
         /\ Seen(moment, v, i, refreshed).proposals = v.proposals
         /\ Clean(v) => Clean(Seen(moment, v, i, refreshed))
         /\ refreshed = {} => Seen(moment, v, i, refreshed) = v
<1> DEFINE votes == [p \in Proposals |-> IF p \in v.proposals THEN i.tally[p] ELSE v.votes[p]]
           w == [proposals |-> v.proposals, votes |-> votes]
<1>1. /\ i.tally \in [Proposals -> [Directions -> Nat]]
      /\ v.proposals \in SUBSET Proposals /\ v.votes \in [Proposals -> [Directions -> Nat]]
      /\ v = [proposals |-> v.proposals, votes |-> v.votes]
  BY DEF IndexType, ViewType
<1>2. votes \in [Proposals -> [Directions -> Nat]]
  BY <1>1
<1>3. \A p \in Proposals \ v.proposals : votes[p] = v.votes[p]
  OBVIOUS
<1>4. Refreshed(v, i) = w
  <2>1. Refreshed(v, i) = [v EXCEPT !.votes = votes]
    BY DEF Refreshed
  <2> HIDE DEF votes
  <2> QED BY <1>1, <2>1
<1> HIDE DEF votes
<1>5. w \in ViewType /\ w.proposals = v.proposals /\ (Clean(v) => Clean(w))
  BY <1>1, <1>2, <1>3 DEF ViewType, Clean
<1> HIDE DEF w
<1> QED BY <1>4, <1>5 DEF Seen

(* Whether or not a refresh comes in between, a transaction does the same  *)
(* to the proposals in memory; without one it does the same to all of it.  *)
LEMMA MemoryTypes ==
  ASSUME NEW t \in Txs, NEW i \in IndexType, NEW v \in ViewType, NEW refreshed
  PROVE  LET applied == ApplyToIndex(t, i)
             undone == UndoInIndex(t, i)
             after == Remember(t, v, applied, refreshed)
             before == Forget(t, v, undone, refreshed)
         IN  /\ after \in ViewType /\ before \in ViewType
             /\ Clean(v) => Clean(after) /\ Clean(before)
             /\ v.proposals = i.proposals =>
                  after.proposals = applied.proposals /\ before.proposals = undone.proposals
             /\ refreshed = {} => after = ApplyToMemory(t, v) /\ before = UndoInMemory(t, v)
<1> DEFINE applied == ApplyToIndex(t, i)
           undone == UndoInIndex(t, i)
           v1 == Seen(<<t, "between">>, v, applied, refreshed)
           w1 == Seen(<<t, "between">>, v, undone, refreshed)
           v2 == ApplyToMemory(t, v1)
           w2 == UndoInMemory(t, w1)
           v3 == Seen(<<t, "after">>, v2, applied, refreshed)
           w3 == Seen(<<t, "after">>, w2, undone, refreshed)
<1>1. applied \in IndexType /\ undone \in IndexType
  BY StepTypes
<1>2. Remember(t, v, applied, refreshed) = v3 /\ Forget(t, v, undone, refreshed) = w3
  BY DEF Remember, Forget
<1>3. v.proposals = i.proposals =>
        /\ v1.proposals = i.proposals => v2.proposals = applied.proposals
        /\ w1.proposals = i.proposals => w2.proposals = undone.proposals
  <2> HIDE DEF v1, w1
  <2>1. v1 \in ViewType /\ w1 \in ViewType
    BY <1>1, SeenTypes DEF v1, w1
  <2> QED BY <2>1, StepTypes
<1> HIDE DEF applied, undone
<1>4. /\ v1 \in ViewType /\ v1.proposals = v.proposals /\ (Clean(v) => Clean(v1))
      /\ refreshed = {} => v1 = v
  BY <1>1, SeenTypes
<1>5. /\ w1 \in ViewType /\ w1.proposals = v.proposals /\ (Clean(v) => Clean(w1))
      /\ refreshed = {} => w1 = v
  BY <1>1, SeenTypes
<1> HIDE DEF v1, w1
<1>6. v2 \in ViewType /\ w2 \in ViewType /\ (Clean(v) => Clean(v2) /\ Clean(w2))
  <2>1. v2 \in ViewType /\ (Clean(v1) => Clean(v2))
    BY <1>4, StepTypes
  <2>2. w2 \in ViewType /\ (Clean(w1) => Clean(w2))
    BY <1>5, StepTypes
  <2> QED BY <1>4, <1>5, <2>1, <2>2
<1>7. refreshed = {} => v2 = ApplyToMemory(t, v) /\ w2 = UndoInMemory(t, v)
  BY <1>4, <1>5
<1> HIDE DEF v2, w2
<1>8. /\ v3 \in ViewType /\ v3.proposals = v2.proposals /\ (Clean(v2) => Clean(v3))
      /\ refreshed = {} => v3 = v2
  BY <1>1, <1>6, SeenTypes
<1>9. /\ w3 \in ViewType /\ w3.proposals = w2.proposals /\ (Clean(w2) => Clean(w3))
      /\ refreshed = {} => w3 = w2
  BY <1>1, <1>6, SeenTypes
<1> HIDE DEF v3, w3
<1> QED BY <1>2, <1>3, <1>4, <1>5, <1>6, <1>7, <1>8, <1>9 DEF applied, undone

-----------------------------------------------------------------------------
(* A block, one transaction at a time.                                     *)
ProcessState == [ok : BOOLEAN, index : IndexType, view : ViewType]

ProcessOne(t, s, height, refreshed) ==
  IF s.ok /\ CanApply(t, s.index, s.view, height)
  THEN [ok |-> TRUE, index |-> ApplyToIndex(t, s.index),
        view |-> Remember(t, s.view, ApplyToIndex(t, s.index), refreshed)]
  ELSE [s EXCEPT !.ok = FALSE]

IsProcessRun(run, txs, i, view, height, refreshed) ==
  /\ run \in [0..Len(txs) -> ProcessState]
  /\ run[0] = [ok |-> TRUE, index |-> i, view |-> view]
  /\ \A n \in 1..Len(txs) : run[n] = ProcessOne(txs[n], run[n - 1], height, refreshed)
  /\ run[Len(txs)] = ProcessBlock(txs, i, view, height, refreshed)

LEMMA ProcessRun ==
  ASSUME NEW txs \in Seq(Txs), NEW i \in IndexType, NEW view \in ViewType, NEW height \in Nat,
         NEW refreshed
  PROVE  \E run : IsProcessRun(run, txs, i, view, height, refreshed)
<1> DEFINE N == Len(txs)
           base == [ok |-> TRUE, index |-> i, view |-> view]
           F == [n \in 1..N |-> [s \in ProcessState |-> ProcessOne(txs[n], s, height, refreshed)]]
<1>1. N \in Nat /\ DOMAIN txs = 1..N /\ \A n \in 1..N : txs[n] \in Txs
  BY LenProperties
<1>2. base \in ProcessState
  BY DEF ProcessState
<1>3. ASSUME NEW n \in 1..N, NEW s \in ProcessState
      PROVE  F[n][s] = ProcessOne(txs[n], s, height, refreshed) /\ F[n][s] \in ProcessState
  <2>1. s.index \in IndexType /\ s.view \in ViewType /\ txs[n] \in Txs
    BY <1>1 DEF ProcessState
  <2>2. /\ ApplyToIndex(txs[n], s.index) \in IndexType
        /\ Remember(txs[n], s.view, ApplyToIndex(txs[n], s.index), refreshed) \in ViewType
    BY <2>1, StepTypes, MemoryTypes
  <2>3. [s EXCEPT !.ok = FALSE] \in ProcessState
    BY DEF ProcessState
  <2>4. [ok |-> TRUE, index |-> ApplyToIndex(txs[n], s.index),
         view |-> Remember(txs[n], s.view, ApplyToIndex(txs[n], s.index), refreshed)] \in ProcessState
    BY <2>2 DEF ProcessState
  <2>5. ProcessOne(txs[n], s, height, refreshed) \in ProcessState
    BY <2>3, <2>4 DEF ProcessOne
  <2> QED BY <2>5
<1> DEFINE G(it) == it = [T \in SUBSET (1..N) |->
                           IF T = {} THEN base ELSE ProcessOne(txs[Max(T)], it[T \ {Max(T)}], height, refreshed)]
           fold == CHOOSE it : G(it)
<1>4. ProcessBlock(txs, i, view, height, refreshed) = fold[1..N]
  BY <1>1 DEF ProcessBlock, FoldLeft, MapThenFoldSet, ProcessOne
<1> HIDE DEF F
<1>b. Closed(F, N, ProcessState)
  BY <1>3 DEF Closed
<1>5. PICK it : IsFold(it, F, N, ProcessState, base)
  <2>2. N \in Nat
    BY <1>1
  <2> HIDE DEF base, N
  <2> QED BY <1>2, <1>b, <2>2, FoldExists
<1>6. G(it)
  <2>1. ASSUME NEW T \in SUBSET (1..N), T # {}
        PROVE  it[T] = ProcessOne(txs[Max(T)], it[T \ {Max(T)}], height, refreshed)
    <3>1. Max(T) \in 1..N
      BY <1>1, <2>1, MaxUpTo
    <3>2. T \ {Max(T)} \in SUBSET (1..N)
      OBVIOUS
    <3>3. it[T \ {Max(T)}] \in ProcessState /\ it[T] = F[Max(T)][it[T \ {Max(T)}]]
      BY <1>5, <2>1, <3>2 DEF IsFold
    <3> HIDE DEF N
    <3> QED BY <1>3, <3>1, <3>3
  <2>2. it[{}] = base
    BY <1>5 DEF IsFold
  <2>3. it = [T \in SUBSET (1..N) |-> it[T]]
    BY <1>5 DEF IsFold
  <2> HIDE DEF N, base
  <2> QED BY <2>1, <2>2, <2>3
<1>7. G(fold)
  <2> HIDE DEF G
  <2> QED BY <1>6
<1> HIDE DEF fold
<1>8. fold[{}] = base
  BY <1>7
<1>9. \A n \in 1..N : fold[1..n] = ProcessOne(txs[n], fold[1..(n - 1)], height, refreshed)
  <2> SUFFICES ASSUME NEW n \in 1..N
               PROVE  fold[1..n] = ProcessOne(txs[n], fold[1..(n - 1)], height, refreshed)
    OBVIOUS
  <2>1. /\ 1..n \in SUBSET (1..N) /\ 1..n # {}
        /\ Max(1..n) = n /\ (1..n) \ {Max(1..n)} = 1..(n - 1)
    BY <1>1, FirstOnes
  <2>2. \A T \in SUBSET (1..N) :
          T # {} => fold[T] = ProcessOne(txs[Max(T)], fold[T \ {Max(T)}], height, refreshed)
    BY <1>7
  <2> HIDE DEF N
  <2>3. fold[1..n] = ProcessOne(txs[Max(1..n)], fold[(1..n) \ {Max(1..n)}], height, refreshed)
    BY <2>1, <2>2
  <2> QED BY <2>1, <2>3
<1>10. PICK run : IsRun(run, F, N, ProcessState, base) /\ run[N] = fold[1..N]
  <2> HIDE DEF base, N, G
  <2>1. \A n \in 1..N : fold[1..(n - 1)] \in ProcessState => fold[1..n] = F[n][fold[1..(n - 1)]]
    BY <1>3, <1>9
  <2>2. N \in Nat
    BY <1>1
  <2> QED BY <1>2, <1>8, <1>b, <2>1, <2>2, RunOf
<1>11. \A n \in 1..N : run[n] = ProcessOne(txs[n], run[n - 1], height, refreshed)
  <2>1. \A n \in 1..N : n - 1 \in 0..N
    BY <1>1
  <2> HIDE DEF N, base
  <2> QED BY <1>3, <1>10, <2>1 DEF IsRun
<1> QED BY <1>4, <1>10, <1>11 DEF IsProcessRun, IsRun

\* The same for the pass that only checks.
CheckState ==
  [ok : BOOLEAN, proposalAdds : SUBSET Proposals,
   staged : [Locks -> {None, "unused"} \cup Directions]]

IsCheckRun(run, txs, i, view, height) ==
  /\ run \in [0..Len(txs) -> CheckState]
  /\ run[0] = [ok |-> TRUE, proposalAdds |-> {}, staged |-> i.locks]
  /\ \A n \in 1..Len(txs) : run[n] = JustCheckStep(run[n - 1], txs[n], view, height)
  /\ run[Len(txs)].ok = JustCheck(txs, i, view, height)

\* What a step does to each part.
CheckOk(s, t, view, height) ==
  CASE Tx[t].mode = "PROPOSAL" ->
         /\ Proposal[Tx[t].proposal].start > height
         /\ Tx[t].proposal \notin view.proposals \cup s.proposalAdds
    [] Tx[t].mode = "LOCK" -> s.staged[t] = None
    [] Tx[t].mode = "CAST" -> CheckAndStageCast(t, s.staged, view, height)

LEMMA CheckStep ==
  ASSUME NEW t \in Txs, NEW s \in CheckState, NEW view, NEW height
  PROVE  /\ JustCheckStep(s, t, view, height) \in CheckState
         /\ JustCheckStep(s, t, view, height).ok <=> s.ok /\ CheckOk(s, t, view, height)
         /\ Tx[t].mode = "PROPOSAL" =>
              /\ JustCheckStep(s, t, view, height).proposalAdds = s.proposalAdds \cup {Tx[t].proposal}
              /\ JustCheckStep(s, t, view, height).staged = s.staged
         /\ Tx[t].mode = "LOCK" =>
              /\ JustCheckStep(s, t, view, height).proposalAdds = s.proposalAdds
              /\ JustCheckStep(s, t, view, height).staged = [s.staged EXCEPT ![t] = "unused"]
         /\ Tx[t].mode = "CAST" =>
              /\ JustCheckStep(s, t, view, height).proposalAdds = s.proposalAdds
              /\ JustCheckStep(s, t, view, height).staged = Stage(s.staged, t, Tx[t].direction)
<1> DEFINE p == Tx[t].proposal
           c == CheckOk(s, t, view, height)
           next == JustCheckStep(s, t, view, height)
<1>0. /\ p \in Proposals /\ s.ok \in BOOLEAN /\ s.proposalAdds \in SUBSET Proposals
      /\ s.staged \in [Locks -> {None, "unused"} \cup Directions]
      /\ s = [ok |-> s.ok, proposalAdds |-> s.proposalAdds, staged |-> s.staged]
  BY TxFacts DEF CheckState
<1>a. c \in BOOLEAN
  BY TxFacts DEF CheckOk, CheckAndStageCast
<1>1. CASE Tx[t].mode = "PROPOSAL"
  <2>1. c = (Proposal[p].start > height /\ p \notin view.proposals \cup s.proposalAdds)
    BY <1>1 DEF CheckOk
  <2>2. next = [s EXCEPT !.ok = @ /\ Proposal[p].start > height
                                  /\ p \notin view.proposals \cup s.proposalAdds,
                         !.proposalAdds = @ \cup {p}]
    BY <1>1 DEF JustCheckStep
  <2> DEFINE ok == s.ok /\ Proposal[p].start > height
                       /\ p \notin view.proposals \cup s.proposalAdds
  <2>3. ok = (s.ok /\ c) /\ ok \in BOOLEAN
    BY <2>1
  <2> HIDE DEF ok
  <2>4. next = [s EXCEPT !.ok = ok, !.proposalAdds = @ \cup {p}]
    BY <2>2 DEF ok
  <2> HIDE DEF next, c, p
  <2>5. next = [ok |-> ok, proposalAdds |-> s.proposalAdds \cup {p}, staged |-> s.staged]
    BY <1>0, <2>4
  <2>6. next \in CheckState
    BY <1>0, <2>3, <2>5 DEF CheckState
  <2>7. next.ok = ok /\ next.proposalAdds = s.proposalAdds \cup {p} /\ next.staged = s.staged
    BY <2>5
  <2>8. next.ok <=> s.ok /\ c
    BY <2>3, <2>7
  <2> QED BY <1>1, <2>6, <2>7, <2>8 DEF next, c, p
<1>2. CASE Tx[t].mode = "LOCK"
  <2>1. c = (s.staged[t] = None) /\ t \in Locks
    BY <1>2, TxFacts DEF CheckOk
  <2> DEFINE ok == s.ok /\ s.staged[t] = None
             to == [s.staged EXCEPT ![t] = "unused"]
  <2>2. next = [s EXCEPT !.ok = ok, !.staged[t] = "unused"]
    BY <1>2 DEF JustCheckStep
  <2>3. ok = (s.ok /\ c) /\ ok \in BOOLEAN
    BY <2>1
  <2>4. to \in [Locks -> {None, "unused"} \cup Directions]
    BY <1>0, <2>1
  <2> HIDE DEF ok, next, c
  <2>5. next = [ok |-> ok, proposalAdds |-> s.proposalAdds, staged |-> to]
    BY <1>0, <2>2
  <2> HIDE DEF to
  <2>6. next \in CheckState
    BY <1>0, <2>3, <2>4, <2>5 DEF CheckState
  <2>7. next.ok = ok /\ next.proposalAdds = s.proposalAdds /\ next.staged = to
    BY <2>5
  <2>8. next.ok <=> s.ok /\ c
    BY <2>3, <2>7
  <2> QED BY <1>2, <2>6, <2>7, <2>8 DEF next, c, to
<1>3. CASE Tx[t].mode = "CAST"
  <2> DEFINE ok == s.ok /\ CheckAndStageCast(t, s.staged, view, height)
             to == Stage(s.staged, t, Tx[t].direction)
  <2>1. c = CheckAndStageCast(t, s.staged, view, height)
    BY <1>3 DEF CheckOk
  <2>2. next = [s EXCEPT !.ok = ok, !.staged = to]
    BY <1>3 DEF JustCheckStep
  <2>3. ok = (s.ok /\ c) /\ ok \in BOOLEAN
    BY <2>1
  <2>4. to \in [Locks -> {None, "unused"} \cup Directions]
    BY <1>0, <1>3, TxFacts DEF Stage
  <2> HIDE DEF ok, next, c, to
  <2>5. next = [ok |-> ok, proposalAdds |-> s.proposalAdds, staged |-> to]
    BY <1>0, <2>2
  <2>6. next \in CheckState
    BY <1>0, <2>3, <2>4, <2>5 DEF CheckState
  <2>7. next.ok = ok /\ next.proposalAdds = s.proposalAdds /\ next.staged = to
    BY <2>5
  <2>8. next.ok <=> s.ok /\ c
    BY <2>3, <2>7
  <2> QED BY <1>3, <2>6, <2>7, <2>8 DEF next, c, to
<1> QED BY <1>1, <1>2, <1>3, TxFacts

LEMMA CheckRun ==
  ASSUME NEW txs \in Seq(Txs), NEW i \in IndexType, NEW view, NEW height
  PROVE  \E run : IsCheckRun(run, txs, i, view, height)
<1> DEFINE N == Len(txs)
           base == [ok |-> TRUE, proposalAdds |-> {}, staged |-> i.locks]
           F == [n \in 1..N |-> [s \in CheckState |-> JustCheckStep(s, txs[n], view, height)]]
<1>1. N \in Nat /\ DOMAIN txs = 1..N /\ \A n \in 1..N : txs[n] \in Txs
  BY LenProperties
<1>2. base \in CheckState
  BY DEF CheckState, IndexType
<1>3. ASSUME NEW n \in 1..N, NEW s \in CheckState
      PROVE  F[n][s] = JustCheckStep(s, txs[n], view, height) /\ F[n][s] \in CheckState
  BY <1>1, CheckStep
<1> DEFINE G(it) == it = [T \in SUBSET (1..N) |->
                           IF T = {} THEN base ELSE JustCheckStep(it[T \ {Max(T)}], txs[Max(T)], view, height)]
           fold == CHOOSE it : G(it)
<1>4. JustCheck(txs, i, view, height) = fold[1..N].ok
  BY <1>1 DEF JustCheck, FoldLeft, MapThenFoldSet
<1> HIDE DEF F
<1>b. Closed(F, N, CheckState)
  BY <1>3 DEF Closed
<1>5. PICK it : IsFold(it, F, N, CheckState, base)
  <2> HIDE DEF base, N
  <2> QED BY <1>1, <1>2, <1>b, FoldExists
<1>6. G(it)
  <2>1. ASSUME NEW T \in SUBSET (1..N), T # {}
        PROVE  it[T] = JustCheckStep(it[T \ {Max(T)}], txs[Max(T)], view, height)
    <3>1. Max(T) \in 1..N
      BY <1>1, <2>1, MaxUpTo
    <3>2. T \ {Max(T)} \in SUBSET (1..N)
      OBVIOUS
    <3>3. it[T \ {Max(T)}] \in CheckState /\ it[T] = F[Max(T)][it[T \ {Max(T)}]]
      BY <1>5, <2>1, <3>2 DEF IsFold
    <3> HIDE DEF N
    <3> QED BY <1>3, <3>1, <3>3
  <2>2. it[{}] = base
    BY <1>5 DEF IsFold
  <2>3. it = [T \in SUBSET (1..N) |-> it[T]]
    BY <1>5 DEF IsFold
  <2> HIDE DEF N, base
  <2> QED BY <2>1, <2>2, <2>3
<1>7. G(fold)
  <2> HIDE DEF G
  <2> QED BY <1>6
<1> HIDE DEF fold
<1>8. fold[{}] = base
  BY <1>7
<1>9. \A n \in 1..N : fold[1..n] = JustCheckStep(fold[1..(n - 1)], txs[n], view, height)
  <2> SUFFICES ASSUME NEW n \in 1..N
               PROVE  fold[1..n] = JustCheckStep(fold[1..(n - 1)], txs[n], view, height)
    OBVIOUS
  <2>1. /\ 1..n \in SUBSET (1..N) /\ 1..n # {}
        /\ Max(1..n) = n /\ (1..n) \ {Max(1..n)} = 1..(n - 1)
    BY <1>1, FirstOnes
  <2>2. \A T \in SUBSET (1..N) :
          T # {} => fold[T] = JustCheckStep(fold[T \ {Max(T)}], txs[Max(T)], view, height)
    BY <1>7
  <2> HIDE DEF N
  <2>3. fold[1..n] = JustCheckStep(fold[(1..n) \ {Max(1..n)}], txs[Max(1..n)], view, height)
    BY <2>1, <2>2
  <2> QED BY <2>1, <2>3
<1>10. PICK run : IsRun(run, F, N, CheckState, base) /\ run[N] = fold[1..N]
  <2> HIDE DEF base, N, G
  <2>1. \A n \in 1..N : fold[1..(n - 1)] \in CheckState => fold[1..n] = F[n][fold[1..(n - 1)]]
    BY <1>3, <1>9
  <2> QED BY <1>1, <1>2, <1>8, <1>b, <2>1, RunOf
<1>11. \A n \in 1..N : run[n] = JustCheckStep(run[n - 1], txs[n], view, height)
  <2>1. \A n \in 1..N : n - 1 \in 0..N
    BY <1>1
  <2> HIDE DEF N, base
  <2> QED BY <1>3, <1>10, <2>1 DEF IsRun
<1> QED BY <1>4, <1>10, <1>11 DEF IsCheckRun, IsRun

\* A block taken back, the last transaction first.
LEMMA Backwards ==
  ASSUME NEW txs \in Seq(Txs)
  PROVE  /\ Len(txs) \in Nat /\ DOMAIN Reverse(txs) = 1..Len(txs)
         /\ \A n \in 1..Len(txs) :
              Reverse(txs)[n] = txs[Len(txs) - n + 1] /\ txs[Len(txs) - n + 1] \in Txs
<1>1. Len(txs) \in Nat /\ \A n \in 1..Len(txs) : txs[n] \in Txs
  BY LenProperties
<1>2. \A n \in 1..Len(txs) : Len(txs) - n + 1 \in 1..Len(txs)
  BY <1>1
<1>3. Reverse(txs) = [n \in 1..Len(txs) |-> txs[(Len(txs) - n) + 1]]
  BY DEF Reverse
<1> QED BY <1>1, <1>2, <1>3

Rolled == [index : IndexType, view : ViewType]

UndoOne(t, s, refreshed) ==
  [index |-> UndoInIndex(t, s.index),
   view |-> Forget(t, s.view, UndoInIndex(t, s.index), refreshed)]

IsUndoRun(run, block, i, view, refreshed) ==
  LET txs == block.txs
  IN  /\ run \in [0..Len(txs) -> Rolled]
      /\ run[0] = [index |-> i, view |-> view]
      /\ \A n \in 1..Len(txs) : run[n] = UndoOne(txs[Len(txs) - n + 1], run[n - 1], refreshed)
      /\ run[Len(txs)] = UndoBlock(block, i, view, refreshed)

LEMMA UndoRun ==
  ASSUME NEW block, block.txs \in Seq(Txs), NEW i \in IndexType, NEW view \in ViewType,
         NEW refreshed
  PROVE  \E run : IsUndoRun(run, block, i, view, refreshed)
<1> DEFINE N == Len(block.txs)
           base == [index |-> i, view |-> view]
           F == [n \in 1..N |-> [s \in Rolled |-> UndoOne(Reverse(block.txs)[n], s, refreshed)]]
<1>1. /\ N \in Nat /\ DOMAIN Reverse(block.txs) = 1..N
      /\ \A n \in 1..N : Reverse(block.txs)[n] = block.txs[N - n + 1] /\ block.txs[N - n + 1] \in Txs
  BY Backwards
<1>2. base \in Rolled
  BY DEF Rolled
<1>3. ASSUME NEW n \in 1..N, NEW s \in Rolled
      PROVE  F[n][s] = UndoOne(Reverse(block.txs)[n], s, refreshed) /\ F[n][s] \in Rolled
  <2>1. Reverse(block.txs)[n] \in Txs
    BY <1>1
  <2>2. s.index \in IndexType /\ s.view \in ViewType
    BY DEF Rolled
  <2>3. /\ UndoInIndex(Reverse(block.txs)[n], s.index) \in IndexType
        /\ Forget(Reverse(block.txs)[n], s.view, UndoInIndex(Reverse(block.txs)[n], s.index), refreshed)
             \in ViewType
    BY <2>1, <2>2, StepTypes, MemoryTypes
  <2>4. UndoOne(Reverse(block.txs)[n], s, refreshed) \in Rolled
    BY <2>3 DEF UndoOne, Rolled
  <2> QED BY <2>4
<1> DEFINE G(it) == it = [T \in SUBSET (1..N) |->
                           IF T = {} THEN base ELSE UndoOne(Reverse(block.txs)[Max(T)], it[T \ {Max(T)}], refreshed)]
           fold == CHOOSE it : G(it)
<1>4. UndoBlock(block, i, view, refreshed) = fold[1..N]
  BY <1>1 DEF UndoBlock, FoldLeft, MapThenFoldSet, UndoOne
<1> HIDE DEF F
<1>b. Closed(F, N, Rolled)
  BY <1>3 DEF Closed
<1>5. PICK it : IsFold(it, F, N, Rolled, base)
  <2> HIDE DEF base, N
  <2> QED BY <1>1, <1>2, <1>b, FoldExists
<1>6. G(it)
  <2>1. ASSUME NEW T \in SUBSET (1..N), T # {}
        PROVE  it[T] = UndoOne(Reverse(block.txs)[Max(T)], it[T \ {Max(T)}], refreshed)
    <3>1. Max(T) \in 1..N
      BY <1>1, <2>1, MaxUpTo
    <3>2. T \ {Max(T)} \in SUBSET (1..N)
      OBVIOUS
    <3>3. it[T \ {Max(T)}] \in Rolled /\ it[T] = F[Max(T)][it[T \ {Max(T)}]]
      BY <1>5, <2>1, <3>2 DEF IsFold
    <3> HIDE DEF N
    <3> QED BY <1>3, <3>1, <3>3
  <2>2. it[{}] = base
    BY <1>5 DEF IsFold
  <2>3. it = [T \in SUBSET (1..N) |-> it[T]]
    BY <1>5 DEF IsFold
  <2> HIDE DEF N, base
  <2> QED BY <2>1, <2>2, <2>3
<1>7. G(fold)
  <2> HIDE DEF G
  <2> QED BY <1>6
<1> HIDE DEF fold
<1>8. fold[{}] = base
  BY <1>7
<1>9. \A n \in 1..N : fold[1..n] = UndoOne(Reverse(block.txs)[n], fold[1..(n - 1)], refreshed)
  <2> SUFFICES ASSUME NEW n \in 1..N
               PROVE  fold[1..n] = UndoOne(Reverse(block.txs)[n], fold[1..(n - 1)], refreshed)
    OBVIOUS
  <2>1. /\ 1..n \in SUBSET (1..N) /\ 1..n # {}
        /\ Max(1..n) = n /\ (1..n) \ {Max(1..n)} = 1..(n - 1)
    BY <1>1, FirstOnes
  <2>2. \A T \in SUBSET (1..N) :
          T # {} => fold[T] = UndoOne(Reverse(block.txs)[Max(T)], fold[T \ {Max(T)}], refreshed)
    BY <1>7
  <2> HIDE DEF N
  <2>3. fold[1..n] = UndoOne(Reverse(block.txs)[Max(1..n)], fold[(1..n) \ {Max(1..n)}], refreshed)
    BY <2>1, <2>2
  <2> QED BY <2>1, <2>3
<1>10. PICK run : IsRun(run, F, N, Rolled, base) /\ run[N] = fold[1..N]
  <2> HIDE DEF base, N, G
  <2>1. \A n \in 1..N : fold[1..(n - 1)] \in Rolled => fold[1..n] = F[n][fold[1..(n - 1)]]
    BY <1>3, <1>9
  <2> QED BY <1>1, <1>2, <1>8, <1>b, <2>1, RunOf
<1>11. \A n \in 1..N : run[n] = UndoOne(Reverse(block.txs)[n], run[n - 1], refreshed)
  <2>1. \A n \in 1..N : n - 1 \in 0..N
    BY <1>1
  <2> HIDE DEF N, base
  <2> QED BY <1>3, <1>10, <2>1 DEF IsRun
<1>12. \A n \in 1..N : run[n] = UndoOne(block.txs[N - n + 1], run[n - 1], refreshed)
  BY <1>1, <1>11
<1> QED BY <1>4, <1>10, <1>12 DEF IsUndoRun, IsRun

-----------------------------------------------------------------------------
(* A block connected.                                                      *)
LEMMA OkRun ==
  ASSUME NEW txs \in Seq(Txs), NEW i, NEW view, NEW height, NEW refreshed, NEW run,
         IsProcessRun(run, txs, i, view, height, refreshed),
         ProcessBlock(txs, i, view, height, refreshed).ok
  PROVE  \A n \in 1..Len(txs) :
           /\ run[n - 1].ok /\ CanApply(txs[n], run[n - 1].index, run[n - 1].view, height)
           /\ run[n].index = ApplyToIndex(txs[n], run[n - 1].index)
           /\ run[n].view = Remember(txs[n], run[n - 1].view, run[n].index, refreshed)
<1> DEFINE N == Len(txs)
           Pass(n) == run[n - 1].ok /\ CanApply(txs[n], run[n - 1].index, run[n - 1].view, height)
<1>0. N \in Nat
  BY LenProperties
<1>1. ASSUME NEW n \in 1..N
      PROVE  /\ run[n - 1] \in ProcessState /\ run[n - 1].ok \in BOOLEAN
             /\ ~ Pass(n) => ~ run[n].ok
             /\ Pass(n) => /\ run[n].index = ApplyToIndex(txs[n], run[n - 1].index)
                           /\ run[n].view = Remember(txs[n], run[n - 1].view, run[n].index, refreshed)
  <2>1. n - 1 \in 0..N
    BY <1>0
  <2>2. run[n - 1] \in ProcessState /\ run[n] = ProcessOne(txs[n], run[n - 1], height, refreshed)
    BY <2>1 DEF IsProcessRun
  <2>3. /\ run[n - 1].ok \in BOOLEAN
        /\ [run[n - 1] EXCEPT !.ok = FALSE].ok = FALSE
    BY <2>2 DEF ProcessState
  <2> QED BY <2>2, <2>3 DEF ProcessOne
<1>2. ASSUME NEW k \in 1..N, ~ Pass(k)
      PROVE  FALSE
  <2> DEFINE good == {n \in 0..N : ~ run[n].ok}
  <2>1. k \in good
    BY <1>1, <1>2
  <2>2. ASSUME NEW n \in k..(N - 1), n \in good
        PROVE  n + 1 \in good
    <3>1. n + 1 \in 1..N /\ n + 1 \in 0..N /\ (n + 1) - 1 = n
      BY <1>0
    <3>2. ~ run[n].ok
      BY <2>2
    <3>3. ~ Pass(n + 1)
      BY <3>1, <3>2
    <3> HIDE DEF Pass
    <3>4. ~ run[n + 1].ok
      BY <1>1, <3>1, <3>3
    <3> QED BY <3>1, <3>4
  <2> HIDE DEF good
  <2>3. k \in Nat /\ N \in k..N
    BY <1>0
  <2>4. N \in good
    BY <1>0, <2>1, <2>2, <2>3, Climb
  <2>5. run[N].ok
    BY DEF IsProcessRun
  <2> QED BY <2>4, <2>5 DEF good
<1> QED BY <1>1, <1>2

Upto(M, txs, n) == M \cup {txs[m] : m \in 1..n}

LEMMA UptoFacts ==
  ASSUME NEW M \in SUBSET Txs, NEW txs \in Seq(Txs), IsInjective(txs), ToSet(txs) \cap M = {}
  PROVE  /\ Len(txs) \in Nat /\ DOMAIN txs = 1..Len(txs)
         /\ Upto(M, txs, 0) = M /\ Upto(M, txs, Len(txs)) = M \cup ToSet(txs)
         /\ \A n \in 0..Len(txs) : Upto(M, txs, n) \in SUBSET Txs
         /\ \A n \in 1..Len(txs) :
              /\ txs[n] \in Txs \ Upto(M, txs, n - 1)
              /\ Upto(M, txs, n) = Upto(M, txs, n - 1) \cup {txs[n]}
<1>1. Len(txs) \in Nat /\ DOMAIN txs = 1..Len(txs) /\ \A n \in 1..Len(txs) : txs[n] \in Txs
  BY LenProperties
<1>2. ToSet(txs) = {txs[m] : m \in 1..Len(txs)}
  BY <1>1 DEF ToSet
<1>3. Upto(M, txs, 0) = M /\ Upto(M, txs, Len(txs)) = M \cup ToSet(txs)
  BY <1>2 DEF Upto
<1>4. \A n \in 0..Len(txs) : Upto(M, txs, n) \in SUBSET Txs
  <2>1. \A n \in 0..Len(txs) : \A m \in 1..n : m \in 1..Len(txs)
    BY <1>1
  <2> QED BY <1>1, <2>1 DEF Upto
<1>5. ASSUME NEW n \in 1..Len(txs)
      PROVE  /\ txs[n] \in Txs \ Upto(M, txs, n - 1)
             /\ Upto(M, txs, n) = Upto(M, txs, n - 1) \cup {txs[n]}
  <2>1. \A m \in 1..(n - 1) : m \in 1..Len(txs) /\ m # n
    BY <1>1
  <2>2. 1..n = (1..(n - 1)) \cup {n}
    BY <1>1
  <2>3. \A m \in 1..(n - 1) : txs[m] # txs[n]
    BY <1>1, <2>1 DEF IsInjective
  <2>4. txs[n] \notin M
    BY <1>2
  <2> QED BY <1>1, <2>2, <2>3, <2>4 DEF Upto
<1> QED BY <1>1, <1>3, <1>4, <1>5

\* With memory as the index has it, a block that is accepted moves both on.
LEMMA TruthRun ==
  ASSUME NEW M \in SUBSET Txs, Legal(M), NEW txs \in Seq(Txs), IsInjective(txs),
         ToSet(txs) \cap M = {}, NEW height \in Nat,
         ProcessBlock(txs, IndexFrom(M), IndexView(IndexFrom(M)), height, {}).ok
  PROVE  LET L == M \cup ToSet(txs)
             processed == ProcessBlock(txs, IndexFrom(M), IndexView(IndexFrom(M)), height, {})
         IN  /\ L \in SUBSET Txs /\ Legal(L)
             /\ processed.index = IndexFrom(L) /\ processed.view = IndexView(IndexFrom(L))
             /\ \A t \in ToSet(txs) : InTime(t, height) /\ \A u \in M : ~ Needs(u, t)
             /\ \A a, b \in DOMAIN txs : a < b => ~ Needs(txs[a], txs[b])
<1> DEFINE N == Len(txs)
           i == IndexFrom(M)
           U(n) == Upto(M, txs, n)
<1>1. i \in IndexType /\ IndexView(i) \in ViewType
  BY IndexParts
<1>2. PICK run : IsProcessRun(run, txs, i, IndexView(i), height, {})
  BY <1>1, ProcessRun
<1>3. /\ N \in Nat /\ DOMAIN txs = 1..N /\ U(0) = M /\ U(N) = M \cup ToSet(txs)
      /\ \A n \in 0..N : U(n) \in SUBSET Txs
      /\ \A n \in 1..N : txs[n] \in Txs \ U(n - 1) /\ U(n) = U(n - 1) \cup {txs[n]}
  BY UptoFacts
<1> DEFINE Right(n) == /\ Legal(U(n)) /\ run[n].index = IndexFrom(U(n))
                       /\ run[n].view = IndexView(IndexFrom(U(n)))
           good == {n \in 0..N : Right(n)}
<1>4. 0 \in good
  <2>1. run[0].index = i /\ run[0].view = IndexView(i)
    BY <1>2 DEF IsProcessRun
  <2> QED BY <1>3, <2>1
<1>5. ASSUME NEW n \in 1..N, Right(n - 1)
      PROVE  /\ Right(n) /\ InTime(txs[n], height)
             /\ \A u \in U(n - 1) : ~ Needs(u, txs[n])
  <2> DEFINE t == txs[n]
             K == U(n - 1)
  <2>1. n - 1 \in 0..N
    BY <1>3
  <2>2. K \in SUBSET Txs /\ t \in Txs \ K /\ U(n) = K \cup {t}
    BY <1>3, <2>1
  <2>3. /\ CanApply(t, run[n - 1].index, run[n - 1].view, height)
        /\ run[n].index = ApplyToIndex(t, run[n - 1].index)
        /\ run[n].view = Remember(t, run[n - 1].view, run[n].index, {})
    BY <1>2, OkRun
  <2>4. /\ Legal(K) /\ run[n - 1].index = IndexFrom(K) /\ run[n - 1].view = IndexView(IndexFrom(K))
    BY <1>5
  <2> HIDE DEF t, K
  <2>5. Legal(K \cup {t}) /\ InTime(t, height) /\ \A u \in K : ~ Needs(u, t)
    BY <2>2, <2>3, <2>4, NextLegal
  <2>6. /\ ApplyToIndex(t, IndexFrom(K)) = IndexFrom(K \cup {t})
        /\ ApplyToMemory(t, IndexView(IndexFrom(K))) = IndexView(IndexFrom(K \cup {t}))
    BY <2>2, <2>4, <2>5, ApplyIs
  <2>a. IndexFrom(K) \in IndexType /\ IndexView(IndexFrom(K)) \in ViewType
    BY <2>2, <2>4, IndexParts
  <2>b. run[n].view = ApplyToMemory(t, IndexView(IndexFrom(K)))
    BY <2>2, <2>3, <2>4, <2>a, MemoryTypes
  <2> HIDE DEF U
  <2>7. Right(n)
    BY <2>2, <2>3, <2>4, <2>5, <2>6, <2>b
  <2> QED BY <2>5, <2>7 DEF t, K
<1>6. \A n \in 0..N : Right(n)
  <2>1. ASSUME NEW n \in 0..(N - 1), n \in good
        PROVE  n + 1 \in good
    <3>1. n + 1 \in 1..N /\ n + 1 \in 0..N /\ (n + 1) - 1 = n
      BY <1>3
    <3>2. Right(n)
      BY <2>1
    <3> HIDE DEF Right
    <3> QED BY <1>5, <3>1, <3>2
  <2> HIDE DEF good
  <2>2. \A n \in 0..N : n \in good
    BY <1>3, <1>4, <2>1, Climb
  <2> QED BY <2>2 DEF good
<1>7. ASSUME NEW n \in 1..N
      PROVE  InTime(txs[n], height) /\ \A u \in U(n - 1) : ~ Needs(u, txs[n])
  <2>1. n - 1 \in 0..N
    BY <1>3
  <2> HIDE DEF Right, U
  <2> QED BY <1>5, <1>6, <2>1
<1>8. ASSUME NEW n \in 1..N
      PROVE  /\ InTime(txs[n], height) /\ \A u \in M : ~ Needs(u, txs[n])
             /\ \A a \in 1..N : a < n => ~ Needs(txs[a], txs[n])
  <2>1. M \subseteq U(n - 1) /\ \A a \in 1..N : a < n => txs[a] \in U(n - 1)
    <3>1. \A a \in 1..N : a < n => a \in 1..(n - 1)
      BY <1>3
    <3> QED BY <3>1 DEF Upto
  <2> HIDE DEF U
  <2> QED BY <1>7, <2>1
<1>9. \A t \in ToSet(txs) : InTime(t, height) /\ \A u \in M : ~ Needs(u, t)
  BY <1>3, <1>8 DEF ToSet
<1>10. \A a, b \in DOMAIN txs : a < b => ~ Needs(txs[a], txs[b])
  BY <1>3, <1>8
<1>11. N \in 0..N /\ U(N) \in SUBSET Txs /\ run[N] = ProcessBlock(txs, i, IndexView(i), height, {})
  BY <1>2, <1>3 DEF IsProcessRun
<1>12. /\ U(N) \in SUBSET Txs /\ Legal(U(N)) /\ run[N].index = IndexFrom(U(N))
       /\ run[N].view = IndexView(IndexFrom(U(N)))
  BY <1>6, <1>11
<1>13. U(N) = M \cup ToSet(txs)
  BY <1>3
<1> HIDE DEF U
<1> QED BY <1>9, <1>10, <1>11, <1>12, <1>13

\* What the index becomes does not depend on memory, if the block is accepted.
LEMMA SameIndexRun ==
  ASSUME NEW txs \in Seq(Txs), NEW i \in IndexType, NEW v \in ViewType, NEW w \in ViewType,
         NEW height \in Nat, NEW refreshed, NEW others,
         ProcessBlock(txs, i, v, height, refreshed).ok,
         ProcessBlock(txs, i, w, height, others).ok
  PROVE  ProcessBlock(txs, i, v, height, refreshed).index =
           ProcessBlock(txs, i, w, height, others).index
<1> DEFINE N == Len(txs)
<1>0. N \in Nat
  BY LenProperties
<1>1. PICK r : IsProcessRun(r, txs, i, v, height, refreshed)
  BY ProcessRun
<1>2. PICK q : IsProcessRun(q, txs, i, w, height, others)
  BY ProcessRun
<1> DEFINE good == {n \in 0..N : r[n].index = q[n].index}
<1>3. 0 \in good
  BY <1>0, <1>1, <1>2 DEF IsProcessRun
<1>4. ASSUME NEW n \in 0..(N - 1), n \in good
      PROVE  n + 1 \in good
  <2>1. n + 1 \in 1..N /\ n + 1 \in 0..N /\ (n + 1) - 1 = n
    BY <1>0
  <2>2. r[n].index = q[n].index
    BY <1>4
  <2>3. r[n + 1].index = ApplyToIndex(txs[n + 1], r[n].index)
    BY <1>1, <2>1, OkRun
  <2>4. q[n + 1].index = ApplyToIndex(txs[n + 1], q[n].index)
    BY <1>2, <2>1, OkRun
  <2> QED BY <2>1, <2>2, <2>3, <2>4
<1>5. \A n \in 0..N : n \in good
  <2> HIDE DEF good
  <2> QED BY <1>0, <1>3, <1>4, Climb
<1>6. r[N].index = q[N].index
  BY <1>0, <1>5
<1> QED BY <1>1, <1>2, <1>6 DEF IsProcessRun

\* Memory whose proposals are those of the index keeps them.
LEMMA ReloadRun ==
  ASSUME NEW txs \in Seq(Txs), NEW i \in IndexType, NEW v \in ViewType, NEW height \in Nat,
         NEW refreshed, ProcessBlock(txs, i, v, height, refreshed).ok
  PROVE  /\ ProcessBlock(txs, i, v, height, refreshed).view \in ViewType
         /\ v.proposals = i.proposals /\ Clean(v) =>
              /\ ProcessBlock(txs, i, v, height, refreshed).view.proposals =
                   ProcessBlock(txs, i, v, height, refreshed).index.proposals
              /\ Clean(ProcessBlock(txs, i, v, height, refreshed).view)
<1> DEFINE N == Len(txs)
<1>0. N \in Nat /\ \A n \in 1..N : txs[n] \in Txs
  BY LenProperties
<1>1. PICK r : IsProcessRun(r, txs, i, v, height, refreshed)
  BY ProcessRun
<1> DEFINE good == {n \in 0..N : r[n].view.proposals = r[n].index.proposals /\ Clean(r[n].view)}
<1>2. \A n \in 0..N : r[n].index \in IndexType /\ r[n].view \in ViewType
  BY <1>1 DEF IsProcessRun, ProcessState
<1>3. v.proposals = i.proposals /\ Clean(v) => 0 \in good
  BY <1>0, <1>1 DEF IsProcessRun
<1>4. ASSUME NEW n \in 0..(N - 1), n \in good
      PROVE  n + 1 \in good
  <2>1. n + 1 \in 1..N /\ n + 1 \in 0..N /\ n \in 0..N /\ (n + 1) - 1 = n
    BY <1>0
  <2>2. r[n].view.proposals = r[n].index.proposals /\ Clean(r[n].view)
    BY <1>4
  <2>3. /\ r[n + 1].index = ApplyToIndex(txs[n + 1], r[n].index)
        /\ r[n + 1].view = Remember(txs[n + 1], r[n].view, r[n + 1].index, refreshed)
    BY <1>1, <2>1, OkRun
  <2>4. txs[n + 1] \in Txs
    BY <1>0, <2>1
  <2>5. r[n + 1].view.proposals = r[n + 1].index.proposals /\ Clean(r[n + 1].view)
    BY <1>2, <2>1, <2>2, <2>3, <2>4, MemoryTypes
  <2> QED BY <2>1, <2>5
<1>5. 0 \in good => \A n \in 0..N : n \in good
  <2> HIDE DEF good
  <2> QED BY <1>0, <1>4, Climb
<1>6. N \in 0..N /\ r[N] = ProcessBlock(txs, i, v, height, refreshed)
  BY <1>0, <1>1 DEF IsProcessRun
<1> QED BY <1>2, <1>3, <1>5, <1>6

\* And memory is well formed whether or not the block is accepted.
LEMMA ViewRun ==
  ASSUME NEW txs \in Seq(Txs), NEW i \in IndexType, NEW v \in ViewType, NEW height \in Nat,
         NEW refreshed
  PROVE  ProcessBlock(txs, i, v, height, refreshed).view \in ViewType
<1>0. Len(txs) \in 0..Len(txs)
  BY LenProperties
<1>1. PICK r : IsProcessRun(r, txs, i, v, height, refreshed)
  BY ProcessRun
<1> QED BY <1>0, <1>1 DEF IsProcessRun, ProcessState

-----------------------------------------------------------------------------
(* A block taken back.                                                     *)
\* What the block's transactions need was there before them, so they can go.
LEMMA TruthUndo ==
  ASSUME NEW M \in SUBSET Txs, NEW block, block.txs \in Seq(Txs), IsInjective(block.txs),
         ToSet(block.txs) \cap M = {}, Legal(M \cup ToSet(block.txs)),
         \A t \in ToSet(block.txs), u \in M : ~ Needs(u, t),
         \A a, b \in DOMAIN block.txs : a < b => ~ Needs(block.txs[a], block.txs[b]),
         NEW v \in ViewType, NEW refreshed
  PROVE  LET i == IndexFrom(M \cup ToSet(block.txs))
         IN  /\ Legal(M)
             /\ UndoBlock(block, i, v, refreshed).index = IndexFrom(M)
             /\ v = IndexView(i) /\ refreshed = {} =>
                  UndoBlock(block, i, v, refreshed).view = IndexView(IndexFrom(M))
<1> DEFINE txs == block.txs
           N == Len(txs)
           U(n) == Upto(M, txs, n)
           L == M \cup ToSet(txs)
<1>1. /\ N \in Nat /\ DOMAIN txs = 1..N /\ U(0) = M /\ U(N) = L
      /\ \A n \in 0..N : U(n) \in SUBSET Txs
      /\ \A n \in 1..N : txs[n] \in Txs \ U(n - 1) /\ U(n) = U(n - 1) \cup {txs[n]}
  BY UptoFacts
<1>2. L \in SUBSET Txs
  <2>1. N \in 0..N
    BY <1>1
  <2> QED BY <1>1, <2>1
<1>3. IndexFrom(L) \in IndexType /\ IndexView(IndexFrom(L)) \in ViewType
  BY <1>2, IndexParts
<1>4. PICK r : IsUndoRun(r, block, IndexFrom(L), v, refreshed)
  BY <1>3, UndoRun
<1> DEFINE exact == v = IndexView(IndexFrom(L)) /\ refreshed = {}
<1>5. \A n \in 0..N : r[n] \in Rolled /\ r[n].index \in IndexType /\ r[n].view \in ViewType
  BY <1>4 DEF IsUndoRun, Rolled
<1>6. /\ r[0].index = IndexFrom(L) /\ r[0].view = v
      /\ \A n \in 1..N : r[n] = UndoOne(txs[N - n + 1], r[n - 1], refreshed)
      /\ r[N] = UndoBlock(block, IndexFrom(L), v, refreshed)
  BY <1>4 DEF IsUndoRun
<1>7. \A n \in 1..N : \A u \in U(n - 1) : ~ Needs(u, txs[n])
  <2> SUFFICES ASSUME NEW n \in 1..N, NEW u \in U(n - 1) PROVE ~ Needs(u, txs[n])
    OBVIOUS
  <2>1. CASE u \in M
    <3>1. txs[n] \in ToSet(txs)
      BY <1>1 DEF ToSet
    <3> QED BY <2>1, <3>1
  <2>2. CASE u \notin M
    <3>1. PICK m \in 1..(n - 1) : u = txs[m]
      BY <2>2 DEF Upto
    <3>2. m \in DOMAIN txs /\ n \in DOMAIN txs /\ m < n
      BY <1>1
    <3> QED BY <3>1, <3>2
  <2> QED BY <2>1, <2>2
<1> DEFINE Right(n) == /\ Legal(U(N - n)) /\ r[n].index = IndexFrom(U(N - n))
                       /\ exact => r[n].view = IndexView(IndexFrom(U(N - n)))
           good == {n \in 0..N : Right(n)}
<1>8. 0 \in good
  <2>1. N - 0 = N /\ 0 \in 0..N
    BY <1>1
  <2> HIDE DEF U, N, L
  <2>2. U(N - 0) = L
    BY <1>1, <2>1
  <2>3. Legal(L)
    BY DEF L
  <2> QED BY <1>6, <2>1, <2>2, <2>3
<1>9. ASSUME NEW n \in 0..(N - 1), n \in good
      PROVE  n + 1 \in good
  <2> DEFINE k == N - n
             K == U(k - 1)
             t == txs[k]
  <2>1. /\ k \in 1..N /\ k - 1 \in 0..N /\ n + 1 \in 1..N /\ n + 1 \in 0..N /\ n \in 0..N
        /\ N - (n + 1) + 1 = k /\ (n + 1) - 1 = n /\ N - (n + 1) = k - 1
    BY <1>1
  <2>2. Right(n)
    BY <1>9
  <2> HIDE DEF U, k, N
  <2>3. /\ Legal(U(k)) /\ r[n].index = IndexFrom(U(k))
        /\ exact => r[n].view = IndexView(IndexFrom(U(k)))
    BY <2>2 DEF k
  <2>4. K \in SUBSET Txs /\ t \in Txs \ K /\ U(k) = K \cup {t}
    BY <1>1, <2>1
  <2>5. \A u \in K : ~ Needs(u, t)
    BY <1>7, <2>1
  <2>6. /\ r[n + 1].index = UndoInIndex(t, r[n].index)
        /\ r[n + 1].view = Forget(t, r[n].view, UndoInIndex(t, r[n].index), refreshed)
    <3>1. r[n + 1] = UndoOne(t, r[n], refreshed)
      BY <1>6, <2>1
    <3> HIDE DEF t
    <3> QED BY <3>1 DEF UndoOne
  <2>a. r[n].index \in IndexType /\ r[n].view \in ViewType
    BY <1>5, <2>1
  <2> HIDE DEF K, t
  <2>b. exact => r[n + 1].view = UndoInMemory(t, r[n].view)
    BY <2>4, <2>6, <2>a, MemoryTypes
  <2>7. Legal(K)
    BY <2>3, <2>4, <2>5, LegalLess
  <2>8. /\ UndoInIndex(t, IndexFrom(U(k))) = IndexFrom(K)
        /\ UndoInMemory(t, IndexView(IndexFrom(U(k)))) = IndexView(IndexFrom(K))
    BY <2>3, <2>4, <2>7, ApplyIs
  <2>9. U(N - (n + 1)) = K
    BY <2>1 DEF K
  <2>10. Right(n + 1)
    BY <2>3, <2>6, <2>7, <2>8, <2>9, <2>b
  <2> HIDE DEF Right
  <2> QED BY <2>1, <2>10
<1>10. Right(N)
  <2>1. N \in Nat /\ N \in 0..N
    BY <1>1
  <2> HIDE DEF good, N
  <2>2. N \in good
    BY <1>8, <1>9, <2>1, Climb
  <2> QED BY <2>2 DEF good
<1>11. U(N - N) = M
  <2>1. N - N = 0
    BY <1>1
  <2> HIDE DEF U
  <2> QED BY <1>1, <2>1
<1> HIDE DEF U
<1> QED BY <1>6, <1>10, <1>11

LEMMA UndoTypes ==
  ASSUME NEW block, block.txs \in Seq(Txs), NEW i \in IndexType, NEW v \in ViewType, NEW refreshed
  PROVE  LET undone == UndoBlock(block, i, v, refreshed)
         IN  /\ undone \in Rolled /\ undone.index \in IndexType /\ undone.view \in ViewType
             /\ v.proposals = i.proposals /\ Clean(v) =>
                  undone.view.proposals = undone.index.proposals /\ Clean(undone.view)
<1> DEFINE txs == block.txs
           N == Len(txs)
<1>1. N \in Nat /\ \A n \in 1..N : txs[N - n + 1] \in Txs
  BY Backwards
<1>2. PICK r : IsUndoRun(r, block, i, v, refreshed)
  BY UndoRun
<1>3. \A n \in 0..N : r[n] \in Rolled /\ r[n].index \in IndexType /\ r[n].view \in ViewType
  BY <1>2 DEF IsUndoRun, Rolled
<1>4. /\ r[0].index = i /\ r[0].view = v
      /\ \A n \in 1..N : r[n] = UndoOne(txs[N - n + 1], r[n - 1], refreshed)
      /\ r[N] = UndoBlock(block, i, v, refreshed)
  BY <1>2 DEF IsUndoRun
<1> DEFINE good == {n \in 0..N : r[n].view.proposals = r[n].index.proposals /\ Clean(r[n].view)}
<1>5. v.proposals = i.proposals /\ Clean(v) => 0 \in good
  BY <1>1, <1>4
<1>6. ASSUME NEW n \in 0..(N - 1), n \in good
      PROVE  n + 1 \in good
  <2>1. n + 1 \in 1..N /\ n + 1 \in 0..N /\ n \in 0..N /\ (n + 1) - 1 = n
    BY <1>1
  <2>2. r[n].view.proposals = r[n].index.proposals /\ Clean(r[n].view)
    BY <1>6
  <2> DEFINE t == txs[N - (n + 1) + 1]
  <2>3. /\ r[n + 1].index = UndoInIndex(t, r[n].index)
        /\ r[n + 1].view = Forget(t, r[n].view, UndoInIndex(t, r[n].index), refreshed)
    <3>1. r[n + 1] = UndoOne(t, r[n], refreshed)
      BY <1>4, <2>1
    <3> HIDE DEF t
    <3> QED BY <3>1 DEF UndoOne
  <2>4. t \in Txs /\ r[n].index \in IndexType /\ r[n].view \in ViewType
    BY <1>1, <1>3, <2>1
  <2> HIDE DEF t
  <2>5. r[n + 1].view.proposals = r[n + 1].index.proposals /\ Clean(r[n + 1].view)
    BY <2>2, <2>3, <2>4, MemoryTypes
  <2> QED BY <2>1, <2>5
<1>7. 0 \in good => \A n \in 0..N : n \in good
  <2> HIDE DEF good, N
  <2> QED BY <1>1, <1>6, Climb
<1>8. N \in 0..N
  BY <1>1
<1> QED BY <1>3, <1>4, <1>5, <1>7, <1>8

\* verifychain takes the last blocks back, and leaves memory well formed.
Undone(depth, refreshed) ==
  LET Back(s, n) == UndoBlock(chain[Height + 1 - n], s.index, s.view, refreshed)
  IN  FoldLeft(Back, [index |-> index, view |-> budgetman], [n \in 1..depth |-> n])

IsVerifyRun(run, depth, refreshed) ==
  run \in [0..depth -> Rolled] /\ run[depth] = Undone(depth, refreshed)

LEMMA VerifyRun ==
  ASSUME IsSeq(chain), \A n \in DOMAIN chain : chain[n].txs \in Seq(Txs),
         index \in IndexType, budgetman \in ViewType, NEW depth \in 0..Height, NEW refreshed
  PROVE  \E run : IsVerifyRun(run, depth, refreshed)
<1> DEFINE N == depth
           base == [index |-> index, view |-> budgetman]
           F == [n \in 1..N |-> [s \in Rolled |-> UndoBlock(chain[Height + 1 - [k \in 1..depth |-> k][n]], s.index, s.view, refreshed)]]
<1>1. N \in Nat /\ DOMAIN [k \in 1..depth |-> k] = 1..N
  BY SeqFacts DEF Height
<1>2. base \in Rolled
  BY DEF Rolled
<1>3. ASSUME NEW n \in 1..N, NEW s \in Rolled
      PROVE  F[n][s] = UndoBlock(chain[Height + 1 - [k \in 1..depth |-> k][n]], s.index, s.view, refreshed) /\ F[n][s] \in Rolled
  <2>1. Height + 1 - [k \in 1..depth |-> k][n] \in DOMAIN chain
    BY SeqFacts DEF Height
  <2>2. s.index \in IndexType /\ s.view \in ViewType
    BY DEF Rolled
  <2> QED BY <2>1, <2>2, UndoTypes DEF Rolled
<1> DEFINE G(it) == it = [T \in SUBSET (1..N) |->
                           IF T = {} THEN base ELSE UndoBlock(chain[Height + 1 - [k \in 1..depth |-> k][Max(T)]], it[T \ {Max(T)}].index, it[T \ {Max(T)}].view, refreshed)]
           fold == CHOOSE it : G(it)
<1>4. Undone(depth, refreshed) = fold[1..N]
  BY <1>1 DEF Undone, FoldLeft, MapThenFoldSet
<1> HIDE DEF F
<1>b. Closed(F, N, Rolled)
  BY <1>3 DEF Closed
<1>5. PICK it : IsFold(it, F, N, Rolled, base)
  <2> HIDE DEF base, N
  <2> QED BY <1>1, <1>2, <1>b, FoldExists
<1>6. G(it)
  <2>1. ASSUME NEW T \in SUBSET (1..N), T # {}
        PROVE  it[T] = UndoBlock(chain[Height + 1 - [k \in 1..depth |-> k][Max(T)]], it[T \ {Max(T)}].index, it[T \ {Max(T)}].view, refreshed)
    <3>1. Max(T) \in 1..N
      BY <1>1, <2>1, MaxUpTo
    <3>2. T \ {Max(T)} \in SUBSET (1..N)
      OBVIOUS
    <3>3. it[T \ {Max(T)}] \in Rolled /\ it[T] = F[Max(T)][it[T \ {Max(T)}]]
      BY <1>5, <2>1, <3>2 DEF IsFold
    <3> HIDE DEF N
    <3> QED BY <1>3, <3>1, <3>3
  <2>2. it[{}] = base
    BY <1>5 DEF IsFold
  <2>3. it = [T \in SUBSET (1..N) |-> it[T]]
    BY <1>5 DEF IsFold
  <2> HIDE DEF N, base
  <2> QED BY <2>1, <2>2, <2>3
<1>7. G(fold)
  <2> HIDE DEF G
  <2> QED BY <1>6
<1> HIDE DEF fold
<1>8. fold[{}] = base
  BY <1>7
<1>9. \A n \in 1..N : fold[1..n] = UndoBlock(chain[Height + 1 - [k \in 1..depth |-> k][n]], fold[1..(n - 1)].index, fold[1..(n - 1)].view, refreshed)
  <2> SUFFICES ASSUME NEW n \in 1..N
               PROVE  fold[1..n] = UndoBlock(chain[Height + 1 - [k \in 1..depth |-> k][n]], fold[1..(n - 1)].index, fold[1..(n - 1)].view, refreshed)
    OBVIOUS
  <2>1. /\ 1..n \in SUBSET (1..N) /\ 1..n # {}
        /\ Max(1..n) = n /\ (1..n) \ {Max(1..n)} = 1..(n - 1)
    BY <1>1, FirstOnes
  <2>2. \A T \in SUBSET (1..N) :
          T # {} => fold[T] = UndoBlock(chain[Height + 1 - [k \in 1..depth |-> k][Max(T)]], fold[T \ {Max(T)}].index, fold[T \ {Max(T)}].view, refreshed)
    BY <1>7
  <2> HIDE DEF N
  <2>3. fold[1..n] = UndoBlock(chain[Height + 1 - [k \in 1..depth |-> k][Max(1..n)]], fold[(1..n) \ {Max(1..n)}].index, fold[(1..n) \ {Max(1..n)}].view, refreshed)
    BY <2>1, <2>2
  <2> QED BY <2>1, <2>3
<1>10. PICK run : IsRun(run, F, N, Rolled, base) /\ run[N] = fold[1..N]
  <2> HIDE DEF base, N, G
  <2>1. \A n \in 1..N : fold[1..(n - 1)] \in Rolled => fold[1..n] = F[n][fold[1..(n - 1)]]
    BY <1>3, <1>9
  <2> QED BY <1>1, <1>2, <1>8, <1>b, <2>1, RunOf
<1> QED BY <1>4, <1>10 DEF IsVerifyRun, IsRun

-----------------------------------------------------------------------------
(* Both passes over a block.                                               *)
LEMMA BlockFacts ==
  ASSUME NEW S \in SUBSET Txs, NEW txs \in BlocksOf(S)
  PROVE  /\ txs \in Seq(S) /\ txs \in Seq(Txs) /\ IsInjective(txs) /\ ToSet(txs) \in SUBSET S
         /\ DOMAIN txs = 1..Len(txs) /\ \A n \in 1..Len(txs) : txs[n] \in S
<1>1. PICK m \in 0..MaxBlockTxs : txs \in [1..m -> S]
  BY GovernanceAssumption DEF BlocksOf, SeqOf
<1>2. txs \in Seq(S)
  BY <1>1, GovernanceAssumption, SeqDef
<1>3. IsInjective(txs)
  BY DEF BlocksOf
<1>4. DOMAIN txs = 1..Len(txs) /\ \A n \in 1..Len(txs) : txs[n] \in S
  BY <1>2, LenProperties
<1>5. txs \in Seq(Txs)
  BY <1>2, SeqMonotonic
<1> QED BY <1>2, <1>3, <1>4, <1>5 DEF ToSet

\* They go along together: what the one stages is what the other writes.
LEMMA SameChecks ==
  ASSUME NEW i \in IndexType, NEW v \in ViewType, NEW height \in Nat, NEW txs \in Seq(Txs),
         \A n \in 1..Len(txs) : Tx[txs[n]].mode = "CAST" => Tx[txs[n]].proposal \in v.proposals
  PROVE  JustCheck(txs, i, v, height) <=> ProcessBlock(txs, i, v, height, {}).ok
<1> DEFINE N == Len(txs)
<1>0. N \in Nat /\ \A n \in 1..N : txs[n] \in Txs
  BY LenProperties
<1>1. PICK p : IsProcessRun(p, txs, i, v, height, {})
  BY ProcessRun
<1>2. PICK c : IsCheckRun(c, txs, i, v, height)
  BY CheckRun
<1>3. \A n \in 0..N : /\ p[n] \in ProcessState /\ p[n].ok \in BOOLEAN
                      /\ p[n].index \in IndexType /\ p[n].view \in ViewType
                      /\ c[n] \in CheckState /\ c[n].ok \in BOOLEAN
  BY <1>1, <1>2 DEF IsProcessRun, IsCheckRun, ProcessState, CheckState
<1> DEFINE Alike(n) == /\ c[n].ok = p[n].ok
                       /\ p[n].ok => /\ c[n].staged = p[n].index.locks
                                     /\ v.proposals \cup c[n].proposalAdds = p[n].view.proposals
           good == {n \in 0..N : Alike(n)}
<1>4. 0 \in good
  <2>1. /\ p[0] = [ok |-> TRUE, index |-> i, view |-> v]
        /\ c[0] = [ok |-> TRUE, proposalAdds |-> {}, staged |-> i.locks]
    BY <1>1, <1>2 DEF IsProcessRun, IsCheckRun
  <2>2. /\ p[0].ok = TRUE /\ p[0].index = i /\ p[0].view = v
        /\ c[0].ok = TRUE /\ c[0].proposalAdds = {} /\ c[0].staged = i.locks
    BY <2>1
  <2>3. Alike(0)
    BY <2>2
  <2> HIDE DEF Alike
  <2> QED BY <1>0, <2>3
<1>5. ASSUME NEW n \in 0..(N - 1), n \in good
      PROVE  n + 1 \in good
  <2> DEFINE m == n + 1
             t == txs[m]
             s == p[n]
             r == c[n]
             can == CanApply(t, s.index, s.view, height)
  <2>1. m \in 1..N /\ m \in 0..N /\ n \in 0..N /\ m - 1 = n
    BY <1>0
  <2>2. t \in Txs
    BY <1>0, <2>1
  <2>3. p[m] = ProcessOne(t, s, height, {}) /\ c[m] = JustCheckStep(r, t, v, height)
    BY <1>1, <1>2, <2>1 DEF IsProcessRun, IsCheckRun
  <2>4. /\ s \in ProcessState /\ s.ok \in BOOLEAN /\ s.index \in IndexType /\ s.view \in ViewType
        /\ r \in CheckState /\ r.ok \in BOOLEAN
    BY <1>3, <2>1
  <2>5. Alike(n)
    BY <1>5
  <2>6. Tx[t].mode = "CAST" => Tx[t].proposal \in v.proposals
    BY <2>1
  <2>7. r.ok = s.ok /\ (s.ok => /\ r.staged = s.index.locks
                               /\ v.proposals \cup r.proposalAdds = s.view.proposals)
    BY <2>5
  <2> HIDE DEF m, t, s, r
  <2>8. s.ok => can = CheckOk(r, t, v, height)
    <3> SUFFICES ASSUME s.ok PROVE can = CheckOk(r, t, v, height)
      OBVIOUS
    <3>1. CASE Tx[t].mode = "PROPOSAL"
      BY <2>7, <3>1 DEF CanApply, CheckOk
    <3>2. CASE Tx[t].mode = "LOCK"
      BY <2>7, <3>2 DEF CanApply, CheckOk
    <3>3. CASE Tx[t].mode = "CAST"
      <4>1. Tx[t].proposal \in v.proposals /\ Tx[t].proposal \in s.view.proposals
        BY <2>6, <2>7, <3>3
      <4>2. /\ can = CheckAndStageCast(t, s.index.locks, s.view, height)
            /\ CheckOk(r, t, v, height) = CheckAndStageCast(t, r.staged, v, height)
        BY <3>3 DEF CanApply, CheckOk
      <4> QED BY <2>7, <4>1, <4>2 DEF CheckAndStageCast
    <3> QED BY <2>2, <3>1, <3>2, <3>3, TxFacts
  <2>9. CheckOk(r, t, v, height) \in BOOLEAN
    BY <2>2, TxFacts DEF CheckOk, CheckAndStageCast
  <2> HIDE DEF can
  <2>10. c[m].ok = (r.ok /\ CheckOk(r, t, v, height)) /\ c[m].ok \in BOOLEAN
    <3>1. /\ JustCheckStep(r, t, v, height).ok <=> r.ok /\ CheckOk(r, t, v, height)
          /\ JustCheckStep(r, t, v, height) \in CheckState
      BY <2>2, <2>4, CheckStep
    <3>2. JustCheckStep(r, t, v, height).ok \in BOOLEAN
      BY <3>1 DEF CheckState
    <3> QED BY <2>3, <2>4, <2>9, <3>1, <3>2
  <2>11. p[m].ok = (s.ok /\ can)
    <3>1. [s EXCEPT !.ok = FALSE].ok = FALSE
      BY <2>4 DEF ProcessState
    <3>2. s.ok /\ can => p[m].ok = TRUE
      BY <2>3 DEF ProcessOne, can
    <3>3. ~ (s.ok /\ can) => p[m].ok = FALSE
      BY <2>3, <3>1 DEF ProcessOne, can
    <3>4. (s.ok /\ can) \in BOOLEAN
      OBVIOUS
    <3> QED BY <3>2, <3>3
  <2>12. c[m].ok = p[m].ok
    BY <2>7, <2>8, <2>9, <2>10, <2>11
  <2>13. ASSUME p[m].ok
         PROVE  /\ c[m].staged = p[m].index.locks
                /\ v.proposals \cup c[m].proposalAdds = p[m].view.proposals
    <3>1. /\ r.staged = s.index.locks /\ v.proposals \cup r.proposalAdds = s.view.proposals
          /\ s.ok /\ can
      BY <2>7, <2>11, <2>13
    <3>2. p[m].index = ApplyToIndex(t, s.index) /\ p[m].view = ApplyToMemory(t, s.view)
      <4>1. /\ p[m].index = ApplyToIndex(t, s.index)
            /\ p[m].view = Remember(t, s.view, ApplyToIndex(t, s.index), {})
        BY <2>3, <3>1 DEF ProcessOne, can
      <4> QED BY <2>2, <2>4, <4>1, MemoryTypes
    <3>3. /\ Tx[t].mode = "PROPOSAL" =>
               /\ c[m].proposalAdds = r.proposalAdds \cup {Tx[t].proposal} /\ c[m].staged = r.staged
          /\ Tx[t].mode = "LOCK" =>
               /\ c[m].proposalAdds = r.proposalAdds /\ c[m].staged = [r.staged EXCEPT ![t] = "unused"]
          /\ Tx[t].mode = "CAST" =>
               /\ c[m].proposalAdds = r.proposalAdds
               /\ c[m].staged = Stage(r.staged, t, Tx[t].direction)
      BY <2>2, <2>3, <2>4, CheckStep
    <3>4. CASE Tx[t].mode = "PROPOSAL"
      <4>1. /\ p[m].index.locks = s.index.locks
            /\ p[m].view.proposals = s.view.proposals \cup {Tx[t].proposal}
        BY <2>2, <2>4, <3>2, <3>4, ProposalStep
      <4>2. c[m].staged = r.staged /\ c[m].proposalAdds = r.proposalAdds \cup {Tx[t].proposal}
        BY <3>3, <3>4
      <4> QED BY <3>1, <4>1, <4>2
    <3>5. CASE Tx[t].mode = "LOCK"
      <4>1. p[m].index.locks = [s.index.locks EXCEPT ![t] = "unused"] /\ p[m].view = s.view
        BY <2>2, <2>4, <3>2, <3>5, LockStep
      <4>2. /\ c[m].staged = [r.staged EXCEPT ![t] = "unused"]
            /\ c[m].proposalAdds = r.proposalAdds
        BY <3>3, <3>5
      <4> QED BY <3>1, <4>1, <4>2
    <3>6. CASE Tx[t].mode = "CAST"
      <4>1. /\ p[m].index.locks = Stage(s.index.locks, t, Tx[t].direction)
            /\ p[m].view.proposals = s.view.proposals
        BY <2>2, <2>4, <3>2, <3>6, CastStep
      <4>2. /\ c[m].staged = Stage(r.staged, t, Tx[t].direction)
            /\ c[m].proposalAdds = r.proposalAdds
        BY <3>3, <3>6
      <4> QED BY <3>1, <4>1, <4>2
    <3> QED BY <2>2, <3>4, <3>5, <3>6, TxFacts
  <2>14. Alike(m)
    BY <2>12, <2>13
  <2> HIDE DEF Alike
  <2> QED BY <2>1, <2>14 DEF m
<1>6. Alike(N)
  <2> HIDE DEF good, N
  <2>1. N \in 0..N
    BY <1>0
  <2>2. N \in good
    BY <1>0, <1>4, <1>5, <2>1, Climb
  <2> QED BY <2>2 DEF good
<1> QED BY <1>1, <1>2, <1>6 DEF IsProcessRun, IsCheckRun

LEMMA GoodChecks ==
  ASSUME index \in IndexType, budgetman \in ViewType, Height \in Nat
  PROVE  ChecksAgree
<1> SUFFICES ASSUME NEW txs \in BlocksOf(Checked(budgetman))
             PROVE  JustCheck(txs, index, budgetman, Height + 1)
                      <=> ProcessBlock(txs, index, budgetman, Height + 1, {}).ok
  BY DEF ChecksAgree
<1>1. /\ Checked(budgetman) \in SUBSET Txs
      /\ \A t \in Checked(budgetman) : Tx[t].mode = "CAST" => Tx[t].proposal \in budgetman.proposals
  BY DEF Checked, CheckSpecialTx
<1>2. txs \in Seq(Txs) /\ \A n \in 1..Len(txs) : txs[n] \in Checked(budgetman)
  BY <1>1, BlockFacts
<1>3. \A n \in 1..Len(txs) : Tx[txs[n]].mode = "CAST" => Tx[txs[n]].proposal \in budgetman.proposals
  BY <1>1, <1>2
<1> DEFINE h == Height + 1
<1>4. h \in Nat
  OBVIOUS
<1> HIDE DEF h
<1>5. JustCheck(txs, index, budgetman, h) <=> ProcessBlock(txs, index, budgetman, h, {}).ok
  BY <1>2, <1>3, <1>4, SameChecks
<1> QED BY <1>5 DEF h

-----------------------------------------------------------------------------
(* The chain, and what it pays.                                            *)
LEMMA ChainFacts ==
  ASSUME GInv
  PROVE  /\ Height \in Nat /\ DOMAIN chain = 1..Height /\ Mined = MinedBy(chain, Height)
         /\ Mined \in SUBSET Txs /\ index \in IndexType
         /\ \A n \in 1..Height : chain[n].txs \in Seq(Txs)
         /\ \A t \in Mined : \E n \in 1..Height : t \in ToSet(chain[n].txs)
<1>1. Height \in Nat /\ DOMAIN chain = 1..Height
  BY SeqFacts DEF GInv, Height
<1>2. \A n \in 1..Height : chain[n].txs \in Seq(Txs)
  BY DEF GInv, BlockOK
<1>3. \A n \in 1..Height : ToSet(chain[n].txs) \in SUBSET Txs
  <2> SUFFICES ASSUME NEW n \in 1..Height PROVE ToSet(chain[n].txs) \in SUBSET Txs
    OBVIOUS
  <2> DEFINE txs == chain[n].txs
  <2>1. txs \in Seq(Txs)
    BY <1>2
  <2> HIDE DEF txs
  <2>2. \A m \in DOMAIN txs : txs[m] \in Txs
    BY <2>1, LenProperties
  <2> QED BY <2>2 DEF ToSet, txs
<1>4. Mined = MinedBy(chain, Height)
  BY <1>1 DEF Mined, MinedBy
<1>5. Mined \in SUBSET Txs /\ \A t \in Mined : \E n \in 1..Height : t \in ToSet(chain[n].txs)
  BY <1>1, <1>3 DEF Mined
<1>6. index \in IndexType
  BY <1>5, IndexParts DEF GInv
<1> QED BY <1>1, <1>2, <1>4, <1>5, <1>6

LEMMA SameBlocks ==
  ASSUME NEW c, NEW d, NEW n \in Nat, \A m \in 1..n : d[m] = c[m]
  PROVE  /\ \A m \in 0..n : MinedBy(d, m) = MinedBy(c, m)
         /\ \A m \in 1..n : BlockOK(c, m) => BlockOK(d, m)
<1>1. ASSUME NEW m \in 0..n
      PROVE  MinedBy(d, m) = MinedBy(c, m)
  <2>1. \A i \in 1..m : d[i] = c[i]
    OBVIOUS
  <2> QED BY <2>1 DEF MinedBy
<1>2. ASSUME NEW m \in 1..n, BlockOK(c, m)
      PROVE  BlockOK(d, m)
  <2>1. m - 1 \in 0..n
    OBVIOUS
  <2>2. MinedBy(d, m - 1) = MinedBy(c, m - 1) /\ d[m] = c[m]
    BY <1>1, <2>1
  <2> QED BY <1>2, <2>2 DEF BlockOK
<1> QED BY <1>1, <1>2

LEMMA MinedUpTo ==
  ASSUME NEW c, NEW n \in Nat
  PROVE  MinedBy(c, n + 1) = MinedBy(c, n) \cup ToSet(c[n + 1].txs)
<1>1. 1..(n + 1) = (1..n) \cup {n + 1}
  OBVIOUS
<1> QED BY <1>1 DEF MinedBy

\* What a proposal has when its payments begin is what it has at the end.
LEMMA Settled ==
  ASSUME GInv, NEW height \in 1..Height,
         NEW p \in Proposals, Proposal[p].start <= height
  PROVE  LET M == MinedBy(chain, height - 1)
         IN  /\ p \in Proposed(M) <=> p \in Proposed(Mined)
             /\ \A d \in Directions : Voted(M, p, d) = Voted(Mined, p, d)
<1> DEFINE M == MinedBy(chain, height - 1)
<1>0. /\ Height \in Nat /\ Mined \in SUBSET Txs /\ Legal(Mined)
      /\ \A t \in Mined : \E n \in 1..Height : t \in ToSet(chain[n].txs)
      /\ \A n \in 1..Height : BlockOK(chain, n)
  BY ChainFacts DEF GInv
<1>1. ASSUME NEW m \in 0..Height, NEW n \in 1..m, NEW t \in ToSet(chain[n].txs)
      PROVE  t \in MinedBy(chain, m)
  BY DEF MinedBy
<1>2. M \subseteq Mined
  <2>1. 1..(height - 1) \subseteq 1..Height
    BY <1>0
  <2>2. Mined = MinedBy(chain, Height)
    BY ChainFacts
  <2> QED BY <2>1, <2>2 DEF MinedBy
<1>3. ASSUME NEW t \in Mined, Tx[t].mode \in {"PROPOSAL", "CAST"}, Tx[t].proposal = p
      PROVE  t \in M
  <2>1. PICK n \in 1..Height : t \in ToSet(chain[n].txs)
    BY <1>0
  <2>2. InTime(t, n)
    BY <1>0, <2>1 DEF BlockOK
  <2>3. n < Proposal[p].start
    BY <1>3, <2>2 DEF InTime
  <2>4. Proposal[p].start \in Nat
    BY GovernanceAssumption
  <2>5. n \in 1..(height - 1) /\ height - 1 \in 0..Height
    BY <1>0, <2>3, <2>4
  <2> QED BY <1>1, <2>1, <2>5
<1>4. p \in Proposed(M) <=> p \in Proposed(Mined)
  BY <1>2, <1>3 DEF Proposed
<1>5. ASSUME NEW lock \in Locks, Tx[lock].proposal = p
      PROVE  CastsOf(M, lock) = CastsOf(Mined, lock)
  <2>1. \A t \in CastsOf(Mined, lock) : t \in Mined /\ Tx[t].mode = "CAST" /\ Tx[t].proposal = p
    BY <1>0, <1>5 DEF CastsOf, Legal
  <2>2. \A t \in CastsOf(Mined, lock) : t \in M
    BY <1>3, <2>1
  <2> QED BY <1>2, <2>2 DEF CastsOf
<1>6. ASSUME NEW lock \in Locks, Tx[lock].proposal = p, CastsOf(Mined, lock) # {}
      PROVE  lock \in M /\ lock \in Mined
  <2>1. PICK t \in CastsOf(Mined, lock) : TRUE
    BY <1>6
  <2>2. t \in M /\ t \in Mined /\ Needs(t, lock)
    BY <1>5, <1>6, <2>1 DEF CastsOf, Needs
  <2>3. lock \in Mined
    BY <1>0, <2>1 DEF CastsOf, Legal
  <2>4. PICK n \in 1..Height : lock \in ToSet(chain[n].txs)
    BY <1>0, <2>3
  <2>5. t \notin MinedBy(chain, n - 1)
    BY <1>0, <2>2, <2>4 DEF BlockOK
  <2>6. PICK k \in 1..(height - 1) : t \in ToSet(chain[k].txs)
    BY <2>2 DEF MinedBy
  <2>7. ~ (k \in 1..(n - 1))
    <3>1. n - 1 \in 0..Height
      BY <1>0
    <3> QED BY <1>1, <2>5, <2>6, <3>1
  <2>8. n \in 1..(height - 1) /\ height - 1 \in 0..Height
    BY <1>0, <2>7
  <2>9. lock \in M
    BY <1>1, <2>4, <2>8
  <2> QED BY <2>3, <2>9
<1>7. ASSUME NEW d \in Directions, NEW lock \in Locks, Tx[lock].proposal = p
      PROVE  LockState(M, lock) = d <=> LockState(Mined, lock) = d
  <2>1. CastsOf(M, lock) = CastsOf(Mined, lock)
    BY <1>5, <1>7
  <2> HIDE DEF M
  <2>2. CASE CastsOf(Mined, lock) = {}
    <3>1. LockState(M, lock) \in {None, "unused"} /\ LockState(Mined, lock) \in {None, "unused"}
      BY <2>1, <2>2 DEF LockState
    <3> QED BY <3>1, StateNames
  <2>3. CASE CastsOf(Mined, lock) # {}
    <3>1. lock \in M /\ lock \in Mined
      BY <1>6, <1>7, <2>3
    <3> QED BY <2>1, <2>3, <3>1 DEF LockState
  <2> QED BY <2>2, <2>3
<1>8. \A d \in Directions : Voted(M, p, d) = Voted(Mined, p, d)
  <2> HIDE DEF M
  <2> QED BY <1>7 DEF Voted
<1> QED BY <1>4, <1>8

LEMMA SamePayment ==
  ASSUME GInv, NEW height \in 1..Height
  PROVE  chain[height].paid = GetPQPayment(IndexView(index), height)
<1> DEFINE M == MinedBy(chain, height - 1)
           v == IndexView(IndexFrom(M))
           w == IndexView(IndexFrom(Mined))
<1>1. chain[height].paid = GetPQPayment(v, height) /\ index = IndexFrom(Mined)
  BY DEF GInv, BlockOK
<1>2. CycleStart(height) \in Int /\ CycleStart(height) <= height
  <2>1. height \in Nat /\ Height \in Nat /\ Cycle \in Nat \ {0}
    BY ChainFacts, GovernanceAssumption
  <2>2. height % Cycle \in 0..(Cycle - 1)
    BY <2>1
  <2> QED BY <2>1, <2>2 DEF CycleStart
<1>3. ASSUME NEW p \in Proposals, Proposal[p].start <= CycleStart(height)
      PROVE  /\ p \in v.proposals <=> p \in w.proposals
             /\ v.votes[p] = w.votes[p]
  <2>1. Proposal[p].start <= height
    <3>1. Proposal[p].start \in Nat /\ height \in Int
      BY ChainFacts, GovernanceAssumption
    <3> QED BY <1>2, <1>3, <3>1
  <2>2. /\ p \in Proposed(M) <=> p \in Proposed(Mined)
        /\ \A d \in Directions : Voted(M, p, d) = Voted(Mined, p, d)
    BY <2>1, Settled
  <2> HIDE DEF M
  <2>3. /\ v.proposals = Proposed(M) /\ w.proposals = Proposed(Mined)
        /\ v.votes[p] = [d \in Directions |-> WeightOf(Voted(M, p, d))]
        /\ w.votes[p] = [d \in Directions |-> WeightOf(Voted(Mined, p, d))]
    BY DEF IndexView, IndexFrom
  <2>4. [d \in Directions |-> WeightOf(Voted(M, p, d))]
          = [d \in Directions |-> WeightOf(Voted(Mined, p, d))]
    BY <2>2
  <2> QED BY <2>2, <2>3, <2>4
<1>4. v.proposals \subseteq Proposals /\ w.proposals \subseteq Proposals
  <2>1. \A A \in SUBSET Txs : Proposed(A) \subseteq Proposals
    BY TxFacts DEF Proposed
  <2>2. Mined \in SUBSET Txs /\ M \in SUBSET Txs
    <3>1. Mined \in SUBSET Txs /\ Mined = MinedBy(chain, Height) /\ Height \in Nat
      BY ChainFacts
    <3>2. 1..(height - 1) \subseteq 1..Height
      BY <3>1
    <3> QED BY <3>1, <3>2 DEF MinedBy
  <2> HIDE DEF M
  <2> QED BY <2>1, <2>2 DEF IndexView, IndexFrom
<1> HIDE DEF v, w
<1>5. Candidates(v, height) = Candidates(w, height)
  BY <1>3, <1>4 DEF Candidates
<1>6. \A p \in Candidates(v, height) : v.votes[p] = w.votes[p]
  BY <1>3, <1>4 DEF Candidates
<1>7. [p \in Candidates(v, height) |-> Net(v.votes[p])]
        = [p \in Candidates(w, height) |-> Net(w.votes[p])]
  BY <1>5, <1>6
<1>8. GetPQPayment(v, height) = GetPQPayment(w, height)
  BY <1>7 DEF GetPQPayment
<1> QED BY <1>1, <1>8 DEF w

LEMMA GoodPayments ==
  ASSUME GInv
  PROVE  PaidAsVoted
<1> SUFFICES ASSUME NEW height \in 1..Height, height % Cycle = Cycle - 1, height >= Cycle,
                    NEW n \in 0..(Cycle - 1)
             PROVE  chain[height - n].paid = GetPQPayment(IndexView(index), height - n)
  BY DEF PaidAsVoted
<1>1. Height \in Nat /\ Cycle \in Nat \ {0}
  BY ChainFacts, GovernanceAssumption
<1>2. height - n \in 1..Height
  BY <1>1
<1> QED BY <1>2, SamePayment

-----------------------------------------------------------------------------
(* The invariant, step by step.                                            *)
LEMMA GovernanceStart ==
  ASSUME Init
  PROVE  GInv
<1>1. chain = <<>> /\ budgetman = [proposals |-> {}, votes |-> NoVotes] /\ agreement = "exact"
      /\ index = [proposals |-> {}, locks |-> [lock \in Locks |-> None], tally |-> NoVotes]
  BY DEF Init
<1>2. IsSeq(chain) /\ Height = 0 /\ DOMAIN chain = {}
  <2>1. chain \in Seq(Nat) /\ Len(chain) = 0
    BY <1>1, EmptySeq
  <2>2. IsSeq(chain) /\ Height = 0
    BY <2>1, SeqIs DEF Height
  <2>3. DOMAIN chain = 1..0
    BY <2>1, <2>2, SeqFacts
  <2> QED BY <2>2, <2>3
<1>3. Mined = {}
  BY <1>2 DEF Mined
<1>4. Legal({})
  BY DEF Legal
<1>5. index = IndexFrom({})
  <2>1. Proposed({}) = {}
    BY DEF Proposed
  <2>2. \A lock \in Locks : LockState({}, lock) = None
    BY DEF LockState
  <2>3. \A p \in Proposals, d \in Directions : Voted({}, p, d) = {}
    BY <2>2, StateNames DEF Voted
  <2>4. Tally({}) = NoVotes
    BY <2>3, WeightIs DEF Tally, NoVotes
  <2>5. LockMap({}) = [lock \in Locks |-> None]
    BY <2>2 DEF LockMap
  <2>6. IndexFrom({}) = [proposals |-> Proposed({}), locks |-> LockMap({}), tally |-> Tally({})]
    BY DEF IndexFrom, LockMap, Tally
  <2> QED BY <1>1, <2>1, <2>4, <2>5, <2>6
<1>6. budgetman \in ViewType /\ Clean(budgetman)
  BY <1>1 DEF ViewType, NoVotes, Clean
<1>7. budgetman = IndexView(index) /\ budgetman.proposals = index.proposals
  BY <1>1 DEF IndexView
<1>8. \A n \in 1..Height : BlockOK(chain, n)
  BY <1>2
<1> QED BY <1>1, <1>2, <1>3, <1>4, <1>5, <1>6, <1>7, <1>8 DEF GInv

(* A refresh within a block makes exact memory stale, and there is none in *)
(* memory that is lost.                                                    *)
LEMMA TornFrom ==
  ASSUME agreement \in {"exact", "stale", "lost"}, NEW txs, NEW moments,
         NEW refreshed \in Refreshes(txs, moments)
  PROVE  /\ Torn(refreshed) \in {"exact", "stale", "lost"}
         /\ Torn(refreshed) # "lost" => agreement # "lost"
         /\ Torn(refreshed) = "exact" => agreement = "exact" /\ refreshed = {}
<1>1. agreement = "lost" => refreshed = {}
  BY DEF Refreshes
<1> QED BY <1>1 DEF Torn

LEMMA GovernanceConnect ==
  ASSUME GInv, ConnectBlock
  PROVE  GInv'
<1> DEFINE h == Height + 1
           truth == IndexView(index)
<1>0. PICK txs \in BlocksOf(Checked(truth) \cap Checked(budgetman)) :
        \E refreshed \in Refreshes(ToSet(txs), {"between"}) :
          /\ ProcessBlock(txs, index, truth, h, {}).ok
          /\ ProcessBlock(txs, index, budgetman, h, refreshed).ok
          /\ GetPQPayment(budgetman, h) = GetPQPayment(truth, h)
          /\ chain' = Append(chain, [txs |-> txs, paid |-> GetPQPayment(budgetman, h)])
          /\ index' = ProcessBlock(txs, index, budgetman, h, refreshed).index
          /\ budgetman' = ProcessBlock(txs, index, budgetman, h, refreshed).view
          /\ agreement' = Torn(refreshed)
  BY DEF ConnectBlock
<1>1. PICK refreshed \in Refreshes(ToSet(txs), {"between"}) :
        /\ ProcessBlock(txs, index, truth, h, {}).ok
        /\ ProcessBlock(txs, index, budgetman, h, refreshed).ok
        /\ GetPQPayment(budgetman, h) = GetPQPayment(truth, h)
        /\ chain' = Append(chain, [txs |-> txs, paid |-> GetPQPayment(budgetman, h)])
        /\ index' = ProcessBlock(txs, index, budgetman, h, refreshed).index
        /\ budgetman' = ProcessBlock(txs, index, budgetman, h, refreshed).view
        /\ agreement' = Torn(refreshed)
  BY <1>0
<1>2. /\ Height \in Nat /\ h \in Nat /\ DOMAIN chain = 1..Height /\ Mined = MinedBy(chain, Height)
      /\ Mined \in SUBSET Txs /\ index \in IndexType /\ index = IndexFrom(Mined) /\ Legal(Mined)
      /\ IsSeq(chain) /\ budgetman \in ViewType /\ truth \in ViewType
  BY ChainFacts, IndexParts DEF GInv
<1>t. /\ agreement' \in {"exact", "stale", "lost"}
      /\ agreement' # "lost" => agreement # "lost"
      /\ agreement' = "exact" => agreement = "exact" /\ refreshed = {}
  BY <1>1, TornFrom DEF GInv
<1> DEFINE S == Checked(truth) \cap Checked(budgetman)
           L == Mined \cup ToSet(txs)
           b == [txs |-> txs, paid |-> GetPQPayment(budgetman, h)]
<1>3. S \in SUBSET Txs /\ S \cap Mined = {}
  BY DEF Checked
<1>4. txs \in Seq(Txs) /\ IsInjective(txs) /\ ToSet(txs) \cap Mined = {}
  <2> HIDE DEF S
  <2>1. txs \in Seq(Txs) /\ IsInjective(txs) /\ ToSet(txs) \in SUBSET S
    BY <1>1, <1>3, BlockFacts DEF S
  <2> QED BY <1>3, <2>1
<1> HIDE DEF S, h
<1>5. /\ L \in SUBSET Txs /\ Legal(L)
      /\ ProcessBlock(txs, index, truth, h, {}).index = IndexFrom(L)
      /\ ProcessBlock(txs, index, truth, h, {}).view = IndexView(IndexFrom(L))
      /\ \A t \in ToSet(txs) : InTime(t, h) /\ \A u \in Mined : ~ Needs(u, t)
      /\ \A i, j \in DOMAIN txs : i < j => ~ Needs(txs[i], txs[j])
  BY <1>1, <1>2, <1>4, TruthRun
<1>6. index' = IndexFrom(L)
  <2> HIDE DEF truth, L
  <2>1. ProcessBlock(txs, index, budgetman, h, refreshed).index =
          ProcessBlock(txs, index, truth, h, {}).index
    BY <1>1, <1>2, <1>4, SameIndexRun
  <2> QED BY <1>1, <1>5, <2>1
<1>7. /\ IsSeq(chain') /\ Height' = Height + 1 /\ Height' = h /\ chain'[h] = b
      /\ \A i \in 1..Height : chain'[i] = chain[i]
  BY <1>1, <1>2, AppendFacts DEF Height, h
<1>8. /\ \A n \in 0..Height : MinedBy(chain', n) = MinedBy(chain, n)
      /\ \A n \in 1..Height : BlockOK(chain, n) => BlockOK(chain', n)
  <2> HIDE DEF b
  <2> QED BY <1>2, <1>7, SameBlocks
<1>9. MinedBy(chain', Height') = L
  <2>1. MinedBy(chain', Height + 1) = MinedBy(chain', Height) \cup ToSet(chain'[Height + 1].txs)
    BY <1>2, MinedUpTo
  <2>2. ToSet(chain'[Height + 1].txs) = ToSet(txs)
    BY <1>7
  <2>3. MinedBy(chain', Height) = Mined
    BY <1>2, <1>8
  <2> QED BY <1>7, <2>1, <2>2, <2>3
<1>10. Mined' = L
  <2>1. DOMAIN chain' = 1..Height'
    BY <1>7, SeqFacts DEF Height
  <2>2. Mined' = MinedBy(chain', Height')
    BY <2>1 DEF Mined, MinedBy
  <2> QED BY <1>9, <2>2
<1>11. BlockOK(chain', h)
  <2>1. h - 1 = Height /\ Height \in 0..Height
    BY <1>2 DEF h
  <2>2. MinedBy(chain', h - 1) = Mined
    BY <1>2, <1>8, <2>1
  <2>3. chain'[h].txs = txs /\ chain'[h].paid = GetPQPayment(IndexView(IndexFrom(Mined)), h)
    BY <1>1, <1>2, <1>7
  <2>4. \A t \in ToSet(txs) : t \notin Mined
    BY <1>4
  <2> QED BY <1>4, <1>5, <2>2, <2>3, <2>4 DEF BlockOK
<1>12. \A n \in 1..Height' : BlockOK(chain', n)
  <2>1. \A n \in 1..Height' : n \in 1..Height \/ n = h
    BY <1>2, <1>7
  <2>2. \A n \in 1..Height : BlockOK(chain, n)
    BY DEF GInv
  <2> QED BY <1>8, <1>11, <2>1, <2>2
<1>13. budgetman' \in ViewType
  BY <1>1, <1>2, <1>4, ViewRun
<1>14. agreement' # "lost" => budgetman'.proposals = index'.proposals /\ Clean(budgetman')
  <2> SUFFICES ASSUME agreement # "lost"
               PROVE  budgetman'.proposals = index'.proposals /\ Clean(budgetman')
    BY <1>t
  <2>1. budgetman.proposals = index.proposals /\ Clean(budgetman)
    BY DEF GInv
  <2> HIDE DEF truth, L, b
  <2> QED BY <1>1, <1>2, <1>4, <2>1, ReloadRun
<1>15. agreement' = "exact" => budgetman' = IndexView(index')
  <2> SUFFICES ASSUME agreement = "exact", refreshed = {} PROVE budgetman' = IndexView(index')
    BY <1>t
  <2>1. budgetman = truth
    BY DEF GInv
  <2>2. budgetman' = IndexView(IndexFrom(L))
    BY <1>1, <1>5, <2>1
  <2> HIDE DEF L
  <2> QED BY <1>6, <2>2 DEF IndexView
<1>16. agreement' \in {"exact", "stale", "lost"}
  BY <1>t
<1>17. Legal(Mined') /\ index' = IndexFrom(Mined')
  BY <1>5, <1>6, <1>10
<1>18. Clean(budgetman)' <=> Clean(budgetman')
  BY DEF Clean
<1>19. IndexView(index)' = IndexView(index')
  BY DEF IndexView
<1>20. Legal(Mined)' /\ (index = IndexFrom(Mined))'
  BY <1>17
<1>21. (\A n \in 1..Height : BlockOK(chain, n))'
  BY <1>12
<1> HIDE DEF truth, L, b
<1> QED BY <1>7, <1>13, <1>14, <1>15, <1>16, <1>18, <1>19, <1>20, <1>21 DEF GInv

LEMMA GovernanceDisconnect ==
  ASSUME GInv, DisconnectBlock
  PROVE  GInv'
<1> DEFINE b == Last(chain)
           M == MinedBy(chain, Height - 1)
           L == M \cup ToSet(b.txs)
<1>0. PICK refreshed \in Refreshes(ToSet(b.txs), {"between"}) :
        LET undone == UndoBlock(b, index, budgetman, refreshed)
        IN  /\ chain # <<>> /\ chain' = Front(chain) /\ index' = undone.index
            /\ budgetman' = undone.view /\ agreement' = Torn(refreshed)
  BY DEF DisconnectBlock
<1> DEFINE undone == UndoBlock(b, index, budgetman, refreshed)
<1>1. /\ chain # <<>> /\ chain' = Front(chain) /\ index' = undone.index
      /\ budgetman' = undone.view /\ agreement' = Torn(refreshed)
  BY <1>0
<1>t. /\ agreement' \in {"exact", "stale", "lost"}
      /\ agreement' # "lost" => agreement # "lost"
      /\ agreement' = "exact" => agreement = "exact" /\ refreshed = {}
  BY <1>0, TornFrom DEF GInv
<1>2. /\ Height \in Nat /\ Mined = MinedBy(chain, Height) /\ Mined \in SUBSET Txs
      /\ index \in IndexType /\ index = IndexFrom(Mined) /\ Legal(Mined)
      /\ IsSeq(chain) /\ budgetman \in ViewType /\ \A n \in 1..Height : BlockOK(chain, n)
  BY ChainFacts DEF GInv
<1>3. Height \in 1..Height /\ Height - 1 \in Nat /\ b = chain[Height]
  <2>1. Height # 0 /\ b = chain[Height]
    BY <1>1, <1>2, SeqFacts DEF Height
  <2> QED BY <1>2, <2>1
<1>4. Mined = L
  <2>1. (Height - 1) + 1 = Height
    BY <1>2
  <2>2. MinedBy(chain, (Height - 1) + 1) = M \cup ToSet(chain[(Height - 1) + 1].txs)
    BY <1>3, MinedUpTo
  <2> QED BY <1>2, <1>3, <2>1, <2>2
<1>5. /\ b.txs \in Seq(Txs) /\ IsInjective(b.txs) /\ M \in SUBSET Txs /\ ToSet(b.txs) \cap M = {}
      /\ \A t \in ToSet(b.txs), u \in M : ~ Needs(u, t)
      /\ \A i, j \in DOMAIN b.txs : i < j => ~ Needs(b.txs[i], b.txs[j])
  BY <1>2, <1>3, <1>4 DEF BlockOK
<1> HIDE DEF M, b
<1>6. /\ Legal(M) /\ undone.index = IndexFrom(M)
      /\ budgetman = IndexView(index) /\ refreshed = {} => undone.view = IndexView(IndexFrom(M))
  <2> DEFINE i == IndexFrom(M \cup ToSet(b.txs))
             u == UndoBlock(b, i, budgetman, refreshed)
  <2>1. Legal(M \cup ToSet(b.txs)) /\ index = i
    BY <1>2, <1>4
  <2>2. /\ Legal(M) /\ u.index = IndexFrom(M)
        /\ budgetman = IndexView(i) /\ refreshed = {} => u.view = IndexView(IndexFrom(M))
    <3>1. budgetman \in ViewType /\ Legal(M \cup ToSet(b.txs))
      BY <1>2, <2>1
    <3> QED BY <1>5, <3>1, TruthUndo
  <2> HIDE DEF i
  <2> QED BY <2>1, <2>2
<1>8. /\ undone.view \in ViewType
      /\ budgetman.proposals = index.proposals /\ Clean(budgetman) =>
           undone.view.proposals = undone.index.proposals /\ Clean(undone.view)
  BY <1>2, <1>5, UndoTypes
<1> HIDE DEF undone
<1>9. /\ IsSeq(chain') /\ Height' = Height - 1 /\ \A n \in 1..(Height - 1) : chain'[n] = chain[n]
  BY <1>1, <1>2, FrontFacts DEF Height
<1>10. /\ \A n \in 0..(Height - 1) : MinedBy(chain', n) = MinedBy(chain, n)
       /\ \A n \in 1..(Height - 1) : BlockOK(chain, n) => BlockOK(chain', n)
  BY <1>3, <1>9, SameBlocks
<1>11. Mined' = M
  <2>1. DOMAIN chain' = 1..Height'
    BY <1>9, SeqFacts DEF Height
  <2>2. Mined' = MinedBy(chain', Height')
    BY <2>1 DEF Mined, MinedBy
  <2>3. Height' \in 0..(Height - 1)
    BY <1>2, <1>3, <1>9
  <2> QED BY <1>9, <1>10, <2>2, <2>3 DEF M
<1>12. (\A n \in 1..Height : BlockOK(chain, n))'
  <2>1. \A n \in 1..Height' : n \in 1..(Height - 1) /\ n \in 1..Height
    BY <1>2, <1>9
  <2> QED BY <1>2, <1>10, <2>1
<1>13. Legal(Mined)' /\ (index = IndexFrom(Mined))'
  BY <1>1, <1>6, <1>11
<1>14. agreement' # "lost" => budgetman'.proposals = index'.proposals /\ Clean(budgetman')
  <2> SUFFICES ASSUME agreement # "lost"
               PROVE  budgetman'.proposals = index'.proposals /\ Clean(budgetman')
    BY <1>t
  <2>1. budgetman.proposals = index.proposals /\ Clean(budgetman)
    BY DEF GInv
  <2> QED BY <1>1, <1>8, <2>1
<1>15. agreement' = "exact" => budgetman' = IndexView(index)'
  <2> SUFFICES ASSUME agreement = "exact", refreshed = {} PROVE budgetman' = IndexView(index)'
    BY <1>t
  <2>1. budgetman = IndexView(index)
    BY DEF GInv
  <2>2. budgetman' = IndexView(IndexFrom(M)) /\ index' = IndexFrom(M)
    BY <1>1, <1>6, <2>1
  <2> QED BY <2>2 DEF IndexView
<1>16. Clean(budgetman)' <=> Clean(budgetman')
  BY DEF Clean
<1>17. agreement' \in {"exact", "stale", "lost"} /\ budgetman' \in ViewType
  BY <1>1, <1>8, <1>t
<1> QED BY <1>9, <1>12, <1>13, <1>14, <1>15, <1>16, <1>17 DEF GInv

\* Steps that change only memory leave the chain's part as it is.
LEMMA SameChain ==
  ASSUME GInv, chain' = chain, index' = index
  PROVE  /\ IsSeq(chain') /\ (\A n \in 1..Height : BlockOK(chain, n))' /\ Legal(Mined)'
         /\ (index = IndexFrom(Mined))' /\ IndexView(index)' = IndexView(index)
         /\ Clean(budgetman)' <=> Clean(budgetman')
<1>1. Height' = Height
  BY DEF Height
<1>2. Mined' = Mined
  BY DEF Mined
<1>3. \A n : BlockOK(chain, n)' <=> BlockOK(chain', n)
  BY DEF BlockOK, MinedBy, InTime, Needs
<1>4. (\A n \in 1..Height : BlockOK(chain, n))'
  BY <1>1 DEF GInv
<1>5. Legal(Mined)' /\ (index = IndexFrom(Mined))'
  BY <1>2 DEF GInv
<1>6. IndexView(index)' = IndexView(index)
  BY DEF IndexView
<1>7. IsSeq(chain') /\ (Clean(budgetman)' <=> Clean(budgetman'))
  BY DEF GInv, Clean
<1> QED BY <1>4, <1>5, <1>6, <1>7

LEMMA GovernanceRefuse ==
  ASSUME GInv, RefuseBlock
  PROVE  GInv'
<1> DEFINE processed(txs, r) == ProcessBlock(txs, index, budgetman, Height + 1, r)
<1>0. PICK txs \in BlocksOf(Checked(budgetman)) : \E refreshed :
          /\ budgetman' = processed(txs, refreshed).view
          /\ agreement' = IF processed(txs, refreshed).view = budgetman THEN agreement ELSE "lost"
          /\ chain' = chain /\ index' = index
  BY DEF RefuseBlock
<1>1. PICK refreshed :
        /\ budgetman' = processed(txs, refreshed).view
        /\ agreement' = IF processed(txs, refreshed).view = budgetman THEN agreement ELSE "lost"
        /\ chain' = chain /\ index' = index
  BY <1>0
<1>2. Height \in Nat /\ index \in IndexType /\ budgetman \in ViewType
  BY ChainFacts DEF GInv
<1>3. txs \in Seq(Txs)
  <2>1. Checked(budgetman) \in SUBSET Txs
    BY DEF Checked
  <2> QED BY <1>1, <2>1, BlockFacts
<1>4. processed(txs, refreshed).view \in ViewType
  <2> DEFINE h == Height + 1
  <2>1. h \in Nat
    BY <1>2
  <2> HIDE DEF h
  <2>2. ProcessBlock(txs, index, budgetman, h, refreshed).view \in ViewType
    BY <1>2, <1>3, <2>1, ViewRun
  <2> QED BY <2>2 DEF h
<1> HIDE DEF processed
<1>5. agreement' # "lost" => budgetman' = budgetman /\ agreement' = agreement
  BY <1>1
<1>6. agreement' # "lost" => budgetman'.proposals = index'.proposals /\ Clean(budgetman')
  BY <1>1, <1>5 DEF GInv
<1>7. agreement' = "exact" => budgetman' = IndexView(index)
  BY <1>5 DEF GInv
<1>8. agreement' \in {"exact", "stale", "lost"} /\ budgetman' \in ViewType
  BY <1>1, <1>4 DEF GInv
<1> QED BY <1>1, <1>6, <1>7, <1>8, SameChain DEF GInv

LEMMA GovernanceRestart ==
  ASSUME GInv, Restart
  PROVE  GInv'
<1>1. /\ budgetman' = [proposals |-> index.proposals, votes |-> NoVotes]
      /\ agreement' = "stale" /\ chain' = chain /\ index' = index
  BY DEF Restart, LoadProposals
<1>2. index.proposals \in SUBSET Proposals
  BY ChainFacts DEF IndexType
<1>3. budgetman' \in ViewType /\ budgetman'.proposals = index'.proposals /\ Clean(budgetman')
  BY <1>1, <1>2 DEF ViewType, NoVotes, Clean
<1> QED BY <1>1, <1>3, SameChain DEF GInv

LEMMA GovernanceAsked ==
  ASSUME GInv, GetAllProposalsOrdered
  PROVE  GInv'
<1> DEFINE votes == [p \in Proposals |->
                       IF p \in budgetman.proposals THEN index.tally[p] ELSE budgetman.votes[p]]
<1>1. /\ budgetman' = [budgetman EXCEPT !.votes = votes]
      /\ agreement' = IF agreement = "stale" THEN "exact" ELSE agreement
      /\ chain' = chain /\ index' = index
  BY DEF GetAllProposalsOrdered, Refreshed
<1>2. /\ index.proposals \in SUBSET Proposals /\ index.tally \in [Proposals -> [Directions -> Nat]]
      /\ budgetman.proposals \in SUBSET Proposals
      /\ budgetman.votes \in [Proposals -> [Directions -> Nat]]
      /\ budgetman = [proposals |-> budgetman.proposals, votes |-> budgetman.votes]
  BY ChainFacts DEF GInv, IndexType, ViewType
<1>3. votes \in [Proposals -> [Directions -> Nat]]
  BY <1>2
<1>4. agreement # "lost" => votes = index.tally
  <2> SUFFICES ASSUME agreement # "lost" PROVE votes = index.tally
    OBVIOUS
  <2>1. budgetman.proposals = index.proposals /\ Clean(budgetman)
    BY DEF GInv
  <2>2. \A p \in Proposals \ index.proposals : budgetman.votes[p] = [d \in Directions |-> 0]
    BY <2>1 DEF Clean
  <2>3. \A p \in Proposals \ index.proposals : index.tally[p] = [d \in Directions |-> 0]
    <3>1. Mined \in SUBSET Txs /\ Legal(Mined) /\ index = IndexFrom(Mined)
      BY ChainFacts DEF GInv
    <3>2. index = [proposals |-> Proposed(Mined), locks |-> LockMap(Mined), tally |-> Tally(Mined)]
      BY <3>1, IndexParts
    <3>3. index.proposals = Proposed(Mined) /\ index.tally = Tally(Mined)
      BY <3>2
    <3> QED BY <3>1, <3>3, IndexParts
  <2>4. \A p \in Proposals : votes[p] = index.tally[p]
    BY <2>1, <2>2, <2>3
  <2> HIDE DEF votes
  <2> QED BY <1>2, <1>3, <2>4
<1> HIDE DEF votes
<1>5. budgetman' = [proposals |-> budgetman.proposals, votes |-> votes]
  BY <1>1, <1>2
<1>6. budgetman' \in ViewType /\ budgetman'.proposals = budgetman.proposals /\ budgetman'.votes = votes
  BY <1>2, <1>3, <1>5 DEF ViewType
<1>7. agreement' # "lost" => budgetman' = IndexView(index)
  <2> SUFFICES ASSUME agreement # "lost" PROVE budgetman' = IndexView(index)
    BY <1>1
  <2>1. budgetman.proposals = index.proposals
    BY DEF GInv
  <2> QED BY <1>4, <1>5, <2>1 DEF IndexView
<1>8. agreement' # "lost" => budgetman'.proposals = index'.proposals /\ Clean(budgetman')
  <2> SUFFICES ASSUME agreement # "lost"
               PROVE  budgetman'.proposals = index'.proposals /\ Clean(budgetman')
    BY <1>1
  <2>1. budgetman' = [proposals |-> index.proposals, votes |-> index.tally]
    BY <1>4, <1>5 DEF GInv
  <2>2. Mined \in SUBSET Txs /\ Legal(Mined) /\ index = IndexFrom(Mined)
    BY ChainFacts DEF GInv
  <2>3. index = [proposals |-> Proposed(Mined), locks |-> LockMap(Mined), tally |-> Tally(Mined)]
    BY <2>2, IndexParts
  <2>4. /\ budgetman'.proposals = index'.proposals /\ budgetman'.proposals = Proposed(Mined)
        /\ budgetman'.votes = Tally(Mined)
    BY <1>1, <2>1, <2>3
  <2>5. \A p \in Proposals \ Proposed(Mined) : Tally(Mined)[p] = [d \in Directions |-> 0]
    BY <2>2, IndexParts
  <2> QED BY <2>4, <2>5 DEF Clean
<1>9. agreement' \in {"exact", "stale", "lost"} /\ (agreement' = "exact" => agreement # "lost")
  BY <1>1 DEF GInv
<1> QED BY <1>1, <1>6, <1>7, <1>8, <1>9, SameChain DEF GInv

LEMMA GovernanceVerify ==
  ASSUME GInv, NEW depth \in 1..MaxHeight, VerifyDB(depth)
  PROVE  GInv'
<1>1. PICK refreshed \in Refreshes(Mined, {"between", "after"}) :
        /\ depth <= Height /\ budgetman' = Undone(depth, refreshed).view
        /\ agreement' = IF Undone(depth, refreshed).view = budgetman THEN agreement ELSE "lost"
        /\ chain' = chain /\ index' = index
  BY DEF VerifyDB, Undone
<1>2. Undone(depth, refreshed).view \in ViewType
  <2>1. /\ Height \in Nat /\ index \in IndexType /\ budgetman \in ViewType /\ IsSeq(chain)
        /\ \A n \in DOMAIN chain : chain[n].txs \in Seq(Txs)
    BY ChainFacts DEF GInv
  <2>2. depth \in 0..Height
    BY <1>1, <2>1, GovernanceAssumption
  <2>3. PICK run : IsVerifyRun(run, depth, refreshed)
    BY <2>1, <2>2, VerifyRun
  <2>4. depth \in 0..depth
    BY <2>2
  <2>5. Undone(depth, refreshed) \in Rolled
    BY <2>3, <2>4 DEF IsVerifyRun
  <2> QED BY <2>5 DEF Rolled
<1>3. agreement' # "lost" => budgetman' = budgetman /\ agreement' = agreement
  BY <1>1
<1>4. agreement' # "lost" => budgetman'.proposals = index'.proposals /\ Clean(budgetman')
  BY <1>1, <1>3 DEF GInv
<1>5. agreement' = "exact" => budgetman' = IndexView(index)
  BY <1>3 DEF GInv
<1>6. agreement' \in {"exact", "stale", "lost"} /\ budgetman' \in ViewType
  BY <1>1, <1>2 DEF GInv
<1> QED BY <1>1, <1>4, <1>5, <1>6, SameChain DEF GInv

(* The index is what the chain makes it, and memory is exact, or differs   *)
(* in its votes alone, or is lost, as the history says: from every state   *)
(* to the next, wherever in a block the votes are refreshed.               *)
THEOREM GovernanceInvariant == Spec => []GInv
<1>1. Init => GInv
  BY GovernanceStart
<1>2. ASSUME GInv, [Next]_vars
      PROVE  GInv'
  <2>1. CASE ConnectBlock
    BY <1>2, <2>1, GovernanceConnect
  <2>2. CASE RefuseBlock
    BY <1>2, <2>2, GovernanceRefuse
  <2>3. CASE DisconnectBlock
    BY <1>2, <2>3, GovernanceDisconnect
  <2>4. CASE Restart
    BY <1>2, <2>4, GovernanceRestart
  <2>5. CASE GetAllProposalsOrdered
    BY <1>2, <2>5, GovernanceAsked
  <2>6. ASSUME NEW depth \in 1..MaxHeight, VerifyDB(depth)
        PROVE  GInv'
    BY <1>2, <2>6, GovernanceVerify
  <2>7. CASE UNCHANGED vars
    <3>1. chain' = chain /\ index' = index /\ budgetman' = budgetman /\ agreement' = agreement
      BY <2>7 DEF vars
    <3> QED BY <1>2, <3>1, SameChain DEF GInv
  <2> QED BY <1>2, <2>1, <2>2, <2>3, <2>4, <2>5, <2>6, <2>7 DEF Next
<1> QED BY <1>1, <1>2, PTL DEF Spec

LEMMA GoodIndex ==
  ASSUME GInv
  PROVE  IndexMatchesChain
<1>1. Mined \in SUBSET Txs /\ Legal(Mined) /\ index = IndexFrom(Mined)
  BY ChainFacts DEF GInv
<1>2. \A lock \in Locks : CastsWith(lock) = CastsOf(Mined, lock)
  BY DEF CastsWith, CastsOf
<1>3. index.proposals = {Tx[t].proposal : t \in {u \in Mined : Tx[u].mode = "PROPOSAL"}}
  BY <1>1 DEF IndexFrom, Proposed
<1>4. \A lock \in Locks : index.locks[lock] = LockState(Mined, lock)
  BY <1>1 DEF IndexFrom
<1>5. ASSUME NEW lock \in Locks
      PROVE  Cardinality(CastsWith(lock)) <= 1
  <2>1. CASE CastsWith(lock) = {}
    BY <2>1, FS_EmptySet
  <2>2. CASE CastsWith(lock) # {}
    <3>1. PICK t \in CastsOf(Mined, lock) : TRUE
      BY <1>2, <2>2
    <3>2. CastsOf(Mined, lock) = {t}
      BY <1>1, LockStates
    <3>3. Cardinality({t}) = 1
      BY FS_Singleton
    <3> QED BY <1>2, <3>2, <3>3
  <2> QED BY <2>1, <2>2
<1>6. ASSUME NEW lock \in Locks
      PROVE  index.locks[lock] =
               IF lock \notin Mined THEN None
               ELSE IF CastsWith(lock) = {} THEN "unused"
               ELSE Tx[CHOOSE t \in CastsWith(lock) : TRUE].direction
  <2>1. Pick(CastsWith(lock)) = CHOOSE t \in CastsWith(lock) : TRUE
    BY DEF Pick
  <2>2. CastsWith(lock) = CastsOf(Mined, lock)
    BY <1>2
  <2> QED BY <1>4, <2>1, <2>2 DEF LockState
<1>7. ASSUME NEW p \in Proposals, NEW d \in Directions
      PROVE  index.tally[p][d] =
               WeightOf({lock \in Locks : Tx[lock].proposal = p /\ index.locks[lock] = d})
  <2>1. index.tally[p][d] = WeightOf(Voted(Mined, p, d))
    BY <1>1 DEF IndexFrom
  <2>2. Voted(Mined, p, d) = {lock \in Locks : Tx[lock].proposal = p /\ index.locks[lock] = d}
    BY <1>4 DEF Voted
  <2> QED BY <2>1, <2>2
<1> QED BY <1>3, <1>5, <1>6, <1>7 DEF IndexMatchesChain

(* The index is that of the active chain, whatever memory says.            *)
THEOREM IndexMatchesChainHolds == Spec => []IndexMatchesChain
BY GovernanceInvariant, GoodIndex, PTL

(* Memory agrees with the index from the start until a restart, a refused  *)
(* block, verifychain or a refresh between the two writes of a cast.  After *)
(* a restart or such a refresh its proposals are right, and the next       *)
(* refresh between two blocks makes its votes right again.                 *)
THEOREM ViewMatchesIndexHolds == Spec => []ViewMatchesIndex
<1>1. GInv => ViewMatchesIndex
  BY DEF GInv, ViewMatchesIndex
<1> QED BY <1>1, GovernanceInvariant, PTL

(* A block passes the check if and only if it can be connected.            *)
THEOREM ChecksAgreeHolds == Spec => []ChecksAgree
<1>1. GInv => ChecksAgree
  <2> SUFFICES ASSUME GInv PROVE ChecksAgree
    OBVIOUS
  <2>1. index \in IndexType /\ budgetman \in ViewType /\ Height \in Nat
    BY ChainFacts DEF GInv
  <2> QED BY <2>1, GoodChecks
<1> QED BY <1>1, GovernanceInvariant, PTL

(* The blocks have paid what the votes say, as they stand at the end of    *)
(* the cycle or at any time after it.                                      *)
THEOREM PaidAsVotedHolds == Spec => []PaidAsVoted
BY GovernanceInvariant, GoodPayments, PTL
====
